------------------------ MODULE BridgeClientProofs ------------------------
(***************************************************************************)
(* Proofs about the BoxLite local client and its bridges, for any sets of  *)
(* processes, boxes and requests.                                          *)
(***************************************************************************)
EXTENDS BridgeClient, FiniteSetTheorems, TLAPS

(* Sets of boxes per process, and pipes, under the updates of the bridge. *)
LEMMA HandleSets ==
  ASSUME NEW f \in [Procs -> SUBSET Boxes], NEW p \in Procs, NEW b \in Boxes, NEW c \in Boxes
  PROVE  /\ [f EXCEPT ![p] = @ \cup {b}] \in [Procs -> SUBSET Boxes]
         /\ [f EXCEPT ![p] = @ \cup {c, b}] \in [Procs -> SUBSET Boxes]
         /\ [f EXCEPT ![p] = @ \ {b}] \in [Procs -> SUBSET Boxes]
         /\ [f EXCEPT ![p] = {}] \in [Procs -> SUBSET Boxes]
<1>1. \A bs \in SUBSET Boxes : [f EXCEPT ![p] = bs] \in [Procs -> SUBSET Boxes]
  OBVIOUS
<1>2. /\ f[p] \cup {b} \in SUBSET Boxes
      /\ f[p] \cup {c, b} \in SUBSET Boxes
      /\ f[p] \ {b} \in SUBSET Boxes
      /\ {} \in SUBSET Boxes
  OBVIOUS
<1> QED BY <1>1, <1>2

LEMMA Pipes ==
  ASSUME NEW S, NEW f \in [Procs -> Seq(S)], NEW p \in Procs
  PROVE  /\ \A s \in Seq(S) : [f EXCEPT ![p] = s] \in [Procs -> Seq(S)]
         /\ \A x \in S : Append(f[p], x) \in Seq(S)
         /\ \A s \in Seq(S) : f[p] \o s \in Seq(S)
         /\ f[p] # <<>> => Head(f[p]) \in S /\ Tail(f[p]) \in Seq(S)
         /\ <<>> \in Seq(S)
<1>1. f[p] \in Seq(S)
  OBVIOUS
<1> QED BY <1>1

LEMMA RefreshedType ==
  ASSUME BridgeTypeOK, NEW p \in Procs, BoxOf(p) \in Boxes,
         Refreshed(p) \/ UNCHANGED <<cached, stale>>
  PROVE  cached' \in [Procs -> SUBSET Boxes] /\ stale' \in [Procs -> SUBSET Boxes]
<1>1. cached \in [Procs -> SUBSET Boxes] /\ stale \in [Procs -> SUBSET Boxes]
  BY DEF BridgeTypeOK
<1> QED BY <1>1, HandleSets DEF Refreshed

LEMMA GotType ==
  ASSUME BridgeTypeOK, NEW p \in Procs, BoxOf(p) \in Boxes,
         Got(p) \/ UNCHANGED <<cached, stale>>
  PROVE  cached' \in [Procs -> SUBSET Boxes] /\ stale' \in [Procs -> SUBSET Boxes]
BY RefreshedType DEF BridgeTypeOK, Got

LEMMA StoppedType ==
  ASSUME BridgeTypeOK, NEW p \in Procs, BoxOf(p) \in Boxes, Stopped(p)
  PROVE  /\ cached' \in [Procs -> SUBSET Boxes] /\ stale' \in [Procs -> SUBSET Boxes]
         /\ vm' \in [Boxes -> {"absent", "running", "stopped", "removed"}]
<1>1. cached \in [Procs -> SUBSET Boxes] /\ stale \in [Procs -> SUBSET Boxes]
  BY DEF BridgeTypeOK
<1> QED BY <1>1, HandleSets DEF BridgeTypeOK, Stopped

LEMMA ServingBox ==
  ASSUME BridgeTypeOK, NEW p \in Procs, NEW action, NEW at, Serving(p, action, at)
  PROVE  /\ job[p].command.id \in Requests
         /\ job[p].command \in Command
         /\ action # "create" => BoxOf(p) \in Boxes
BY DEF Serving, BoxOf, Job, Command

LEMMA ReplyType ==
  ASSUME BridgeTypeOK, NEW p \in Procs, NEW ok, job[p].command.id \in Requests, Reply(p, ok)
  PROVE  /\ stdout' \in [Procs -> Seq(Message)]
         /\ job' \in [Procs -> Job \cup {[at |-> "boot"], None}]
<1>1. [id |-> job[p].command.id] \in Message
  BY DEF Message
<1>2. /\ stdout \in [Procs -> Seq(Message)]
      /\ job \in [Procs -> Job \cup {[at |-> "boot"], None}]
  BY DEF BridgeTypeOK
<1>3. stdout' \in [Procs -> Seq(Message)]
  BY <1>1, <1>2, Pipes DEF Reply, Put
<1> QED
  BY <1>2, <1>3 DEF Reply

(* One step of a bridge: what a request does, then the process. *)
LEMMA ServeType ==
  ASSUME BridgeTypeOK, NEW p \in Procs, NEW ok \in BOOLEAN, Serve(p, ok)
  PROVE  BridgeTypeOK'
<1> DEFINE Handles == /\ cached' \in [Procs -> SUBSET Boxes]
                      /\ simple' \in [Procs -> SUBSET Boxes]
                      /\ stale' \in [Procs -> SUBSET Boxes]
           Vm == vm' \in [Boxes -> {"absent", "running", "stopped", "removed"}]
           Out == /\ stdout' \in [Procs -> Seq(Message)]
                  /\ job' \in [Procs -> Job \cup {[at |-> "boot"], None}]
<1>0. /\ cached \in [Procs -> SUBSET Boxes] /\ simple \in [Procs -> SUBSET Boxes]
      /\ stale \in [Procs -> SUBSET Boxes]
      /\ vm \in [Boxes -> {"absent", "running", "stopped", "removed"}]
      /\ stdout \in [Procs -> Seq(Message)]
      /\ job \in [Procs -> Job \cup {[at |-> "boot"], None}]
  BY DEF BridgeTypeOK
<1>1. ASSUME Create(p, ok) PROVE Handles /\ Vm /\ Out
  <2>1. job[p].command.id \in Requests
    BY <1>1, ServingBox DEF Create
  <2>2. Out
    BY <1>1, <2>1, ReplyType DEF Create
  <2>3. ok => Handles /\ Vm
    <3> SUFFICES ASSUME ok PROVE Handles /\ Vm
      OBVIOUS
    <3>1. PICK b \in Boxes : /\ vm' = [vm EXCEPT ![b] = "running"]
                             /\ cached' = [cached EXCEPT ![p] = @ \cup {b}]
                             /\ simple' = [simple EXCEPT ![p] = @ \cup {b}]
      BY <1>1 DEF Create
    <3> QED BY <1>0, <1>1, <3>1, HandleSets DEF Create
  <2> QED BY <1>0, <1>1, <2>2, <2>3 DEF Create
<1>2. ASSUME Use(p, ok) PROVE Handles /\ Vm /\ Out
  <2>1. job[p].command.id \in Requests /\ BoxOf(p) \in Boxes
    BY <1>2, ServingBox DEF Use
  <2>2. Out
    BY <1>2, <2>1, ReplyType DEF Use
  <2> QED BY <1>0, <1>2, <2>1, <2>2, GotType DEF Use
<1>3. ASSUME Start(p, ok) PROVE Handles /\ Vm /\ Out
  <2>1. job[p].command.id \in Requests /\ BoxOf(p) \in Boxes
    BY <1>3, ServingBox DEF Start
  <2>2. Out
    BY <1>3, <2>1, ReplyType DEF Start
  <2>3. Refreshed(p) \/ UNCHANGED <<cached, stale>>
    BY <1>3 DEF Start, Unrefreshed
  <2> QED BY <1>0, <1>3, <2>1, <2>2, <2>3, RefreshedType DEF Start
<1>4. ASSUME Stop(p, ok) PROVE Handles /\ Vm /\ Out
  <2>1. job[p].command.id \in Requests /\ BoxOf(p) \in Boxes
    BY <1>4, ServingBox DEF Stop
  <2>2. Out
    BY <1>4, <2>1, ReplyType DEF Stop
  <2>3. CASE Stopped(p)
    BY <1>0, <1>4, <2>1, <2>2, <2>3, StoppedType DEF Stop
  <2>4. CASE Refreshed(p) /\ vm' = [vm EXCEPT ![BoxOf(p)] = "stopped"]
    BY <1>0, <1>4, <2>1, <2>2, <2>4, RefreshedType DEF Stop
  <2>5. CASE (Got(p) \/ UNCHANGED <<cached, stale>>) /\ UNCHANGED vm
    BY <1>0, <1>4, <2>1, <2>2, <2>5, GotType DEF Stop
  <2> QED BY <1>4, <2>3, <2>4, <2>5 DEF Stop
<1>5. ASSUME SnapshotStop(p, ok) PROVE Handles /\ Vm /\ Out
  <2>1. job[p].command.id \in Requests /\ BoxOf(p) \in Boxes
    BY <1>5, ServingBox DEF SnapshotStop
  <2>2. CASE ok
    <3>1. [job[p] EXCEPT !.at = "stopped"] \in Job
      BY <1>5 DEF SnapshotStop, Serving, Job
    <3>2. Out
      BY <1>0, <1>5, <2>2, <3>1 DEF SnapshotStop
    <3> QED BY <1>0, <1>5, <2>1, <2>2, <3>2, StoppedType DEF SnapshotStop
  <2>3. CASE ~ok
    <3>1. Out
      BY <1>5, <2>1, <2>3, ReplyType DEF SnapshotStop
    <3>2. Refreshed(p) \/ UNCHANGED <<cached, stale>>
      BY <1>5, <2>3 DEF SnapshotStop, Unrefreshed
    <3> QED BY <1>0, <1>5, <2>1, <2>3, <3>1, <3>2, RefreshedType DEF SnapshotStop
  <2> QED BY <2>2, <2>3
<1>6. ASSUME SnapshotTake(p, ok) PROVE Handles /\ Vm /\ Out
  <2>1. job[p].command.id \in Requests
    BY <1>6, ServingBox DEF SnapshotTake
  <2>2. [job[p] EXCEPT !.at = "snapped"] \in Job
    BY <1>6 DEF SnapshotTake, Serving, Job
  <2>3. CASE ok
    BY <1>0, <1>6, <2>2, <2>3 DEF SnapshotTake, handles
  <2>4. CASE ~ok
    <3>1. Out
      BY <1>6, <2>1, <2>4, ReplyType DEF SnapshotTake
    <3> QED BY <1>0, <1>6, <3>1 DEF SnapshotTake, handles
  <2> QED BY <2>3, <2>4
<1>7. ASSUME SnapshotRestart(p, ok) PROVE Handles /\ Vm /\ Out
  <2>1. job[p].command.id \in Requests /\ BoxOf(p) \in Boxes
    BY <1>7, ServingBox DEF SnapshotRestart
  <2>2. Out
    BY <1>7, <2>1, ReplyType DEF SnapshotRestart
  <2>3. Refreshed(p) \/ UNCHANGED <<cached, stale>>
    BY <1>7 DEF SnapshotRestart
  <2> QED BY <1>0, <1>7, <2>1, <2>2, <2>3, RefreshedType DEF SnapshotRestart
<1>8. ASSUME Clone(p, ok) PROVE Handles /\ Vm /\ Out
  <2>1. job[p].command.id \in Requests /\ BoxOf(p) \in Boxes
    BY <1>8, ServingBox DEF Clone
  <2>2. Out
    BY <1>8, <2>1, ReplyType DEF Clone
  <2>3. CASE ok
    <3>1. PICK b \in Boxes : /\ vm' = [vm EXCEPT ![b] = "stopped"]
                             /\ cached' = [cached EXCEPT ![p] = @ \cup {BoxOf(p), b}]
      BY <1>8, <2>3 DEF Clone
    <3>2. cached' \in [Procs -> SUBSET Boxes]
      BY <1>0, <2>1, <3>1, HandleSets
    <3>3. stale' = stale \/ stale' = [stale EXCEPT ![p] = @ \ {BoxOf(p)}]
      BY <1>8, <2>3 DEF Clone
    <3>0. [stale EXCEPT ![p] = @ \ {BoxOf(p)}] \in [Procs -> SUBSET Boxes]
      BY <1>0, <2>1, HandleSets
    <3>4. stale' \in [Procs -> SUBSET Boxes]
      BY <1>0, <3>0, <3>3
    <3> QED BY <1>0, <1>8, <2>2, <3>1, <3>2, <3>4 DEF Clone
  <2>4. CASE ~ok
    <3>1. Refreshed(p) \/ UNCHANGED <<cached, stale>>
      BY <1>8, <2>4 DEF Clone, Unrefreshed
    <3> QED BY <1>0, <1>8, <2>1, <2>2, <2>4, <3>1, RefreshedType DEF Clone
  <2> QED BY <2>3, <2>4
<1>9. ASSUME Destroy(p, ok) PROVE Handles /\ Vm /\ Out
  <2>1. job[p].command.id \in Requests /\ BoxOf(p) \in Boxes
    BY <1>9, ServingBox DEF Destroy
  <2>2. Out
    BY <1>9, <2>1, ReplyType DEF Destroy
  <2>3. Handles
    BY <1>0, <1>9, <2>1, HandleSets DEF Destroy
  <2>4. Vm
    BY <1>0, <1>9, <2>1 DEF Destroy
  <2> QED BY <2>2, <2>3, <2>4
<1>10. UNCHANGED <<child, killed, stdin, ended>>
  BY DEF Serve, Create, Use, Start, Stop, SnapshotStop, SnapshotTake, SnapshotRestart, Clone, Destroy
<1>11. Handles /\ Vm /\ Out
  BY <1>1, <1>2, <1>3, <1>4, <1>5, <1>6, <1>7, <1>8, <1>9 DEF Serve
<1> QED BY <1>10, <1>11 DEF BridgeTypeOK

LEMMA EmptySeq == \A S : <<>> \in Seq(S)
OBVIOUS

LEMMA GoneType ==
  ASSUME BridgeTypeOK, NEW p \in Procs, NEW code \in {"exit", "exit error"}, Gone(p, code)
  PROVE  /\ child' \in [Procs -> {"none", "alive", "exit", "exit error", "reaped", "reaped error"}]
         /\ job' \in [Procs -> Job \cup {[at |-> "boot"], None}]
         /\ cached' \in [Procs -> SUBSET Boxes]
         /\ simple' \in [Procs -> SUBSET Boxes]
         /\ stale' \in [Procs -> SUBSET Boxes]
         /\ stdin' \in [Procs -> Seq(Command)]
<1>1. <<>> \in Seq(Command)
  BY EmptySeq
<1>2. /\ stdin \in [Procs -> Seq(Command)]
      /\ cached \in [Procs -> SUBSET Boxes] /\ simple \in [Procs -> SUBSET Boxes]
      /\ stale \in [Procs -> SUBSET Boxes]
  BY DEF BridgeTypeOK
<1>3. stdin' \in [Procs -> Seq(Command)]
  BY <1>1, <1>2 DEF Gone
<1>4. /\ cached' \in [Procs -> SUBSET Boxes] /\ simple' \in [Procs -> SUBSET Boxes]
      /\ stale' \in [Procs -> SUBSET Boxes]
  BY <1>2 DEF Gone
<1>5. /\ child' \in [Procs -> {"none", "alive", "exit", "exit error", "reaped", "reaped error"}]
      /\ job' \in [Procs -> Job \cup {[at |-> "boot"], None}]
  BY DEF BridgeTypeOK, Gone
<1> QED BY <1>3, <1>4, <1>5

LEMMA BridgeStepType ==
  ASSUME BridgeTypeOK, BridgeNext
  PROVE  BridgeTypeOK'
<1>1. ASSUME NEW p \in Procs, Take(p) PROVE BridgeTypeOK'
  <2>1. Head(stdin[p]) \in Command /\ Tail(stdin[p]) \in Seq(Command)
    BY <1>1, Pipes DEF Take, BridgeTypeOK
  <2>2. [command |-> Head(stdin[p]), at |-> "begin"] \in Job
    BY <2>1 DEF Job
  <2> QED BY <1>1, <2>1, <2>2 DEF Take, handles, BridgeTypeOK
<1>2. ASSUME NEW p \in Procs, Eof(p) PROVE BridgeTypeOK'
  BY <1>2, GoneType DEF Eof, BridgeTypeOK
<1>3. ASSUME NEW p \in Procs, NEW code \in {"exit", "exit error"}, Die(p, code)
      PROVE  BridgeTypeOK'
  BY <1>3, GoneType DEF Die, BridgeTypeOK
<1>4. ASSUME NEW p \in Procs, NEW sdk \in BOOLEAN, Boot(p, sdk) PROVE BridgeTypeOK'
  <2>1. [ready |-> sdk] \in Message
    BY DEF Message
  <2>2. stdout \in [Procs -> Seq(Message)]
    BY DEF BridgeTypeOK
  <2>3. stdout' \in [Procs -> Seq(Message)]
    BY <1>4, <2>1, <2>2, Pipes DEF Boot, Put
  <2>4. CASE sdk
    BY <1>4, <2>3, <2>4 DEF Boot, handles, BridgeTypeOK
  <2>5. CASE ~sdk
    <3>1. Gone(p, "exit error") /\ UNCHANGED <<vm, killed, ended>>
      BY <1>4, <2>5 DEF Boot
    <3> QED BY <2>3, <3>1, GoneType DEF BridgeTypeOK
  <2> QED BY <2>4, <2>5
<1>5. ASSUME NEW p \in Procs, NEW ok \in BOOLEAN, Serve(p, ok) PROVE BridgeTypeOK'
  BY <1>5, ServeType
<1> QED BY <1>1, <1>2, <1>3, <1>4, <1>5 DEF BridgeNext

-----------------------------------------------------------------------------
(* The client. *)

Wait == {NotSent, Settled} \cup [at : {"starting", "pending"}, of : Procs]

ClientTypeOK ==
  /\ bridge    \in Procs \cup {None}
  /\ ready     \in {"pending", "resolved", "rejected"}
  /\ starters  \in Seq(Command)
  /\ req       \in [Requests -> Wait]
  /\ disposing \in Procs \cup {None}

LEMMA TypeParts == TypeOK <=> BridgeTypeOK /\ ClientTypeOK
BY DEF TypeOK, ClientTypeOK, Wait

LEMMA BecomeType ==
  ASSUME ClientTypeOK, NEW rs, NEW where \in Wait, Become(rs, where)
  PROVE  req' \in [Requests -> Wait]
BY DEF ClientTypeOK, Become

LEMMA ToStdinType ==
  ASSUME BridgeTypeOK, NEW p \in Procs, NEW cs \in Seq(Command),
         ToStdin(p, cs) \/ UNCHANGED stdin
  PROVE  stdin' \in [Procs -> Seq(Command)]
<1>1. stdin \in [Procs -> Seq(Command)]
  BY DEF BridgeTypeOK
<1>2. [stdin EXCEPT ![p] = @ \o cs] \in [Procs -> Seq(Command)]
  BY <1>1, Pipes
<1> QED BY <1>1, <1>2 DEF ToStdin

LEMMA WaitTypes ==
  /\ Settled \in Wait /\ NotSent \in Wait
  /\ \A p \in Procs : /\ [at |-> "starting", of |-> p] \in Wait
                      /\ [at |-> "pending", of |-> p] \in Wait
BY DEF Wait

LEMMA ClientStepType ==
  ASSUME BridgeTypeOK, ClientTypeOK, ClientNext
  PROVE  BridgeTypeOK' /\ ClientTypeOK'
<1> USE WaitTypes, EmptySeq
<1>1. ASSUME NEW c \in Command, Send(c) PROVE BridgeTypeOK' /\ ClientTypeOK'
  <2>1. <<c>> \in Seq(Command) /\ Append(starters, c) \in Seq(Command)
    BY DEF ClientTypeOK
  <2>2. CASE StartBridge(c)
    BY <1>1, <2>1, <2>2, BecomeType DEF Send, StartBridge, BridgeTypeOK, ClientTypeOK, handles
  <2>3. CASE AwaitBridge(c)
    BY <1>1, <2>1, <2>3, BecomeType DEF Send, AwaitBridge, BridgeTypeOK, ClientTypeOK, handles
  <2>4. CASE Write(c)
    <3>1. bridge \in Procs
      BY <2>4 DEF Write, ClientTypeOK
    <3>2. stdin' \in [Procs -> Seq(Command)]
      BY <2>1, <2>4, <3>1, ToStdinType DEF Write
    <3>3. req' \in [Requests -> Wait]
      BY <2>4, <3>1, BecomeType DEF Write
    <3> QED BY <1>1, <2>4, <3>2, <3>3 DEF Send, Write, BridgeTypeOK, ClientTypeOK, handles
  <2> QED BY <1>1, <2>2, <2>3, <2>4 DEF Send
<1>2. ASSUME NEW r \in Requests, Timeout(r) PROVE BridgeTypeOK' /\ ClientTypeOK'
  BY <1>2, BecomeType DEF Timeout, BridgeTypeOK, ClientTypeOK, handles, children, pipes
<1>3. ASSUME Line PROVE BridgeTypeOK' /\ ClientTypeOK'
  <2>1. bridge \in Procs /\ stdout \in [Procs -> Seq(Message)] /\ starters \in Seq(Command)
    BY <1>3 DEF Line, ClientTypeOK, BridgeTypeOK
  <2>2. Tail(stdout[bridge]) \in Seq(Message)
    BY <1>3, <2>1, Pipes DEF Line
  <2>3. stdout' \in [Procs -> Seq(Message)]
    BY <1>3, <2>1, <2>2, Pipes DEF Line
  <2>4. CASE BecomesReady
    <3>1. stdin' \in [Procs -> Seq(Command)]
      BY <2>1, <2>4, ToStdinType DEF BecomesReady
    <3>2. req' \in [Requests -> Wait]
      BY <2>1, <2>4, BecomeType DEF BecomesReady
    <3> QED BY <1>3, <2>3, <2>4, <3>1, <3>2
            DEF Line, BecomesReady, BridgeTypeOK, ClientTypeOK, handles, children
  <2>5. CASE BecomesRejected
    BY <1>3, <2>3, <2>5, BecomeType
       DEF Line, BecomesRejected, BridgeTypeOK, ClientTypeOK, handles, children
  <2>6. CASE \E r : Answered(r)
    <3>1. PICK r : Answered(r)
      BY <2>6
    <3> QED BY <1>3, <2>3, <3>1, BecomeType
            DEF Line, Answered, BridgeTypeOK, ClientTypeOK, handles, children
  <2> QED BY <1>3, <2>4, <2>5, <2>6 DEF Line
<1>4. ASSUME NEW p \in Procs, Exit(p) PROVE BridgeTypeOK' /\ ClientTypeOK'
  <2>1. req' \in [Requests -> Wait]
    BY <1>4, BecomeType DEF Exit
  <2>2. child' \in [Procs -> {"none", "alive", "exit", "exit error", "reaped", "reaped error"}]
    BY <1>4 DEF Exit, BridgeTypeOK
  <2>3. stdout' \in [Procs -> Seq(Message)]
    BY <1>4 DEF Exit, BridgeTypeOK
  <2> QED BY <1>4, <2>1, <2>2, <2>3 DEF Exit, Forget, BridgeTypeOK, ClientTypeOK, handles
<1>5. ASSUME Dispose PROVE BridgeTypeOK' /\ ClientTypeOK'
  BY <1>5 DEF Dispose, BridgeTypeOK, ClientTypeOK, handles, children
<1>6. ASSUME DisposeTimeout PROVE BridgeTypeOK' /\ ClientTypeOK'
  BY <1>6 DEF DisposeTimeout, Forget, BridgeTypeOK, ClientTypeOK, handles, pipes
<1> QED BY <1>1, <1>2, <1>3, <1>4, <1>5, <1>6 DEF ClientNext

LEMMA TypeInit == Init => TypeOK
<1> SUFFICES ASSUME Init PROVE TypeOK
  OBVIOUS
<1>1. BridgeTypeOK
  BY EmptySeq, BridgeConstants DEF Init, BridgeInit, BridgeTypeOK
<1>2. ClientTypeOK
  BY EmptySeq, WaitTypes DEF Init, ClientTypeOK
<1> QED BY <1>1, <1>2, TypeParts

LEMMA TypeStep == TypeOK /\ [Next]_vars => TypeOK'
<1> SUFFICES ASSUME BridgeTypeOK, ClientTypeOK, [Next]_vars
             PROVE  BridgeTypeOK' /\ ClientTypeOK'
  BY DEF TypeOK, ClientTypeOK, Wait
<1>1. CASE ClientNext
  BY <1>1, ClientStepType
<1>2. CASE BridgeNext /\ UNCHANGED client
  BY <1>2, BridgeStepType DEF client, ClientTypeOK
<1>3. CASE UNCHANGED vars
  BY <1>3 DEF vars, client, children, handles, pipes, BridgeTypeOK, ClientTypeOK
<1> QED BY <1>1, <1>2, <1>3 DEF Next

-----------------------------------------------------------------------------
(* One process at a time. *)

Unreaped == {"alive", "exit", "exit error"}

\* A process whose exit the client has not seen is the client's; one that is not
\* alive has no handles and serves nothing.
Single ==
  /\ killed = {} => \A p \in Procs : child[p] \in Unreaped => bridge = p
  /\ \A p \in Procs : child[p] # "alive" => stale[p] = {} /\ job[p] = None

SingleInv == TypeOK /\ Single

LEMMA SingleInit == Init => Single
BY DEF Init, BridgeInit, Single, Unreaped

\* What one process does is told from its own state.
LEMMA OwnBusiness ==
  ASSUME TypeOK, NEW p \in Procs, NEW ok \in BOOLEAN, Serve(p, ok)
  PROVE  /\ child[p] = "alive" /\ job[p] \in Job
         /\ UNCHANGED <<child, killed>>
         /\ \A q \in Procs \ {p} : stale'[q] = stale[q] /\ job'[q] = job[q]
<1> USE DEF Reply, Refreshed, Unrefreshed, Got, Stopped, handles
<1>0. stale \in [Procs -> SUBSET Boxes] /\ job \in [Procs -> Job \cup {[at |-> "boot"], None}]
  BY DEF TypeOK, BridgeTypeOK
<1>1. child[p] = "alive" /\ job[p] \in Job /\ UNCHANGED <<child, killed>>
  BY DEF Serve, Create, Use, Start, Stop, SnapshotStop, SnapshotTake, SnapshotRestart,
         Clone, Destroy, Serving
<1>2. /\ \A q \in Procs \ {p} : stale'[q] = stale[q]
      /\ \A q \in Procs \ {p} : job'[q] = job[q]
  BY <1>0 DEF Serve, Create, Use, Start, Stop, SnapshotStop, SnapshotTake, SnapshotRestart,
              Clone, Destroy
<1> QED BY <1>1, <1>2

LEMMA SingleStep == SingleInv /\ [Next]_vars => Single'
<1> SUFFICES ASSUME TypeOK, Single, [Next]_vars PROVE Single'
  BY DEF SingleInv
<1> USE DEF Single, Unreaped
<1>0. /\ child \in [Procs -> {"none", "alive", "exit", "exit error", "reaped", "reaped error"}]
      /\ stale \in [Procs -> SUBSET Boxes] /\ job \in [Procs -> Job \cup {[at |-> "boot"], None}]
      /\ bridge \in Procs \cup {None}
  BY DEF TypeOK, BridgeTypeOK
<1>1. ASSUME NEW c \in Command, Send(c) PROVE Single'
  <2>1. CASE StartBridge(c)
    BY <1>0, <1>1, <2>1, BridgeConstants DEF Send, StartBridge, handles
  <2>2. CASE AwaitBridge(c) \/ Write(c)
    BY <1>1, <2>2 DEF Send, AwaitBridge, Write, handles
  <2> QED BY <1>1, <2>1, <2>2 DEF Send
<1>2. ASSUME NEW r \in Requests, Timeout(r) PROVE Single'
  BY <1>2 DEF Timeout, children, handles
<1>3. ASSUME Line PROVE Single'
  BY <1>3 DEF Line, children, handles
<1>4. ASSUME NEW p \in Procs, Exit(p) PROVE Single'
  BY <1>0, <1>4 DEF Exit, Forget, handles
<1>5. ASSUME Dispose PROVE Single'
  BY <1>5 DEF Dispose, children, handles
<1>6. ASSUME DisposeTimeout PROVE Single'
  <2>1. CASE bridge = None
    BY <1>6, <2>1, BridgeConstants DEF DisposeTimeout, Forget, handles
  <2>2. CASE bridge # None
    BY <1>6, <2>2 DEF DisposeTimeout, handles
  <2> QED BY <2>1, <2>2
<1>7. ASSUME NEW p \in Procs, Take(p), UNCHANGED client PROVE Single'
  BY <1>0, <1>7 DEF Take, client, handles
<1>8. ASSUME NEW p \in Procs, NEW code \in {"exit", "exit error"}, Gone(p, code), child[p] = "alive",
             UNCHANGED killed, UNCHANGED client
      PROVE  Single'
  BY <1>0, <1>8 DEF Gone, client
<1>9. ASSUME NEW p \in Procs, NEW ok \in BOOLEAN, Boot(p, ok), UNCHANGED client PROVE Single'
  <2>1. CASE ok
    BY <1>0, <1>9, <2>1 DEF Boot, handles, client
  <2>2. CASE ~ok
    BY <1>8, <1>9, <2>2 DEF Boot
  <2> QED BY <2>1, <2>2
<1>10. ASSUME NEW p \in Procs, NEW ok \in BOOLEAN, Serve(p, ok), UNCHANGED client PROVE Single'
  BY <1>10, OwnBusiness DEF client
<1>11. CASE UNCHANGED vars
  BY <1>11 DEF vars, client, children, handles
<1>12. CASE ClientNext
  BY <1>1, <1>2, <1>3, <1>4, <1>5, <1>6, <1>12 DEF ClientNext
<1>13. CASE BridgeNext /\ UNCHANGED client
  BY <1>7, <1>8, <1>9, <1>10, <1>13 DEF BridgeNext, Eof, Die
<1> QED BY <1>11, <1>12, <1>13 DEF Next

\* Every variable of the client and of its bridges keeps its type.
THEOREM TypeCorrect == Spec => []TypeOK
<1> QED BY TypeInit, TypeStep, PTL DEF Spec

LEMMA SingleAlways == Spec => []SingleInv
<1>1. SingleInv /\ [Next]_vars => SingleInv'
  BY TypeStep, SingleStep DEF SingleInv
<1> QED BY TypeInit, SingleInit, <1>1, PTL DEF Spec, SingleInv

\* The process the client knows is the only one alive, as long as no dispose()
\* gave up on one: no two bridges work on the same boxes.
THEOREM OneBridgeSafe == Spec => []OneBridge
<1>1. SingleInv => OneBridge
  BY DEF SingleInv, Single, Unreaped, OneBridge
<1> QED BY <1>1, SingleAlways, PTL

-----------------------------------------------------------------------------
(* Handles and snapshots. *)

\* A box whose handle is invalid is stopped; so is one of which a snapshot is
\* being taken.
HandleInv ==
  killed = {} =>
    \A p \in Procs : /\ \A b \in stale[p] : vm[b] = "stopped"
                     /\ job[p] \in Job /\ job[p].at = "stopped" => vm[BoxOf(p)] = "stopped"

LEMMA ReplyJob ==
  ASSUME TypeOK, NEW p \in Procs, NEW ok, Reply(p, ok)
  PROVE  job'[p] = None
BY DEF TypeOK, BridgeTypeOK, Reply

\* What a request does to the box, to its handle and to the rest.
LEMMA ServeHandles ==
  ASSUME TypeOK, NEW p \in Procs, NEW ok \in BOOLEAN, Serve(p, ok),
         \A b \in stale[p] : vm[b] = "stopped",
         job[p] \in Job /\ job[p].at = "stopped" => vm[BoxOf(p)] = "stopped"
  PROVE  /\ \A b \in stale'[p] : vm'[b] = "stopped"
         /\ job'[p] \in Job /\ job'[p].at = "stopped" => vm'[BoxOf(p)'] = "stopped"
<1> DEFINE Good == /\ \A b \in stale'[p] : vm'[b] = "stopped"
                   /\ job'[p] \in Job /\ job'[p].at = "stopped" => vm'[BoxOf(p)'] = "stopped"
<1>0. /\ vm \in [Boxes -> {"absent", "running", "stopped", "removed"}]
      /\ stale \in [Procs -> SUBSET Boxes] /\ job \in [Procs -> Job \cup {[at |-> "boot"], None}]
      /\ BridgeTypeOK
  BY DEF TypeOK, BridgeTypeOK
<1>1. ASSUME Create(p, ok) PROVE Good
  <2>1. job'[p] = None
    BY <1>1, ReplyJob DEF Create
  <2>2. stale'[p] = stale[p]
    BY <1>1 DEF Create
  <2>3. \A b \in stale[p] : vm'[b] = vm[b]
    BY <1>0, <1>1 DEF Create
  <2> QED BY <2>1, <2>2, <2>3, BridgeConstants
<1>2. ASSUME Use(p, ok) PROVE Good
  <2>1. job'[p] = None
    BY <1>2, ReplyJob DEF Use
  <2>2. stale'[p] \subseteq stale[p] /\ vm' = vm
    BY <1>0, <1>2 DEF Use, Got, Refreshed
  <2> QED BY <2>1, <2>2, BridgeConstants
<1>3. ASSUME Start(p, ok) PROVE Good
  <2>1. job'[p] = None /\ BoxOf(p) \in Boxes
    BY <1>0, <1>3, ReplyJob, ServingBox DEF Start
  <2>2. CASE ok
    <3>1. stale'[p] = stale[p] \ {BoxOf(p)}
      BY <1>0, <1>3, <2>2 DEF Start, Refreshed
    <3>2. \A b \in Boxes \ {BoxOf(p)} : vm'[b] = vm[b]
      BY <1>0, <1>3, <2>2 DEF Start
    <3> QED BY <1>0, <2>1, <3>1, <3>2, BridgeConstants
  <2>3. CASE ~ok
    <3>1. stale'[p] \subseteq stale[p] /\ vm' = vm
      BY <1>0, <1>3, <2>3 DEF Start, Unrefreshed, Refreshed
    <3> QED BY <2>1, <3>1, BridgeConstants
  <2> QED BY <2>2, <2>3
<1>4. ASSUME Stop(p, ok) PROVE Good
  <2>1. job'[p] = None /\ BoxOf(p) \in Boxes
    BY <1>0, <1>4, ReplyJob, ServingBox DEF Stop
  <2>2. CASE vm' = [vm EXCEPT ![BoxOf(p)] = "stopped"]
    <3>1. stale'[p] \subseteq stale[p] \cup {BoxOf(p)}
      BY <1>0, <1>4, <2>1 DEF Stop, Stopped, Refreshed, Got
    <3> QED BY <1>0, <2>1, <2>2, <3>1, BridgeConstants
  <2>3. CASE (Got(p) \/ UNCHANGED <<cached, stale>>) /\ UNCHANGED vm
    <3>1. stale'[p] \subseteq stale[p]
      BY <1>0, <2>3 DEF Refreshed, Got
    <3> QED BY <2>1, <2>3, <3>1, BridgeConstants
  <2> QED BY <1>4, <2>2, <2>3 DEF Stop, Stopped
<1>5. ASSUME SnapshotStop(p, ok) PROVE Good
  <2>1. BoxOf(p) \in Boxes
    BY <1>0, <1>5, ServingBox DEF SnapshotStop
  <2>2. CASE ok
    <3>1. /\ stale'[p] = stale[p] \cup {BoxOf(p)}
          /\ vm' = [vm EXCEPT ![BoxOf(p)] = "stopped"]
      BY <1>0, <1>5, <2>2 DEF SnapshotStop, Stopped
    <3>2. BoxOf(p)' = BoxOf(p)
      BY <1>0, <1>5, <2>2 DEF SnapshotStop, BoxOf, Serving, Job
    <3> QED BY <1>0, <2>1, <3>1, <3>2
  <2>3. CASE ~ok
    <3>1. job'[p] = None
      BY <1>5, <2>3, ReplyJob DEF SnapshotStop
    <3>2. stale'[p] \subseteq stale[p] /\ vm' = vm
      BY <1>0, <1>5, <2>3 DEF SnapshotStop, Unrefreshed, Refreshed
    <3> QED BY <3>1, <3>2, BridgeConstants
  <2> QED BY <2>2, <2>3
<1>6. ASSUME SnapshotTake(p, ok) PROVE Good
  <2>1. stale' = stale /\ vm' = vm
    BY <1>6 DEF SnapshotTake, handles
  <2>2. CASE ok
    <3>1. job'[p].at = "snapped"
      BY <1>0, <1>6, <2>2 DEF SnapshotTake, Serving, Job
    <3> QED BY <2>1, <3>1
  <2>3. CASE ~ok
    <3>1. job'[p] = None
      BY <1>6, <2>3, ReplyJob DEF SnapshotTake
    <3> QED BY <2>1, <3>1, BridgeConstants
  <2> QED BY <2>2, <2>3
<1>7. ASSUME SnapshotRestart(p, ok) PROVE Good
  <2>1. job'[p] = None /\ BoxOf(p) \in Boxes
    BY <1>0, <1>7, ReplyJob, ServingBox DEF SnapshotRestart
  <2>2. CASE ok
    <3>1. stale'[p] = stale[p] \ {BoxOf(p)}
      BY <1>0, <1>7, <2>2 DEF SnapshotRestart, Refreshed
    <3>2. \A b \in Boxes \ {BoxOf(p)} : vm'[b] = vm[b]
      BY <1>0, <1>7, <2>2 DEF SnapshotRestart
    <3> QED BY <1>0, <2>1, <3>1, <3>2, BridgeConstants
  <2>3. CASE ~ok
    BY <1>7, <2>1, <2>3, BridgeConstants DEF SnapshotRestart
  <2> QED BY <2>2, <2>3
<1>8. ASSUME Clone(p, ok) PROVE Good
  <2>1. job'[p] = None /\ BoxOf(p) \in Boxes
    BY <1>0, <1>8, ReplyJob, ServingBox DEF Clone
  <2>2. stale'[p] \subseteq stale[p]
    BY <1>0, <1>8 DEF Clone, Unrefreshed, Refreshed
  <2>3. \A b \in stale[p] : vm'[b] = "stopped"
    BY <1>0, <1>8 DEF Clone
  <2> QED BY <2>1, <2>2, <2>3, BridgeConstants
<1>9. ASSUME Destroy(p, ok) PROVE Good
  <2>1. job'[p] = None /\ BoxOf(p) \in Boxes
    BY <1>0, <1>9, ReplyJob, ServingBox DEF Destroy
  <2>2. stale'[p] = stale[p] \ {BoxOf(p)}
    BY <1>0, <1>9 DEF Destroy
  <2>3. \A b \in Boxes \ {BoxOf(p)} : vm'[b] = vm[b]
    BY <1>0, <1>9 DEF Destroy
  <2> QED BY <1>0, <2>1, <2>2, <2>3, BridgeConstants
<1> QED BY <1>1, <1>2, <1>3, <1>4, <1>5, <1>6, <1>7, <1>8, <1>9 DEF Serve

LEMMA HandleStep == SingleInv /\ HandleInv /\ [Next]_vars => HandleInv'
<1> SUFFICES ASSUME TypeOK, Single, HandleInv, [Next]_vars, killed' = {} PROVE HandleInv'
  BY DEF SingleInv, HandleInv
<1>0. /\ child \in [Procs -> {"none", "alive", "exit", "exit error", "reaped", "reaped error"}]
      /\ stale \in [Procs -> SUBSET Boxes] /\ job \in [Procs -> Job \cup {[at |-> "boot"], None}]
  BY DEF TypeOK, BridgeTypeOK
<1>1. CASE \E p \in Procs, ok \in BOOLEAN : Serve(p, ok) /\ UNCHANGED client
  <2>1. PICK p \in Procs, ok \in BOOLEAN : Serve(p, ok) /\ UNCHANGED client
    BY <1>1
  <2>2. /\ child[p] = "alive" /\ killed = {}
        /\ \A q \in Procs \ {p} : stale'[q] = stale[q] /\ job'[q] = job[q]
    BY <2>1, OwnBusiness
  <2>3. \A q \in Procs \ {p} : child[q] # "alive"
    BY <2>2 DEF Single, Unreaped
  <2>4. \A q \in Procs \ {p} : stale'[q] = {} /\ job'[q] = None
    BY <2>2, <2>3 DEF Single
  <2>5. /\ \A b \in stale[p] : vm[b] = "stopped"
        /\ job[p] \in Job /\ job[p].at = "stopped" => vm[BoxOf(p)] = "stopped"
    BY <2>2 DEF HandleInv
  <2>6. /\ \A b \in stale'[p] : vm'[b] = "stopped"
        /\ job'[p] \in Job /\ job'[p].at = "stopped" => vm'[BoxOf(p)'] = "stopped"
    BY <2>1, <2>5, ServeHandles
  <2> QED BY <2>4, <2>6, BridgeConstants DEF HandleInv, BoxOf
<1>2. ASSUME UNCHANGED vm, killed = {},
             \A p \in Procs : /\ stale'[p] \subseteq stale[p]
                              /\ \/ job'[p] = job[p] \/ job'[p] \notin Job
                                 \/ job'[p].at # "stopped"
      PROVE  HandleInv'
  BY <1>2 DEF HandleInv, BoxOf
<1>3. CASE BridgeNext /\ UNCHANGED client /\ ~ \E p \in Procs, ok \in BOOLEAN : Serve(p, ok)
  <2>1. ASSUME NEW p \in Procs, Take(p) PROVE HandleInv'
    BY <1>0, <1>2, <2>1 DEF Take, handles
  <2>2. ASSUME NEW p \in Procs, NEW code, Gone(p, code), UNCHANGED <<vm, killed>> PROVE HandleInv'
    BY <1>0, <1>2, <2>2, BridgeConstants DEF Gone
  <2>3. ASSUME NEW p \in Procs, NEW sdk \in BOOLEAN, Boot(p, sdk) PROVE HandleInv'
    <3>1. CASE sdk
      BY <1>0, <1>2, <2>3, <3>1, BridgeConstants DEF Boot, handles
    <3> QED BY <2>2, <2>3, <3>1 DEF Boot
  <2> QED BY <1>3, <2>1, <2>2, <2>3 DEF BridgeNext, Eof, Die
<1>4. CASE ClientNext
  <2>1. UNCHANGED vm /\ stale' = stale /\ killed = {}
    BY <1>4 DEF ClientNext, Send, Timeout, Line, Exit, Dispose, DisposeTimeout, children, handles
  <2>2. ASSUME NEW c \in Command, Send(c) PROVE HandleInv'
    <3>1. job' = job \/ \E p \in Procs : job' = [job EXCEPT ![p] = [at |-> "boot"]]
      BY <2>2 DEF Send, StartBridge, AwaitBridge, Write
    <3>2. \A p \in Procs : job'[p] = job[p] \/ job'[p] = [at |-> "boot"]
      BY <1>0, <3>1
    <3>3. \A p \in Procs : job'[p] = job[p] \/ job'[p].at # "stopped"
      BY <3>2
    <3> QED BY <1>2, <2>1, <3>3
  <2>3. CASE job' = job
    BY <1>2, <2>1, <2>3
  <2> QED BY <1>4, <2>2, <2>3
          DEF ClientNext, Timeout, Line, Exit, Dispose, DisposeTimeout, children
<1>5. CASE UNCHANGED vars
  BY <1>2, <1>5 DEF vars, children, handles
<1> QED BY <1>1, <1>3, <1>4, <1>5 DEF Next

LEMMA HandleAlways == Spec => []HandleInv
<1>1. Init => HandleInv
  BY BridgeConstants DEF Init, BridgeInit, HandleInv
<1> QED BY <1>1, HandleStep, SingleAlways, PTL DEF Spec

\* A bridge reaches a running box through a valid handle.
THEOREM HandlesSafe == Spec => []HandlesValid
<1>1. SingleInv /\ HandleInv => HandlesValid
  BY DEF HandleInv, HandlesValid
<1> QED BY <1>1, SingleAlways, HandleAlways, PTL

\* No box runs while a snapshot of it is taken or restored.
THEOREM SnapshotsSafe == Spec => []SnapshotQuiet
<1>1. HandleInv => SnapshotQuiet
  BY DEF HandleInv, SnapshotQuiet
<1> QED BY <1>1, HandleAlways, PTL

-----------------------------------------------------------------------------
(* Where a request is. *)

Where(s, X) == {i \in DOMAIN s : s[i] \in X}
Once(I)     == \E i \in I : I = {i}

(* The places of what is looked for, when a line is added or read. *)
LEMMA WhereAppend ==
  ASSUME NEW S, NEW s \in Seq(S), NEW x \in S, NEW X
  PROVE  /\ x \notin X => Where(Append(s, x), X) = Where(s, X)
         /\ x \in X /\ Where(s, X) = {} => Once(Where(Append(s, x), X))
<1>1. /\ DOMAIN s = 1 .. Len(s) /\ Len(s) \in Nat
      /\ DOMAIN Append(s, x) = 1 .. Len(s) + 1
      /\ \A i \in 1 .. Len(s) : Append(s, x)[i] = s[i]
      /\ Append(s, x)[Len(s) + 1] = x
  OBVIOUS
<1>2. ASSUME x \notin X PROVE Where(Append(s, x), X) = Where(s, X)
  BY <1>1, <1>2 DEF Where
<1>3. ASSUME x \in X, Where(s, X) = {} PROVE Once(Where(Append(s, x), X))
  <2>1. Where(Append(s, x), X) = {Len(s) + 1}
    BY <1>1, <1>3 DEF Where
  <2> QED BY <2>1 DEF Once
<1> QED BY <1>2, <1>3

LEMMA WhereConcat ==
  ASSUME NEW S, NEW s \in Seq(S), NEW t \in Seq(S), NEW X
  PROVE  /\ Where(t, X) = {} => Where(s \o t, X) = Where(s, X)
         /\ Where(s, X) = {} /\ Once(Where(t, X)) => Once(Where(s \o t, X))
<1>1. /\ DOMAIN s = 1 .. Len(s) /\ Len(s) \in Nat
      /\ DOMAIN t = 1 .. Len(t) /\ Len(t) \in Nat
      /\ DOMAIN (s \o t) = 1 .. Len(s) + Len(t)
      /\ \A i \in 1 .. Len(s) + Len(t) :
           (s \o t)[i] = IF i <= Len(s) THEN s[i] ELSE t[i - Len(s)]
  OBVIOUS
<1>2. \A i \in Where(s \o t, X) :
        i \in Where(s, X) \/ (i - Len(s) \in Where(t, X) /\ ~(i <= Len(s)))
  BY <1>1 DEF Where
<1>3. Where(s, X) \subseteq Where(s \o t, X)
  BY <1>1 DEF Where
<1>4. \A j \in Where(t, X) : j \in Nat \ {0} /\ j + Len(s) \in Where(s \o t, X)
  <2> TAKE j \in Where(t, X)
  <2>1. j \in 1 .. Len(t) /\ t[j] \in X
    BY <1>1 DEF Where
  <2>2. j + Len(s) \in 1 .. Len(s) + Len(t) /\ ~(j + Len(s) <= Len(s)) /\ (j + Len(s)) - Len(s) = j
    BY <1>1, <2>1
  <2>3. (s \o t)[j + Len(s)] = t[j]
    BY <1>1, <2>2
  <2> QED BY <1>1, <2>1, <2>2, <2>3 DEF Where
<1>5. ASSUME Where(t, X) = {} PROVE Where(s \o t, X) = Where(s, X)
  BY <1>2, <1>3, <1>5
<1>6. ASSUME Where(s, X) = {}, Once(Where(t, X)) PROVE Once(Where(s \o t, X))
  <2>1. PICK j \in Where(t, X) : Where(t, X) = {j}
    BY <1>6 DEF Once
  <2>2. \A i \in Where(s \o t, X) : i \in Nat
    BY <1>1 DEF Where
  <2>3. \A i \in Where(s \o t, X) : i - Len(s) = j
    BY <1>2, <1>6, <2>1
  <2>4. \A i \in Where(s \o t, X) : i = j + Len(s)
    BY <1>1, <1>4, <2>2, <2>3
  <2> QED BY <1>4, <2>4 DEF Once
<1> QED BY <1>5, <1>6

LEMMA WhereTail ==
  ASSUME NEW S, NEW s \in Seq(S), s # <<>>, NEW X
  PROVE  /\ Where(s, X) = {} => Head(s) \notin X /\ Where(Tail(s), X) = {}
         /\ Head(s) \notin X /\ Once(Where(s, X)) => Once(Where(Tail(s), X))
         /\ Head(s) \in X /\ Once(Where(s, X)) => Where(Tail(s), X) = {}
<1>1. /\ DOMAIN s = 1 .. Len(s) /\ Len(s) \in Nat \ {0} /\ Head(s) = s[1]
      /\ DOMAIN Tail(s) = 1 .. Len(s) - 1
      /\ \A i \in 1 .. Len(s) - 1 : Tail(s)[i] = s[i + 1]
  OBVIOUS
<1>2. \A i \in Where(Tail(s), X) : i \in Nat \ {0} /\ i + 1 \in Where(s, X)
  BY <1>1 DEF Where
<1>3. 1 \in Where(s, X) <=> Head(s) \in X
  BY <1>1 DEF Where
<1>4. \A i \in Where(s, X) : i \in Nat \ {0} /\ (i = 1 \/ i - 1 \in Where(Tail(s), X))
  <2> TAKE i \in Where(s, X)
  <2>1. i \in 1 .. Len(s) /\ s[i] \in X
    BY <1>1 DEF Where
  <2>2. CASE i # 1
    <3>1. i - 1 \in 1 .. Len(s) - 1 /\ (i - 1) + 1 = i
      BY <1>1, <2>1, <2>2
    <3> QED BY <1>1, <2>1, <3>1 DEF Where
  <2> QED BY <2>1, <2>2
<1>5. ASSUME Where(s, X) = {} PROVE Head(s) \notin X /\ Where(Tail(s), X) = {}
  BY <1>2, <1>3, <1>5
<1>6. ASSUME NEW k \in Where(s, X), Where(s, X) = {k}
      PROVE  /\ Head(s) \notin X => Once(Where(Tail(s), X))
             /\ Head(s) \in X => Where(Tail(s), X) = {}
  <2>1. \A i \in Where(Tail(s), X) : i + 1 = k
    BY <1>2, <1>6
  <2>2. CASE Head(s) \in X
    BY <1>2, <1>3, <1>6, <2>1, <2>2
  <2>3. CASE Head(s) \notin X
    <3>1. k - 1 \in Where(Tail(s), X) /\ k \in Nat
      BY <1>3, <1>4, <1>6, <2>3
    <3>2. \A i \in Where(Tail(s), X) : i = k - 1
      BY <1>2, <2>1, <3>1
    <3> QED BY <2>3, <3>1, <3>2 DEF Once
  <2> QED BY <2>2, <2>3
<1> QED BY <1>5, <1>6 DEF Once

CommandsOf(r) == {c \in Command : c.id = r}
AnswersTo(r)  == {[id |-> r]}
WorksOn(p, r) == job[p] \in Job /\ job[p].command.id = r

\* Process p has not heard of r.
Nowhere(p, r) ==
  /\ Where(stdin[p], CommandsOf(r)) = {}
  /\ Where(stdout[p], AnswersTo(r)) = {}
  /\ ~WorksOn(p, r)

\* It has one line of r to read, or one answer to it to be read, or works on it.
InOnePlace(p, r) ==
  \/ /\ Once(Where(stdin[p], CommandsOf(r)))
     /\ Where(stdout[p], AnswersTo(r)) = {}
     /\ ~WorksOn(p, r)
  \/ /\ Where(stdin[p], CommandsOf(r)) = {}
     /\ Once(Where(stdout[p], AnswersTo(r)))
     /\ ~WorksOn(p, r)
  \/ /\ Where(stdin[p], CommandsOf(r)) = {}
     /\ Where(stdout[p], AnswersTo(r)) = {}
     /\ WorksOn(p, r)

\* A request that was not written yet is nowhere; if it awaits the bridge that
\* the client has, it will be written once.
PlaceOf(r) ==
  /\ req[r].at \in {"none", "starting"} => \A p \in Procs : Nowhere(p, r)
  /\ req[r].at \in {"starting", "pending"} => child[req[r].of] # "none"
  /\ req[r].at = "starting" /\ req[r].of = bridge => Once(Where(starters, CommandsOf(r)))
  /\ req[r].at = "pending" /\ child[req[r].of] = "alive" => InOnePlace(req[r].of, r)

StartersInv ==
  /\ bridge # None => child[bridge] # "none"
  /\ \A i \in DOMAIN starters :
       bridge # None /\ req[starters[i].id] = [at |-> "starting", of |-> bridge]

PlaceInv == killed = {} => StartersInv /\ \A r \in Requests : PlaceOf(r)

(* What a request needs to stay accounted for: its pipes, its process and the
   list of those who await the bridge are left as they are, where they matter. *)
LEMMA PlaceKept ==
  ASSUME TypeOK, NEW r \in Requests, PlaceOf(r),
         req'[r] \in {req[r], Settled},
         \A p \in Procs : child'[p] = "none" => child[p] = "none",
         \A p \in Procs : child'[p] = "alive" => child[p] \in {"none", "alive"},
         \A p \in Procs : Nowhere(p, r) => Nowhere(p, r)',
         \A p \in Procs : child'[p] = "alive" /\ InOnePlace(p, r) => InOnePlace(p, r)',
         \/ bridge' = None
         \/ bridge' \in Procs /\ child[bridge'] = "none"
         \/ /\ bridge' = bridge
            /\ Once(Where(starters, CommandsOf(r))) => Once(Where(starters', CommandsOf(r)))
  PROVE  PlaceOf(r)'
<1>1. CASE req'[r] = Settled
  BY <1>1 DEF PlaceOf, Settled
<1>2. CASE req'[r] = req[r]
  <2>1. req[r] \in Wait
    BY DEF TypeOK, Wait
  <2>2. CASE req[r].at = "none" \/ req[r].at = "settled"
    BY <1>2, <2>2 DEF PlaceOf
  <2>3. CASE req[r].at \in {"starting", "pending"}
    <3>1. req[r].of \in Procs /\ req[r].of # None
      BY <2>1, <2>3, BridgeConstants DEF Wait, NotSent, Settled
    <3>2. child[req[r].of] # "none"
      BY <2>3 DEF PlaceOf
    <3> QED BY <1>2, <2>3, <3>1, <3>2 DEF PlaceOf
  <2> QED BY <2>1, <2>2, <2>3 DEF Wait, NotSent, Settled
<1> QED BY <1>1, <1>2

(* A process whose pipes and work do not change. *)
LEMMA PlacesStay ==
  ASSUME NEW p \in Procs, stdin'[p] = stdin[p], stdout'[p] = stdout[p], job'[p] = job[p], NEW r
  PROVE  (Nowhere(p, r) => Nowhere(p, r)') /\ (InOnePlace(p, r) => InOnePlace(p, r)')
BY DEF Nowhere, InOnePlace, WorksOn

(* A process that ends has nothing to read and works on nothing. *)
LEMMA PlacesGone ==
  ASSUME TypeOK, NEW p \in Procs, stdin'[p] = <<>>, job'[p] = None, NEW r,
         \/ stdout'[p] = stdout[p]
         \/ \E sdk \in BOOLEAN : stdout'[p] = Append(stdout[p], [ready |-> sdk])
  PROVE  Nowhere(p, r) => Nowhere(p, r)'
<1>1. Where(<<>>, CommandsOf(r)) = {} /\ ~(None \in Job)
  BY BridgeConstants DEF Where
<1>2. Where(stdout'[p], AnswersTo(r)) = Where(stdout[p], AnswersTo(r))
  <2>1. ASSUME NEW sdk \in BOOLEAN, stdout'[p] = Append(stdout[p], [ready |-> sdk])
        PROVE  Where(stdout'[p], AnswersTo(r)) = Where(stdout[p], AnswersTo(r))
    <3>1. [ready |-> sdk] \in Message /\ [ready |-> sdk] \notin AnswersTo(r)
      BY DEF Message, AnswersTo
    <3>2. stdout[p] \in Seq(Message)
      BY DEF TypeOK, BridgeTypeOK
    <3> QED BY <2>1, <3>1, <3>2, WhereAppend
  <2> QED BY <2>1
<1> QED BY <1>1, <1>2 DEF Nowhere, WorksOn

(* What a request does to the pipes: it is answered, or goes on. *)
LEMMA ServePipes ==
  ASSUME NEW p \in Procs, NEW ok \in BOOLEAN, Serve(p, ok)
  PROVE  /\ job[p] \in Job /\ UNCHANGED stdin
         /\ \/ /\ stdout' = [stdout EXCEPT ![p] = Append(@, [id |-> job[p].command.id])]
               /\ job' = [job EXCEPT ![p] = None]
            \/ /\ UNCHANGED stdout
               /\ \E at \in {"stopped", "snapped"} : job' = [job EXCEPT ![p].at = at]
<1>1. job[p] \in Job /\ UNCHANGED stdin
  BY DEF Serve, Create, Use, Start, Stop, SnapshotStop, SnapshotTake, SnapshotRestart,
         Clone, Destroy, Serving
<1>2. ASSUME NEW x, Reply(p, x)
      PROVE  /\ stdout' = [stdout EXCEPT ![p] = Append(@, [id |-> job[p].command.id])]
             /\ job' = [job EXCEPT ![p] = None]
  BY <1>2 DEF Reply, Put
<1>3. \/ \E x : Reply(p, x)
      \/ /\ UNCHANGED stdout
         /\ \E at \in {"stopped", "snapped"} : job' = [job EXCEPT ![p].at = at]
  BY DEF Serve, Create, Use, Start, Stop, SnapshotStop, SnapshotTake, SnapshotRestart,
         Clone, Destroy
<1> QED BY <1>1, <1>2, <1>3

LEMMA ServePlaces ==
  ASSUME TypeOK, NEW p \in Procs, NEW ok \in BOOLEAN, Serve(p, ok), NEW r \in Requests,
         NEW q \in Procs
  PROVE  (Nowhere(q, r) => Nowhere(q, r)') /\ (InOnePlace(q, r) => InOnePlace(q, r)')
<1>0. /\ stdout \in [Procs -> Seq(Message)]
      /\ job \in [Procs -> Job \cup {[at |-> "boot"], None}]
  BY DEF TypeOK, BridgeTypeOK
<1>1. CASE q # p
  BY <1>0, <1>1, ServePipes, PlacesStay
<1>2. CASE q = p
  <2> DEFINE answer == [id |-> job[p].command.id]
  <2>1. job[p] \in Job /\ job[p].command.id \in Requests /\ answer \in Message
    BY ServePipes DEF Job, Command, Message
  <2>2. answer \in AnswersTo(r) <=> WorksOn(p, r)
    BY <2>1 DEF AnswersTo, WorksOn
  <2>3. CASE /\ stdout' = [stdout EXCEPT ![p] = Append(@, answer)]
             /\ job' = [job EXCEPT ![p] = None]
    <3>1. ~WorksOn(p, r)'
      BY <1>0, <2>3, BridgeConstants DEF WorksOn
    <3>2. stdin'[p] = stdin[p] /\ stdout'[p] = Append(stdout[p], answer) /\ stdout[p] \in Seq(Message)
      BY <1>0, <2>3, ServePipes
    <3> HIDE DEF answer
    <3>3. /\ answer \notin AnswersTo(r) =>
               Where(stdout'[p], AnswersTo(r)) = Where(stdout[p], AnswersTo(r))
          /\ answer \in AnswersTo(r) /\ Where(stdout[p], AnswersTo(r)) = {} =>
               Once(Where(stdout'[p], AnswersTo(r)))
      BY <2>1, <3>2, WhereAppend
    <3> QED BY <1>2, <2>2, <3>1, <3>2, <3>3 DEF Nowhere, InOnePlace
  <2>4. CASE /\ UNCHANGED stdout
             /\ \E at \in {"stopped", "snapped"} : job' = [job EXCEPT ![p].at = at]
    <3>1. WorksOn(p, r)' <=> WorksOn(p, r)
      BY <1>0, <2>1, <2>4 DEF WorksOn, Job
    <3> QED BY <1>2, <2>4, <3>1, ServePipes DEF Nowhere, InOnePlace
  <2> QED BY <2>3, <2>4, ServePipes
<1> QED BY <1>1, <1>2

LEMMA TakePlaces ==
  ASSUME TypeOK, NEW p \in Procs, Take(p), NEW r \in Requests, NEW q \in Procs
  PROVE  (Nowhere(q, r) => Nowhere(q, r)') /\ (InOnePlace(q, r) => InOnePlace(q, r)')
<1>0. /\ stdin \in [Procs -> Seq(Command)]
      /\ job \in [Procs -> Job \cup {[at |-> "boot"], None}]
  BY DEF TypeOK, BridgeTypeOK
<1>1. CASE q # p
  BY <1>0, <1>1, PlacesStay DEF Take
<1>2. CASE q = p
  <2> DEFINE c == Head(stdin[p])
  <2>1. stdin[p] \in Seq(Command) /\ stdin[p] # <<>> /\ c \in Command
    BY <1>0, Pipes DEF Take
  <2>2. stdin'[p] = Tail(stdin[p]) /\ stdout' = stdout /\ job'[p] = [command |-> c, at |-> "begin"]
    BY <1>0 DEF Take
  <2> HIDE DEF c
  <2>3. [command |-> c, at |-> "begin"] \in Job
    BY <2>1 DEF Job
  <2>4. ~WorksOn(p, r) /\ (WorksOn(p, r)' <=> c \in CommandsOf(r))
    BY <2>1, <2>2, <2>3, BridgeConstants DEF Take, WorksOn, CommandsOf
  <2>5. /\ Where(stdin[p], CommandsOf(r)) = {} =>
             c \notin CommandsOf(r) /\ Where(stdin'[p], CommandsOf(r)) = {}
        /\ c \notin CommandsOf(r) /\ Once(Where(stdin[p], CommandsOf(r))) =>
             Once(Where(stdin'[p], CommandsOf(r)))
        /\ c \in CommandsOf(r) /\ Once(Where(stdin[p], CommandsOf(r))) =>
             Where(stdin'[p], CommandsOf(r)) = {}
    BY <2>1, <2>2, WhereTail DEF c
  <2> QED BY <1>2, <2>2, <2>4, <2>5 DEF Nowhere, InOnePlace
<1> QED BY <1>1, <1>2

(* The bridge writes, reads, or ends. *)
LEMMA BridgePlaces ==
  ASSUME TypeOK, Single, StartersInv, \A r \in Requests : PlaceOf(r), BridgeNext, UNCHANGED client
  PROVE  StartersInv' /\ \A r \in Requests : PlaceOf(r)'
<1>0. /\ child \in [Procs -> {"none", "alive", "exit", "exit error", "reaped", "reaped error"}]
      /\ job \in [Procs -> Job \cup {[at |-> "boot"], None}]
      /\ stdin \in [Procs -> Seq(Command)]
      /\ stdout \in [Procs -> Seq(Message)]
      /\ bridge \in Procs \cup {None}
  BY DEF TypeOK, BridgeTypeOK
<1>1. UNCHANGED <<bridge, starters, req>>
  BY DEF client
<1>2. ASSUME UNCHANGED child, NEW r \in Requests,
             \A q \in Procs : /\ Nowhere(q, r) => Nowhere(q, r)'
                              /\ InOnePlace(q, r) => InOnePlace(q, r)'
      PROVE  PlaceOf(r)'
  BY <1>0, <1>1, <1>2, PlaceKept
<1>3. ASSUME NEW p \in Procs, Take(p) PROVE \A r \in Requests : PlaceOf(r)'
  BY <1>2, <1>3, TakePlaces DEF Take
<1>4. ASSUME NEW p \in Procs, NEW ok \in BOOLEAN, Serve(p, ok)
      PROVE  \A r \in Requests : PlaceOf(r)'
  BY <1>2, <1>4, ServePlaces, OwnBusiness
<1>5. ASSUME NEW p \in Procs, NEW code \in {"exit", "exit error"}, Gone(p, code),
             child[p] = "alive", NEW r \in Requests,
             \/ UNCHANGED stdout
             \/ \E sdk \in BOOLEAN : stdout' = [stdout EXCEPT ![p] = Append(@, [ready |-> sdk])]
      PROVE  PlaceOf(r)'
  <2>1. /\ stdin'[p] = <<>> /\ job'[p] = None /\ child'[p] = code
        /\ \A q \in Procs \ {p} : stdin'[q] = stdin[q] /\ job'[q] = job[q] /\ child'[q] = child[q]
    BY <1>0, <1>5 DEF Gone
  <2>2. /\ stdout'[p] = stdout[p] \/ \E sdk \in BOOLEAN : stdout'[p] = Append(stdout[p], [ready |-> sdk])
        /\ \A q \in Procs \ {p} : stdout'[q] = stdout[q]
    BY <1>0, <1>5
  <2>3. Nowhere(p, r) => Nowhere(p, r)'
    BY <2>1, <2>2, PlacesGone
  <2>4. \A q \in Procs \ {p} : /\ Nowhere(q, r) => Nowhere(q, r)'
                               /\ InOnePlace(q, r) => InOnePlace(q, r)'
    BY <2>1, <2>2, PlacesStay
  <2>5. child'[p] # "alive" /\ child'[p] # "none"
    BY <2>1
  <2>6. \A q \in Procs : /\ child'[q] = "none" => child[q] = "none"
                         /\ child'[q] = "alive" => child[q] \in {"none", "alive"}
                         /\ Nowhere(q, r) => Nowhere(q, r)'
                         /\ child'[q] = "alive" /\ InOnePlace(q, r) => InOnePlace(q, r)'
    BY <2>1, <2>3, <2>4, <2>5
  <2> QED BY <1>1, <2>6, PlaceKept
<1>6. ASSUME NEW p \in Procs, NEW sdk \in BOOLEAN, Boot(p, sdk)
      PROVE  \A r \in Requests : PlaceOf(r)'
  <2>0. stdout' = [stdout EXCEPT ![p] = Append(@, [ready |-> sdk])]
    BY <1>6 DEF Boot, Put
  <2>1. CASE ~sdk
    BY <1>5, <1>6, <2>0, <2>1 DEF Boot
  <2>2. CASE sdk
    <3> SUFFICES ASSUME NEW r \in Requests PROVE PlaceOf(r)'
      OBVIOUS
    <3>1. UNCHANGED <<stdin, child>> /\ job[p] = [at |-> "boot"] /\ job' = [job EXCEPT ![p] = None]
      BY <1>6, <2>2 DEF Boot
    <3>2. \A q \in Procs \ {p} : stdout'[q] = stdout[q] /\ job'[q] = job[q]
      BY <1>0, <2>0, <3>1
    <3>3. /\ [ready |-> sdk] \in Message /\ [ready |-> sdk] \notin AnswersTo(r)
          /\ stdout[p] \in Seq(Message) /\ stdout'[p] = Append(stdout[p], [ready |-> sdk])
      BY <1>0, <2>0 DEF Message, AnswersTo
    <3>4. Where(stdout'[p], AnswersTo(r)) = Where(stdout[p], AnswersTo(r))
      BY <3>3, WhereAppend
    <3>5. ~WorksOn(p, r) /\ ~WorksOn(p, r)'
      <4>1. job[p].at = "boot" /\ job'[p] = None
        <5>1. job'[p] = None
          BY <1>0, <3>1
        <5> QED BY <3>1, <5>1
      <4>2. job[p] \notin Job
        BY <4>1 DEF Job
      <4> QED BY <4>1, <4>2, BridgeConstants DEF WorksOn
    <3>6. (Nowhere(p, r) => Nowhere(p, r)') /\ (InOnePlace(p, r) => InOnePlace(p, r)')
      BY <3>1, <3>4, <3>5 DEF Nowhere, InOnePlace
    <3>7. \A q \in Procs \ {p} : /\ Nowhere(q, r) => Nowhere(q, r)'
                                 /\ InOnePlace(q, r) => InOnePlace(q, r)'
      BY <3>1, <3>2, PlacesStay
    <3> QED BY <1>2, <3>1, <3>6, <3>7
  <2> QED BY <2>1, <2>2
<1>7. \A r \in Requests : PlaceOf(r)'
  BY <1>3, <1>4, <1>5, <1>6 DEF BridgeNext, Eof, Die
<1>8. \A p \in Procs : child'[p] = "none" => child[p] = "none"
  BY <1>0, OwnBusiness DEF BridgeNext, Take, Eof, Boot, Die, Gone
<1>9. StartersInv'
  BY <1>0, <1>1, <1>8, BridgeConstants DEF StartersInv
<1> QED BY <1>7, <1>9

(* The client writes, reads, gives up on a request or on the bridge. *)
LEMMA ClientPlaces ==
  ASSUME TypeOK, Single, killed = {}, killed' = {}, StartersInv,
         \A r \in Requests : PlaceOf(r), ClientNext
  PROVE  StartersInv' /\ \A r \in Requests : PlaceOf(r)'
<1>0. /\ child \in [Procs -> {"none", "alive", "exit", "exit error", "reaped", "reaped error"}]
      /\ job \in [Procs -> Job \cup {[at |-> "boot"], None}]
      /\ stdin \in [Procs -> Seq(Command)]
      /\ stdout \in [Procs -> Seq(Message)]
      /\ bridge \in Procs \cup {None}
      /\ starters \in Seq(Command)
      /\ req \in [Requests -> Wait]
  BY DEF TypeOK, BridgeTypeOK, Wait
<1>1. \A i \in DOMAIN starters : starters[i] \in Command /\ starters[i].id \in Requests
  <2> TAKE i \in DOMAIN starters
  <2>1. starters \in Seq(Command)
    BY <1>0
  <2>2. starters[i] \in Command
    BY <2>1
  <2> QED BY <2>2 DEF Command
<1>2. \A r \in Requests : (bridge = None \/ req[r] # [at |-> "starting", of |-> bridge]) =>
         Where(starters, CommandsOf(r)) = {}
  BY DEF StartersInv, Where, CommandsOf
<1>3. ASSUME NEW r \in Requests, req'[r] = Settled PROVE PlaceOf(r)'
  BY <1>3 DEF PlaceOf, Settled
<1>4. ASSUME UNCHANGED <<child, job, stdin, stdout, bridge, starters>>,
             \A r \in Requests : req'[r] = req[r] \/ (req'[r] = Settled /\ req[r].at # "starting")
      PROVE  StartersInv' /\ \A r \in Requests : PlaceOf(r)'
  <2>1. StartersInv'
    BY <1>1, <1>4 DEF StartersInv
  <2>2. ASSUME NEW r \in Requests PROVE PlaceOf(r)'
    <3>1. \A p \in Procs : (Nowhere(p, r) => Nowhere(p, r)') /\ (InOnePlace(p, r) => InOnePlace(p, r)')
      BY <1>4, PlacesStay
    <3> QED BY <1>0, <1>4, <3>1, PlaceKept
  <2> QED BY <2>1, <2>2
<1>5. ASSUME NEW c \in Command, Send(c)
      PROVE  StartersInv' /\ \A r \in Requests : PlaceOf(r)'
  <2>0. c.id \in Requests /\ req[c.id] = NotSent /\ UNCHANGED stdout
    BY <1>5 DEF Command, Send
  <2>1. /\ c \in CommandsOf(c.id) /\ \A r \in Requests \ {c.id} : c \notin CommandsOf(r)
        /\ Where(starters, CommandsOf(c.id)) = {}
        /\ \A p \in Procs : Nowhere(p, c.id)
        /\ req[c.id].at = "none"
    <3>1. req[c.id].at = "none" /\ \A p : req[c.id] # [at |-> "starting", of |-> p]
      BY <2>0 DEF NotSent
    <3>2. c \in CommandsOf(c.id) /\ \A r \in Requests \ {c.id} : c \notin CommandsOf(r)
      BY DEF CommandsOf
    <3>3. \A p \in Procs : Nowhere(p, c.id)
      BY <2>0, <3>1 DEF PlaceOf
    <3> QED BY <1>2, <2>0, <3>1, <3>2, <3>3
  <2>2. /\ <<c>> \in Seq(Command) /\ Once(Where(<<c>>, CommandsOf(c.id)))
        /\ \A r \in Requests \ {c.id} : Where(<<c>>, CommandsOf(r)) = {}
    <3>1. <<c>> \in Seq(Command) /\ DOMAIN <<c>> = {1} /\ <<c>>[1] = c
      OBVIOUS
    <3>2. Where(<<c>>, CommandsOf(c.id)) = {1}
      BY <2>1, <3>1 DEF Where
    <3>3. \A r \in Requests \ {c.id} : Where(<<c>>, CommandsOf(r)) = {}
      BY <2>1, <3>1 DEF Where
    <3> QED BY <3>1, <3>2, <3>3 DEF Once
  <2>3. ASSUME NEW where, Become({c.id}, where)
        PROVE  req'[c.id] = where /\ \A r \in Requests \ {c.id} : req'[r] = req[r]
    BY <2>0, <2>3 DEF Become
  <2>4. CASE Become({c.id}, Settled) /\ UNCHANGED <<bridge, starters, child, job, stdin>>
    BY <1>4, <2>0, <2>1, <2>3, <2>4
  <2>5. ASSUME NEW p \in Procs, child[p] = "none", child' = [child EXCEPT ![p] = "alive"],
               job' = [job EXCEPT ![p] = [at |-> "boot"]], bridge' = p, starters' = <<c>>,
               Become({c.id}, [at |-> "starting", of |-> p]), UNCHANGED stdin
        PROVE  StartersInv' /\ \A r \in Requests : PlaceOf(r)'
    <3>1. /\ job[p] = None /\ job'[p] = [at |-> "boot"] /\ child'[p] = "alive"
          /\ \A q \in Procs \ {p} : job'[q] = job[q] /\ child'[q] = child[q]
      BY <1>0, <2>5 DEF Single
    <3>2. None \notin Job /\ [at |-> "boot"] \notin Job
      <4>1. \A x \in Job : x.at # "boot"
        BY DEF Job
      <4> QED BY <4>1, BridgeConstants
    <3>3. ASSUME NEW r, NEW q \in Procs
          PROVE  (Nowhere(q, r) => Nowhere(q, r)') /\ (InOnePlace(q, r) => InOnePlace(q, r)')
      <4>1. CASE q = p
        <5>1. ~WorksOn(p, r) /\ ~WorksOn(p, r)'
          BY <3>1, <3>2 DEF WorksOn
        <5> QED BY <2>0, <2>5, <4>1, <5>1 DEF Nowhere, InOnePlace
      <4>2. CASE q # p
        BY <2>0, <2>5, <3>1, <4>2, PlacesStay
      <4> QED BY <4>1, <4>2
    <3>4. ASSUME NEW r \in Requests \ {c.id} PROVE PlaceOf(r)'
      BY <2>3, <2>5, <3>1, <3>3, PlaceKept
    <3>5. PlaceOf(c.id)'
      <4>1. req'[c.id] = [at |-> "starting", of |-> p]
        BY <2>3, <2>5
      <4> QED BY <2>1, <2>2, <2>5, <3>1, <3>3, <4>1 DEF PlaceOf
    <3>6. StartersInv'
      <4>1. DOMAIN starters' = {1} /\ starters'[1] = c /\ bridge' # None
        BY <2>5, BridgeConstants
      <4> QED BY <2>3, <2>5, <3>1, <4>1 DEF StartersInv
    <3> QED BY <3>4, <3>5, <3>6
  <2>6. CASE AwaitBridge(c)
    <3>1. /\ bridge \in Procs /\ UNCHANGED <<bridge, child, job, stdin>>
          /\ starters' = Append(starters, c)
          /\ req'[c.id] = [at |-> "starting", of |-> bridge]
          /\ \A r \in Requests \ {c.id} : req'[r] = req[r]
      BY <1>0, <2>3, <2>6 DEF AwaitBridge
    <3>2. ASSUME NEW r, NEW q \in Procs
          PROVE  (Nowhere(q, r) => Nowhere(q, r)') /\ (InOnePlace(q, r) => InOnePlace(q, r)')
      BY <2>0, <3>1, PlacesStay
    <3>3. /\ Once(Where(starters', CommandsOf(c.id)))
          /\ \A r \in Requests \ {c.id} : Where(starters', CommandsOf(r)) = Where(starters, CommandsOf(r))
      <4>1. \A X : /\ c \notin X => Where(starters', X) = Where(starters, X)
                   /\ c \in X /\ Where(starters, X) = {} => Once(Where(starters', X))
        <5>1. starters \in Seq(Command)
          BY <1>0
        <5> QED BY <3>1, <5>1, WhereAppend
      <4> QED BY <2>1, <4>1
    <3>4. ASSUME NEW r \in Requests \ {c.id} PROVE PlaceOf(r)'
      BY <3>1, <3>2, <3>3, PlaceKept
    <3>5. PlaceOf(c.id)'
      <4>1. child'[bridge] # "none"
        BY <3>1, BridgeConstants DEF StartersInv
      <4>2. \A q \in Procs : Nowhere(q, c.id)'
        BY <2>1, <3>2
      <4> QED BY <3>1, <3>3, <4>1, <4>2 DEF PlaceOf
    <3>6. StartersInv'
      <4>1. /\ DOMAIN starters' = DOMAIN starters \cup {Len(starters) + 1}
            /\ \A i \in DOMAIN starters : starters'[i] = starters[i]
            /\ starters'[Len(starters) + 1] = c
        <5>1. starters \in Seq(Command)
          BY <1>0
        <5>2. /\ DOMAIN starters = 1 .. Len(starters) /\ Len(starters) \in Nat
              /\ DOMAIN starters' = 1 .. Len(starters) + 1
              /\ \A i \in 1 .. Len(starters) : starters'[i] = starters[i]
              /\ starters'[Len(starters) + 1] = c
          BY <3>1, <5>1
        <5> QED BY <5>2
      <4>2. \A i \in DOMAIN starters : starters[i].id # c.id
        BY <2>1 DEF StartersInv
      <4>3. \A i \in DOMAIN starters' : req'[starters'[i].id] = [at |-> "starting", of |-> bridge]
        BY <1>1, <3>1, <4>1, <4>2 DEF StartersInv
      <4> QED BY <3>1, <4>3, BridgeConstants DEF StartersInv
    <3> QED BY <3>4, <3>5, <3>6
  <2>7. CASE /\ bridge # None /\ UNCHANGED <<bridge, starters, child, job>>
             /\ Become({c.id}, [at |-> "pending", of |-> bridge]) /\ ToStdin(bridge, <<c>>)
    <3>1. /\ bridge \in Procs /\ child[bridge] # "none"
          /\ req'[c.id] = [at |-> "pending", of |-> bridge]
          /\ \A r \in Requests \ {c.id} : req'[r] = req[r]
      BY <1>0, <2>3, <2>7 DEF StartersInv
    <3>2. /\ child[bridge] = "alive" => stdin'[bridge] = stdin[bridge] \o <<c>>
          /\ child[bridge] # "alive" => stdin'[bridge] = stdin[bridge]
          /\ \A q \in Procs \ {bridge} : stdin'[q] = stdin[q]
      BY <1>0, <2>7, <3>1 DEF ToStdin
    <3>3. ASSUME NEW r \in Requests \ {c.id}, NEW q \in Procs
          PROVE  (Nowhere(q, r) => Nowhere(q, r)') /\ (InOnePlace(q, r) => InOnePlace(q, r)')
      <4>1. Where(stdin'[q], CommandsOf(r)) = Where(stdin[q], CommandsOf(r))
        <5>1. stdin[q] \in Seq(Command) /\ stdin'[q] \in {stdin[q], stdin[q] \o <<c>>}
          BY <1>0, <3>2
        <5>2. Where(stdin[q] \o <<c>>, CommandsOf(r)) = Where(stdin[q], CommandsOf(r))
          BY <2>2, <5>1, WhereConcat
        <5> QED BY <5>1, <5>2
      <4> QED BY <2>0, <2>7, <4>1 DEF Nowhere, InOnePlace, WorksOn
    <3>4. ASSUME NEW r \in Requests \ {c.id} PROVE PlaceOf(r)'
      BY <1>0, <2>7, <3>1, <3>3, PlaceKept
    <3>5. child[bridge] = "alive" => InOnePlace(bridge, c.id)'
      <4> SUFFICES ASSUME child[bridge] = "alive" PROVE InOnePlace(bridge, c.id)'
        OBVIOUS
      <4>1. Nowhere(bridge, c.id) /\ stdin[bridge] \in Seq(Command)
        BY <1>0, <2>1, <3>1
      <4>2. Once(Where(stdin'[bridge], CommandsOf(c.id)))
        <5>1. Where(stdin[bridge], CommandsOf(c.id)) = {}
          BY <4>1 DEF Nowhere
        <5>2. Once(Where(stdin[bridge] \o <<c>>, CommandsOf(c.id)))
          BY <2>2, <4>1, <5>1, WhereConcat
        <5> QED BY <3>2, <5>2
      <4> QED BY <2>0, <2>7, <4>1, <4>2 DEF Nowhere, InOnePlace, WorksOn
    <3>6. PlaceOf(c.id)'
      BY <2>7, <3>1, <3>5 DEF PlaceOf
    <3>7. StartersInv'
      <4>1. \A i \in DOMAIN starters : starters[i].id # c.id
        BY <2>1 DEF StartersInv
      <4> QED BY <1>1, <2>7, <3>1, <4>1 DEF StartersInv
    <3> QED BY <3>4, <3>6, <3>7
  <2> QED BY <1>5, <2>4, <2>5, <2>6, <2>7 DEF Send, StartBridge, Write
<1>6. ASSUME NEW r \in Requests, Timeout(r)
      PROVE  StartersInv' /\ \A s \in Requests : PlaceOf(s)'
  <2>1. \A s \in Requests : req'[s] = req[s] \/ (req'[s] = Settled /\ req[s].at # "starting")
    BY <1>6 DEF Timeout, Become, Pending
  <2> QED BY <1>4, <1>6, <2>1 DEF Timeout, children, pipes
<1>7. ASSUME Line PROVE StartersInv' /\ \A r \in Requests : PlaceOf(r)'
  <2> DEFINE message == Head(stdout[bridge])
  <2>1. /\ bridge \in Procs /\ child[bridge] # "none" /\ bridge # None
        /\ stdout[bridge] \in Seq(Message) /\ stdout[bridge] # <<>> /\ message \in Message
        /\ stdout'[bridge] = Tail(stdout[bridge])
        /\ \A q \in Procs \ {bridge} : stdout'[q] = stdout[q]
        /\ UNCHANGED <<child, job, bridge>>
    BY <1>0, <1>7, Pipes DEF Line, children, StartersInv
  <2>2. \/ message = [ready |-> TRUE] /\ BecomesReady
        \/ message = [ready |-> FALSE] /\ BecomesRejected
        \/ \E r \in Requests : message = [id |-> r] /\ Answered(r)
    <3>1. message \in [ready : BOOLEAN] \/ message \in [id : Requests]
      BY <2>1 DEF Message
    <3>2. CASE message \in [ready : BOOLEAN]
      <4>1. message = [ready |-> TRUE] \/ message = [ready |-> FALSE]
        BY <3>2
      <4>2. [ready |-> TRUE] # [ready |-> FALSE]
        <5>1. [ready |-> TRUE].ready # [ready |-> FALSE].ready
          OBVIOUS
        <5> QED BY <5>1
      <4> QED BY <1>7, <4>1, <4>2 DEF Line
    <3>3. CASE message \in [id : Requests]
      <4>1. PICK r \in Requests : message = [id |-> r]
        BY <3>3
      <4>2. message # [ready |-> TRUE] /\ message # [ready |-> FALSE]
        BY <4>1
      <4> QED BY <1>7, <4>1, <4>2 DEF Line
    <3> QED BY <3>1, <3>2, <3>3
  <2> HIDE DEF message
  <2>3. ASSUME NEW r
        PROVE  /\ Where(stdout[bridge], AnswersTo(r)) = {} =>
                    message \notin AnswersTo(r) /\ Where(stdout'[bridge], AnswersTo(r)) = {}
               /\ message \notin AnswersTo(r) /\ Once(Where(stdout[bridge], AnswersTo(r))) =>
                    Once(Where(stdout'[bridge], AnswersTo(r)))
    BY <2>1, WhereTail DEF message
  <2>4. ASSUME NEW r, NEW q \in Procs, message \notin AnswersTo(r),
               Where(stdin'[q], CommandsOf(r)) = Where(stdin[q], CommandsOf(r))
        PROVE  (Nowhere(q, r) => Nowhere(q, r)') /\ (InOnePlace(q, r) => InOnePlace(q, r)')
    BY <2>1, <2>3, <2>4 DEF Nowhere, InOnePlace, WorksOn
  <2>5. ASSUME message \in [ready : BOOLEAN], starters' = <<>>,
               \A r \in Requests : r \notin Starting(bridge) => req'[r] = req[r],
               UNCHANGED stdin \/ ToStdin(bridge, starters),
               \A r \in Starting(bridge) :
                 \/ req'[r] = Settled
                 \/ req'[r] = [at |-> "pending", of |-> bridge] /\ ToStdin(bridge, starters)
        PROVE  StartersInv' /\ \A r \in Requests : PlaceOf(r)'
    <3>1. \A r : message \notin AnswersTo(r)
      BY <2>5 DEF AnswersTo
    <3>2. ASSUME NEW r \in Requests, r \notin Starting(bridge) PROVE PlaceOf(r)'
      <4>1. Where(starters, CommandsOf(r)) = {}
        BY <1>2, <3>2 DEF Starting
      <4>2. \A q \in Procs : Where(stdin'[q], CommandsOf(r)) = Where(stdin[q], CommandsOf(r))
        <5> TAKE q \in Procs
        <5>1. stdin'[q] \in {stdin[q], stdin[q] \o starters}
          <6>1. CASE UNCHANGED stdin
            BY <6>1
          <6>2. CASE ToStdin(bridge, starters)
            BY <1>0, <2>1, <6>2 DEF ToStdin
          <6> QED BY <2>5, <6>1, <6>2
        <5>2. stdin[q] \in Seq(Command) /\ starters \in Seq(Command)
          BY <1>0
        <5>3. Where(stdin[q] \o starters, CommandsOf(r)) = Where(stdin[q], CommandsOf(r))
          BY <4>1, <5>2, WhereConcat
        <5> QED BY <5>1, <5>3
      <4>3. \A q \in Procs : (Nowhere(q, r) => Nowhere(q, r)') /\ (InOnePlace(q, r) => InOnePlace(q, r)')
        BY <2>4, <3>1, <4>2
      <4>4. ~Once(Where(starters, CommandsOf(r)))
        BY <4>1 DEF Once
      <4> QED BY <2>1, <2>5, <3>2, <4>3, <4>4, PlaceKept
    <3>3. ASSUME NEW r \in Starting(bridge), req'[r] = [at |-> "pending", of |-> bridge],
                 ToStdin(bridge, starters)
          PROVE  PlaceOf(r)'
      <4>1. /\ r \in Requests /\ req[r].at = "starting" /\ req[r].of = bridge
        BY <3>3 DEF Starting
      <4>2. Nowhere(bridge, r) /\ Once(Where(starters, CommandsOf(r)))
        BY <2>1, <4>1 DEF PlaceOf
      <4>3. child[bridge] = "alive" => stdin'[bridge] = stdin[bridge] \o starters
        BY <1>0, <2>1, <3>3 DEF ToStdin
      <4>4. child[bridge] = "alive" => Once(Where(stdin'[bridge], CommandsOf(r)))
        <5>1. stdin[bridge] \in Seq(Command) /\ starters \in Seq(Command)
          BY <1>0, <2>1
        <5>2. Where(stdin[bridge], CommandsOf(r)) = {}
          BY <4>2 DEF Nowhere
        <5>3. Once(Where(stdin[bridge] \o starters, CommandsOf(r)))
          BY <4>2, <5>1, <5>2, WhereConcat
        <5> QED BY <4>3, <5>3
      <4>5. child[bridge] = "alive" => InOnePlace(bridge, r)'
        BY <2>1, <2>3, <4>2, <4>4 DEF Nowhere, InOnePlace, WorksOn
      <4> QED BY <2>1, <3>3, <4>5 DEF PlaceOf
    <3>4. StartersInv'
      BY <2>1, <2>5 DEF StartersInv
    <3>5. Starting(bridge) \subseteq Requests
      BY DEF Starting
    <3>6. ASSUME NEW r \in Starting(bridge) PROVE PlaceOf(r)'
      <4>1. CASE req'[r] = Settled
        BY <1>3, <3>5, <4>1
      <4>2. CASE req'[r] = [at |-> "pending", of |-> bridge] /\ ToStdin(bridge, starters)
        BY <3>3, <4>2
      <4> QED BY <2>5, <4>1, <4>2
    <3> QED BY <3>2, <3>4, <3>6
  <2>6. ASSUME NEW a \in Requests, message = [id |-> a], Answered(a)
        PROVE  StartersInv' /\ \A r \in Requests : PlaceOf(r)'
    <3>1. /\ UNCHANGED <<starters, stdin>>
          /\ a \in Pending => req'[a] = Settled
          /\ a \notin Pending => req'[a] = req[a]
          /\ \A r \in Requests : r # a \/ r \notin Pending => req'[r] = req[r]
      BY <2>6 DEF Answered, Become
    <3>2. message \in AnswersTo(a) /\ \A r : r # a => message \notin AnswersTo(r)
      BY <2>6 DEF AnswersTo
    <3>3. ASSUME NEW r \in Requests, r # a PROVE PlaceOf(r)'
      <4>1. \A q \in Procs : (Nowhere(q, r) => Nowhere(q, r)') /\ (InOnePlace(q, r) => InOnePlace(q, r)')
        BY <2>4, <3>1, <3>2, <3>3
      <4> QED BY <2>1, <3>1, <3>3, <4>1, PlaceKept
    <3>4. ~Nowhere(bridge, a)
      BY <2>3, <3>2 DEF Nowhere
    <3>5. req[a].at \in {"pending", "settled"}
      <4>1. req[a] \in Wait /\ req[a].at \notin {"none", "starting"}
        BY <1>0, <2>1, <3>4 DEF PlaceOf
      <4> QED BY <4>1 DEF Wait, NotSent, Settled
    <3>6. PlaceOf(a)'
      <4>1. req'[a].at = "settled"
        BY <3>1, <3>5 DEF Pending, Settled
      <4> QED BY <4>1 DEF PlaceOf
    <3>7. StartersInv'
      <4>1. \A i \in DOMAIN starters : req'[starters[i].id] = req[starters[i].id]
        <5>1. \A i \in DOMAIN starters : starters[i].id \notin Pending
          BY DEF StartersInv, Pending
        <5> QED BY <1>1, <3>1, <5>1
      <4> QED BY <2>1, <3>1, <4>1 DEF StartersInv
    <3> QED BY <3>3, <3>6, <3>7
  <2>7. CASE message = [ready |-> TRUE] /\ BecomesReady
    BY <2>5, <2>7 DEF BecomesReady, Become, Starting
  <2>8. CASE message = [ready |-> FALSE] /\ BecomesRejected
    BY <2>5, <2>8 DEF BecomesRejected, Become, Starting
  <2> QED BY <2>2, <2>6, <2>7, <2>8
<1>8. ASSUME bridge' = None, starters' = <<>>, UNCHANGED <<stdin, job>>,
             \A r \in Requests : req'[r] \in {req[r], Settled},
             \A q \in Procs : \/ child'[q] = child[q] /\ stdout'[q] = stdout[q]
                              \/ child'[q] \in {"reaped", "reaped error"} /\ stdout'[q] = <<>>
      PROVE  StartersInv' /\ \A r \in Requests : PlaceOf(r)'
  <2>1. StartersInv'
    <3>1. DOMAIN <<>> = {}
      OBVIOUS
    <3>2. DOMAIN starters' = {} /\ bridge' = None
      BY <1>8, <3>1
    <3> QED BY <3>2 DEF StartersInv
  <2>2. ASSUME NEW r \in Requests PROVE PlaceOf(r)'
    <3>1. Where(<<>>, AnswersTo(r)) = {}
      BY DEF Where
    <3>2. \A q \in Procs : Nowhere(q, r) => Nowhere(q, r)'
      BY <1>8, <3>1 DEF Nowhere, WorksOn
    <3>3. \A q \in Procs : child'[q] = "alive" /\ InOnePlace(q, r) => InOnePlace(q, r)'
      BY <1>8 DEF InOnePlace, WorksOn
    <3> QED BY <1>0, <1>8, <3>2, <3>3, PlaceKept
  <2> QED BY <2>1, <2>2
<1>9. ASSUME NEW p \in Procs, Exit(p) PROVE StartersInv' /\ \A r \in Requests : PlaceOf(r)'
  BY <1>0, <1>8, <1>9 DEF Exit, Forget, Become
<1>10. CASE Dispose
  BY <1>4, <1>10 DEF Dispose, children
<1>11. CASE DisposeTimeout
  BY <1>8, <1>11 DEF DisposeTimeout, Forget, pipes
<1> QED BY <1>5, <1>6, <1>7, <1>9, <1>10, <1>11 DEF ClientNext

LEMMA PlaceInit == Init => PlaceInv
<1> SUFFICES ASSUME Init PROVE StartersInv /\ \A r \in Requests : PlaceOf(r)
  BY DEF PlaceInv
<1>1. \A X : Where(<<>>, X) = {}
  BY DEF Where
<1>2. \A p \in Procs, r \in Requests : Nowhere(p, r)
  BY <1>1, BridgeConstants DEF Init, BridgeInit, Nowhere, WorksOn
<1> QED BY <1>2 DEF Init, StartersInv, PlaceOf, NotSent

LEMMA PlaceStep == SingleInv /\ PlaceInv /\ [Next]_vars => PlaceInv'
<1> SUFFICES ASSUME TypeOK, Single, PlaceInv, [Next]_vars, killed' = {}
             PROVE  StartersInv' /\ \A r \in Requests : PlaceOf(r)'
  BY DEF SingleInv, PlaceInv
<1>1. killed \subseteq killed'
  <2>1. BridgeNext => UNCHANGED killed
    BY OwnBusiness DEF BridgeNext, Take, Eof, Boot, Die
  <2>2. ClientNext => killed \subseteq killed'
    BY DEF ClientNext, Send, Timeout, Line, Exit, Dispose, DisposeTimeout, children
  <2> QED BY <2>1, <2>2 DEF Next, vars, children
<1>2. killed = {} /\ StartersInv /\ \A r \in Requests : PlaceOf(r)
  BY <1>1 DEF PlaceInv
<1>3. CASE ClientNext
  BY <1>2, <1>3, ClientPlaces
<1>4. CASE BridgeNext /\ UNCHANGED client
  BY <1>2, <1>4, BridgePlaces
<1>5. CASE UNCHANGED vars
  BY <1>2, <1>5 DEF vars, client, children, pipes, StartersInv, PlaceOf, Nowhere, InOnePlace,
                    WorksOn
<1> QED BY <1>3, <1>4, <1>5 DEF Next

LEMMA PlaceAlways == Spec => []PlaceInv
BY PlaceInit, PlaceStep, SingleAlways, PTL DEF Spec

\* A request that a caller waits for is with the one bridge that is alive, as a
\* line it has not read, as its work, or as an answer nobody has read, never
\* twice: no call of send hangs because its request was dropped on the way.
THEOREM RequestsSafe == Spec => []NothingLost
<1>1. TypeOK /\ Single /\ PlaceInv => NothingLost
  <2> SUFFICES ASSUME TypeOK, Single, PlaceInv, killed = {}, NEW r \in Pending,
                      child[req[r].of] = "alive"
               PROVE  LET p       == req[r].of
                          unread  == {i \in DOMAIN stdin[p] : stdin[p][i].id = r}
                          answers == {i \in DOMAIN stdout[p] : stdout[p][i] = [id |-> r]}
                          jobs    == {q \in {p} : job[q] \in Job /\ job[q].command.id = r}
                      IN  /\ bridge = p
                          /\ Cardinality(unread) + Cardinality(answers) + Cardinality(jobs) = 1
    BY DEF NothingLost
  <2> DEFINE p == req[r].of
             unread  == {i \in DOMAIN stdin[p] : stdin[p][i].id = r}
             answers == {i \in DOMAIN stdout[p] : stdout[p][i] = [id |-> r]}
             jobs    == {q \in {p} : job[q] \in Job /\ job[q].command.id = r}
  <2>1. r \in Requests /\ req[r].at = "pending" /\ p \in Procs
    <3>1. r \in Requests /\ req[r].at = "pending" /\ req[r] \in Wait
      BY DEF Pending, TypeOK, Wait
    <3> QED BY <3>1 DEF Wait, NotSent, Settled
  <2>2. bridge = p /\ InOnePlace(p, r)
    BY <2>1 DEF Single, Unreaped, PlaceInv, PlaceOf
  <2>3. unread = Where(stdin[p], CommandsOf(r))
    <3>1. stdin[p] \in Seq(Command)
      BY <2>1 DEF TypeOK, BridgeTypeOK
    <3>2. \A i \in DOMAIN stdin[p] : stdin[p][i] \in Command
      BY <3>1
    <3> QED BY <3>2 DEF Where, CommandsOf
  <2>4. answers = Where(stdout[p], AnswersTo(r))
    BY DEF Where, AnswersTo
  <2>5. (WorksOn(p, r) => jobs = {p}) /\ (~WorksOn(p, r) => jobs = {})
    BY DEF WorksOn
  <2> HIDE DEF unread, answers, jobs, p
  <2>6. Cardinality({}) = 0 /\ Cardinality({p}) = 1
    BY FS_EmptySet, FS_Singleton
  <2>7. \A I : Once(I) => Cardinality(I) = 1
    BY FS_Singleton DEF Once
  <2>8. Cardinality(unread) + Cardinality(answers) + Cardinality(jobs) = 1
    <3>1. CASE Once(unread) /\ answers = {} /\ jobs = {}
      BY <2>6, <2>7, <3>1
    <3>2. CASE unread = {} /\ Once(answers) /\ jobs = {}
      BY <2>6, <2>7, <3>2
    <3>3. CASE unread = {} /\ answers = {} /\ jobs = {p}
      BY <2>6, <3>3
    <3> QED BY <2>2, <2>3, <2>4, <2>5, <3>1, <3>2, <3>3 DEF InOnePlace
  <2> QED BY <2>2, <2>8 DEF p, unread, answers, jobs
<1> QED BY <1>1, SingleAlways, PlaceAlways, PTL DEF SingleInv

=============================================================================
