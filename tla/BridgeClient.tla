---------------------------- MODULE BridgeClient ----------------------------
(***************************************************************************)
(* The BoxLite local client (packages/boxlite/src/local-client.ts) with    *)
(* the Python bridges it starts, one after the other.  The variables       *)
(* process, readline and readyPromise are set and cleared together: bridge *)
(* is the process of all three.                                            *)
(***************************************************************************)
EXTENDS BoxLiteBridge, FiniteSets

VARIABLES
  bridge,     \* process
  ready,      \* what came of its readyPromise
  starters,   \* commands whose callers await that
  req,        \* where each call of send is, and with which process
  disposing   \* the process whose exit dispose() awaits

client == <<bridge, ready, starters, req, disposing>>
vars   == <<vm, children, handles, pipes, client>>

NotSent  == [at |-> "none"]
Settled  == [at |-> "settled"]

TypeOK ==
  /\ BridgeTypeOK
  /\ bridge    \in Procs \cup {None}
  /\ ready     \in {"pending", "resolved", "rejected"}
  /\ starters  \in Seq(Command)
  /\ req       \in [Requests -> {NotSent, Settled} \cup [at : {"starting", "pending"}, of : Procs]]
  /\ disposing \in Procs \cup {None}

Init ==
  /\ BridgeInit
  /\ bridge = None
  /\ ready = "pending"
  /\ starters = <<>>
  /\ req = [r \in Requests |-> NotSent]
  /\ disposing = None

Pending == {r \in Requests : req[r].at = "pending"}

Starting(p) == {r \in Requests : req[r] = [at |-> "starting", of |-> p]}

\* cleanup(); the old readyPromise is nobody's any more.
Forget == bridge' = None /\ ready' = "pending" /\ starters' = <<>>

\* The calls of some requests return, with a result or an error, or go on.
Become(rs, where) == req' = [r \in Requests |-> IF r \in rs THEN where ELSE req[r]]

-----------------------------------------------------------------------------
(* send *)

\* The first call starts a bridge.  A process that cannot be spawned makes the
\* call fail and is forgotten.
StartBridge(c) ==
  /\ bridge = None
  /\ \/ /\ Become({c.id}, Settled)
        /\ UNCHANGED <<bridge, starters, child, job>>
     \/ \E p \in Procs :
          /\ child[p] = "none"
          /\ child' = [child EXCEPT ![p] = "alive"]
          /\ job' = [job EXCEPT ![p] = [at |-> "boot"]]
          /\ bridge' = p
          /\ starters' = <<c>>
          /\ Become({c.id}, [at |-> "starting", of |-> p])
  /\ UNCHANGED stdin

AwaitBridge(c) ==
  /\ bridge # None /\ ready = "pending"
  /\ starters' = Append(starters, c)
  /\ Become({c.id}, [at |-> "starting", of |-> bridge])
  /\ UNCHANGED <<bridge, child, job, stdin>>

\* What is written to a process that has exited, unnoticed yet, is lost.
ToStdin(p, cs) == stdin' = IF child[p] = "alive" THEN [stdin EXCEPT ![p] = @ \o cs] ELSE stdin

Write(c) ==
  /\ bridge # None /\ ready # "pending"
  /\ IF ready = "resolved" /\ bridge \notin ended
     THEN Become({c.id}, [at |-> "pending", of |-> bridge]) /\ ToStdin(bridge, <<c>>)
     ELSE Become({c.id}, Settled) /\ UNCHANGED stdin
  /\ UNCHANGED <<bridge, starters, child, job>>

Send(c) ==
  /\ req[c.id] = NotSent
  /\ StartBridge(c) \/ AwaitBridge(c) \/ Write(c)
  /\ UNCHANGED <<vm, killed, handles, ended, stdout, ready, disposing>>

\* Mutants: the timer also forgets the bridge; it only forgets the request.
TimeoutForgets(r) ==
  /\ r \in Pending
  /\ Become({r}, Settled)
  /\ Forget
  /\ UNCHANGED <<vm, children, handles, pipes, disposing>>
TimeoutSilent(r) ==
  /\ r \in Pending
  /\ Become({r}, NotSent)
  /\ UNCHANGED <<vm, children, handles, pipes, bridge, ready, starters, disposing>>

\* The process is not told: it will still serve the request.
Timeout(r) ==
  /\ r \in Pending
  /\ Become({r}, Settled)
  /\ UNCHANGED <<vm, children, handles, pipes, bridge, ready, starters, disposing>>

-----------------------------------------------------------------------------
(* The events of a process *)

\* Whoever awaits the bridge goes on, in the order of the calls.
BecomesReady ==
  /\ ready' = "resolved"
  /\ starters' = <<>>
  /\ IF bridge \in ended
     THEN Become(Starting(bridge), Settled) /\ UNCHANGED stdin
     ELSE Become(Starting(bridge), [at |-> "pending", of |-> bridge]) /\ ToStdin(bridge, starters)

BecomesRejected ==
  /\ ready' = "rejected"
  /\ starters' = <<>>
  /\ Become(Starting(bridge), Settled)
  /\ UNCHANGED stdin

\* An answer that nobody waits for, of a request that timed out, is ignored.
Answered(r) ==
  /\ Become({r} \cap Pending, Settled)
  /\ UNCHANGED <<ready, starters, stdin>>

\* A line of the bridge whose readline is open.
Line ==
  /\ bridge # None
  /\ stdout[bridge] # <<>>
  /\ LET message == Head(stdout[bridge]) IN
     CASE message = [ready |-> TRUE]  -> BecomesReady
       [] message = [ready |-> FALSE] -> BecomesRejected
       [] OTHER                       -> Answered(message.id)
  /\ stdout' = [stdout EXCEPT ![bridge] = Tail(@)]
  /\ UNCHANGED <<vm, children, handles, ended, bridge, disposing>>

\* Mutant: the calls that await the process are not told.
RejectedPendingOnly(p) == IF child[p] = "exit error" THEN Pending ELSE {}

\* Everything pending is rejected, and whoever still awaits the process, but
\* only after an exit code other than 0.
Rejected(p) == IF child[p] = "exit error" THEN Pending \cup Starting(p) ELSE {}

\* The 'exit' event: whatever process it comes from, the current one is
\* forgotten.  What it wrote and nobody read is lost.
Exit(p) ==
  /\ child[p] \in {"exit", "exit error"}
  /\ child' = [child EXCEPT ![p] = IF @ = "exit" THEN "reaped" ELSE "reaped error"]
  /\ Become(Rejected(p), Settled)
  /\ Forget
  /\ disposing' = IF disposing = p THEN None ELSE disposing
  /\ stdout' = [stdout EXCEPT ![p] = <<>>]
  /\ ended' = ended \ {p}
  /\ UNCHANGED <<vm, killed, job, handles, stdin>>

-----------------------------------------------------------------------------
(* dispose; a second one while it runs is not modelled *)

\* Without a bridge there is nothing to do.
Dispose ==
  /\ disposing = None
  /\ bridge # None
  /\ ended' = ended \cup {bridge}
  /\ disposing' = bridge
  /\ UNCHANGED <<vm, children, handles, stdin, stdout, bridge, ready, starters, req>>

\* Mutant: the timer needs a process to kill.
DisposeTimeoutOf ==
  /\ disposing # None /\ bridge # None
  /\ killed' = killed \cup {bridge}
  /\ Forget
  /\ disposing' = None
  /\ UNCHANGED <<vm, child, job, handles, pipes, req>>

\* After three seconds the process is sent SIGTERM and forgotten.
DisposeTimeout ==
  /\ disposing # None
  /\ killed' = IF bridge = None THEN killed ELSE killed \cup {bridge}
  /\ Forget
  /\ disposing' = None
  /\ UNCHANGED <<vm, child, job, handles, pipes, req>>

ClientNext ==
  \/ \E c \in Command : Send(c)
  \/ \E r \in Requests : Timeout(r)
  \/ Line
  \/ \E p \in Procs : Exit(p)
  \/ Dispose
  \/ DisposeTimeout

Next == ClientNext \/ (BridgeNext /\ UNCHANGED client)

Spec == Init /\ [][Next]_vars

\* Timers fire, what a process wrote is read and its exit noticed, the script
\* starts, and a process that was sent SIGTERM dies.  A request may hang.  None of
\* these steps can happen forever, so that fairness of a disjunction is fairness
\* to each of its disjuncts.
FairSpec ==
  /\ Spec
  /\ WF_vars(\E r \in Requests : Timeout(r))
  /\ WF_vars(Line \/ DisposeTimeout \/ \E p \in Procs : Exit(p))
  /\ WF_vars(UNCHANGED client /\ \E p \in Procs, sdk \in BOOLEAN : Boot(p, sdk))
  /\ WF_vars(UNCHANGED client /\ \E p \in killed : Die(p, "exit"))

-----------------------------------------------------------------------------
(* Safety, as long as no dispose() gave up waiting for a process *)

\* There is one bridge at a time, the one that the client knows: no two serve
\* requests for the same boxes, and none runs on unknown to the client.
OneBridge == killed = {} => \A p \in Procs : child[p] = "alive" => bridge = p

\* A request that a caller waits for is with its bridge, in one place, unless
\* the process has exited.
NothingLost ==
  killed = {} => \A r \in Pending :
    LET p       == req[r].of
        unread  == {i \in DOMAIN stdin[p] : stdin[p][i].id = r}
        answers == {i \in DOMAIN stdout[p] : stdout[p][i] = [id |-> r]}
        jobs    == {q \in {p} : job[q] \in Job /\ job[q].command.id = r}
    IN child[p] = "alive" =>
         bridge = p /\ Cardinality(unread) + Cardinality(answers) + Cardinality(jobs) = 1

\* While a snapshot is taken or restored the box does not run.
SnapshotQuiet ==
  killed = {} => \A p \in Procs :
    job[p] \in Job /\ job[p].at = "stopped" => vm[BoxOf(p)] # "running"

\* A bridge reaches a running box through a handle that is valid.
HandlesValid ==
  killed = {} => \A p \in Procs, b \in Boxes : b \in stale[p] => vm[b] # "running"

-----------------------------------------------------------------------------
(* Liveness *)

\* dispose() ends, and every call is settled, unless its bridge went away
\* silently, or was forgotten, before it was ready.
NothingHangs ==
  /\ disposing # None ~> disposing = None
  /\ \A r \in Requests :
       req[r].at \in {"starting", "pending"}
         ~> \/ req[r] = Settled
            \/ /\ req[r].at = "starting" /\ bridge # req[r].of
               /\ child[req[r].of] # "reaped error"

-----------------------------------------------------------------------------
(* What the interface promises of dispose() *)

\* types.ts:58, dispose() cleans up the subprocess: when it has nothing to do,
\* every process that is left was told to end.
DisposeCleansUp ==
  bridge = None => \A p \in Procs : child[p] = "alive" => p \in ended \cup killed

=============================================================================
