--------------------------- MODULE BoxLiteBridge ---------------------------
(***************************************************************************)
(* The Python bridge to the BoxLite SDK (the script embedded in            *)
(* packages/boxlite/src/local-client.ts).  Each bridge process serves one  *)
(* request at a time and caches handles of boxes; the boxes themselves are *)
(* in the runtime's home directory, which all processes share.             *)
(* A pipe is a sequence; a process may die at any point.                   *)
(***************************************************************************)
EXTENDS Naturals, Sequences

CONSTANTS
  Procs,      \* bridge processes
  Boxes,      \* box ids; the runtime never gives one twice
  Kept,       \* boxes that earlier bridges have left running
  Requests,   \* calls of send
  Actions,    \* what a request may ask for, among AllActions
  None

\* "use" is get and exec, which need a handle and leave the box alone, and
\* list_snapshots and delete_snapshot; "snapshot" is to create or to restore one.
AllActions == {"create", "use", "start", "stop", "snapshot", "clone", "destroy"}

VARIABLES
  vm,       \* the state of each box in the runtime
  child,    \* the state of each process, reaped once its exit was reported
  killed,   \* processes that were sent SIGTERM
  job,      \* the request a process is serving, and how far it is
  cached,   \* _boxes of each process
  simple,   \* _simple_boxes: those it created itself
  stale,    \* cached boxes whose handle is invalid: stopped through it
  stdin,    \* lines a process has not read
  ended,    \* processes whose stdin was closed
  stdout    \* lines nobody has read

handles == <<cached, simple, stale>>
children == <<child, killed, job>>
pipes   == <<stdin, ended, stdout>>

Command == [id : Requests, action : Actions \cap {"create"}]
             \cup [id : Requests, action : Actions \ {"create"}, box : Boxes]

Job == [command : Command, at : {"begin", "stopped", "snapped"}]

ASSUME BridgeConstants ==
  /\ Actions \subseteq AllActions
  /\ Kept \subseteq Boxes
  /\ None \notin Procs
  /\ None \notin Job

\* An answer says what came of the request; nobody here tells that apart.
Message == [ready : BOOLEAN] \cup [id : Requests]

BridgeTypeOK ==
  /\ vm     \in [Boxes -> {"absent", "running", "stopped", "removed"}]
  /\ child  \in [Procs -> {"none", "alive", "exit", "exit error", "reaped", "reaped error"}]
  /\ killed \subseteq Procs
  /\ job    \in [Procs -> Job \cup {[at |-> "boot"], None}]
  /\ cached \in [Procs -> SUBSET Boxes]
  /\ simple \in [Procs -> SUBSET Boxes]
  /\ stale  \in [Procs -> SUBSET Boxes]
  /\ stdin  \in [Procs -> Seq(Command)]
  /\ ended  \subseteq Procs
  /\ stdout \in [Procs -> Seq(Message)]

BridgeInit ==
  /\ vm = [b \in Boxes |-> IF b \in Kept THEN "running" ELSE "absent"]
  /\ child = [p \in Procs |-> "none"]
  /\ killed = {} /\ ended = {}
  /\ job = [p \in Procs |-> None]
  /\ cached = [p \in Procs |-> {}]
  /\ simple = [p \in Procs |-> {}]
  /\ stale = [p \in Procs |-> {}]
  /\ stdin = [p \in Procs |-> <<>>]
  /\ stdout = [p \in Procs |-> <<>>]

-----------------------------------------------------------------------------
(* main *)

Put(p, message) == stdout' = [stdout EXCEPT ![p] = Append(@, message)]

\* With a process go its handles, and what it was doing and had not read.
Gone(p, code) ==
  /\ child' = [child EXCEPT ![p] = code]
  /\ job' = [job EXCEPT ![p] = None]
  /\ cached' = [cached EXCEPT ![p] = {}]
  /\ simple' = [simple EXCEPT ![p] = {}]
  /\ stale' = [stale EXCEPT ![p] = {}]
  /\ stdin' = [stdin EXCEPT ![p] = <<>>]

\* Without the boxlite package the script says so and exits.
Boot(p, sdk) ==
  /\ child[p] = "alive"
  /\ job[p] = [at |-> "boot"]
  /\ Put(p, [ready |-> sdk])
  /\ IF sdk THEN job' = [job EXCEPT ![p] = None] /\ UNCHANGED <<child, handles, stdin>>
     ELSE Gone(p, "exit error")
  /\ UNCHANGED <<vm, killed, ended>>

\* Mutant: where the request stands is not noted.
TakeBare(p) ==
  /\ child[p] = "alive"
  /\ job[p] = None
  /\ stdin[p] # <<>>
  /\ job' = [job EXCEPT ![p] = Head(stdin[p])]
  /\ stdin' = [stdin EXCEPT ![p] = Tail(@)]
  /\ UNCHANGED <<vm, child, killed, handles, ended, stdout>>

Take(p) ==
  /\ child[p] = "alive"
  /\ job[p] = None
  /\ stdin[p] # <<>>
  /\ job' = [job EXCEPT ![p] = [command |-> Head(stdin[p]), at |-> "begin"]]
  /\ stdin' = [stdin EXCEPT ![p] = Tail(@)]
  /\ UNCHANGED <<vm, child, killed, handles, ended, stdout>>

\* End of input: the boxes are left as they are.
Eof(p) ==
  /\ child[p] = "alive"
  /\ job[p] = None
  /\ stdin[p] = <<>>
  /\ p \in ended
  /\ Gone(p, "exit")
  /\ UNCHANGED <<vm, killed, ended, stdout>>

\* An error nobody catches, or a signal, which leaves no exit code: dispose()'s,
\* or another.
Die(p, code) ==
  /\ child[p] = "alive"
  /\ Gone(p, code)
  /\ UNCHANGED <<vm, killed, ended, stdout>>

-----------------------------------------------------------------------------
(* The actions of a request; ok is FALSE where the SDK raises an exception *)

Exists(b) == vm[b] \in {"running", "stopped"}

Serving(p, action, at) ==
  /\ child[p] = "alive"
  /\ job[p] \in Job
  /\ job[p].at = at
  /\ job[p].command.action = action

BoxOf(p) == job[p].command.box

\* Mutant: nothing is written after an exception.
ReplyNothing(p, ok) ==
  /\ IF ok THEN Put(p, [id |-> job[p].command.id]) ELSE UNCHANGED stdout
  /\ job' = [job EXCEPT ![p] = None]

Reply(p, ok) ==
  /\ Put(p, [id |-> job[p].command.id])
  /\ job' = [job EXCEPT ![p] = None]

\* _refresh_box_handle: a valid handle of a box that is there.
Refreshed(p) ==
  IF Exists(BoxOf(p))
  THEN /\ cached' = [cached EXCEPT ![p] = @ \cup {BoxOf(p)}]
       /\ stale' = [stale EXCEPT ![p] = @ \ {BoxOf(p)}]
  ELSE UNCHANGED <<cached, stale>>

\* _get_box_async: the handle in the cache, whatever it is worth.
Got(p) == IF BoxOf(p) \in cached[p] THEN UNCHANGED <<cached, stale>> ELSE Refreshed(p)

\* An exception: where rt.get raised it there is no new handle.
Unrefreshed(p) == Refreshed(p) \/ UNCHANGED <<cached, stale>>

\* box.stop(), which also invalidates the handle it is called through.
Stopped(p) ==
  /\ Exists(BoxOf(p))
  /\ vm' = [vm EXCEPT ![BoxOf(p)] = "stopped"]
  /\ cached' = [cached EXCEPT ![p] = @ \cup {BoxOf(p)}]
  /\ stale' = [stale EXCEPT ![p] = @ \cup {BoxOf(p)}]

Create(p, ok) ==
  /\ Serving(p, "create", "begin")
  /\ IF ok
     THEN \E b \in Boxes :
            /\ vm[b] = "absent"
            /\ vm' = [vm EXCEPT ![b] = "running"]
            /\ cached' = [cached EXCEPT ![p] = @ \cup {b}]
            /\ simple' = [simple EXCEPT ![p] = @ \cup {b}]
     ELSE UNCHANGED <<vm, cached, simple>>
  /\ Reply(p, ok)
  /\ UNCHANGED <<child, killed, stale, stdin, ended>>

Use(p, ok) ==
  /\ Serving(p, "use", "begin")
  /\ ok => BoxOf(p) \in cached[p] \/ Exists(BoxOf(p))
  /\ Got(p) \/ (~ok /\ UNCHANGED <<cached, stale>>)
  /\ Reply(p, ok)
  /\ UNCHANGED <<vm, child, killed, simple, stdin, ended>>

\* Mutant: starts through the handle in the cache.
StartCached(p, ok) ==
  /\ Serving(p, "start", "begin")
  /\ ok => Exists(BoxOf(p))
  /\ Got(p)
  /\ vm' = IF ok THEN [vm EXCEPT ![BoxOf(p)] = "running"] ELSE vm
  /\ Reply(p, ok)
  /\ UNCHANGED <<child, killed, simple, stdin, ended>>

Start(p, ok) ==
  /\ Serving(p, "start", "begin")
  /\ ok => Exists(BoxOf(p))
  /\ IF ok THEN Refreshed(p) ELSE Unrefreshed(p)
  /\ vm' = IF ok THEN [vm EXCEPT ![BoxOf(p)] = "running"] ELSE vm
  /\ Reply(p, ok)
  /\ UNCHANGED <<child, killed, simple, stdin, ended>>

\* The handle is refreshed once the box has stopped; where that fails, the one it
\* was stopped through stays.
Stop(p, ok) ==
  /\ Serving(p, "stop", "begin")
  /\ \/ /\ ok /\ Exists(BoxOf(p))
        /\ vm' = [vm EXCEPT ![BoxOf(p)] = "stopped"]
        /\ Refreshed(p)
     \/ ~ok /\ Stopped(p)
     \/ ~ok /\ (Got(p) \/ UNCHANGED <<cached, stale>>) /\ UNCHANGED vm
  /\ Reply(p, ok)
  /\ UNCHANGED <<child, killed, simple, stdin, ended>>

\* Mutant: the snapshot is taken first.
SnapshotTakeFirst(p, ok) ==
  /\ Serving(p, "snapshot", "begin")
  /\ ok => Exists(BoxOf(p))
  /\ IF ok THEN job' = [job EXCEPT ![p].at = "stopped"] /\ UNCHANGED stdout
     ELSE Reply(p, FALSE)
  /\ UNCHANGED <<vm, child, killed, handles, stdin, ended>>

\* create_snapshot and restore_snapshot: stop, snapshot, start again.  An
\* exception leaves the box stopped and the handle it was stopped through.
SnapshotStop(p, ok) ==
  /\ Serving(p, "snapshot", "begin")
  /\ IF ok
     THEN /\ Stopped(p)
          /\ job' = [job EXCEPT ![p].at = "stopped"]
          /\ UNCHANGED stdout
     ELSE Unrefreshed(p) /\ Reply(p, FALSE) /\ UNCHANGED vm
  /\ UNCHANGED <<child, killed, simple, stdin, ended>>

SnapshotTake(p, ok) ==
  /\ Serving(p, "snapshot", "stopped")
  /\ ok => Exists(BoxOf(p))
  /\ IF ok THEN job' = [job EXCEPT ![p].at = "snapped"] /\ UNCHANGED stdout
     ELSE Reply(p, FALSE)
  /\ UNCHANGED <<vm, child, killed, handles, stdin, ended>>

SnapshotRestart(p, ok) ==
  /\ Serving(p, "snapshot", "snapped")
  /\ IF ok
     THEN /\ Exists(BoxOf(p))
          /\ vm' = [vm EXCEPT ![BoxOf(p)] = "running"]
          /\ Refreshed(p)
     ELSE UNCHANGED <<vm, cached, stale>>
  /\ Reply(p, ok)
  /\ UNCHANGED <<child, killed, simple, stdin, ended>>

Clone(p, ok) ==
  /\ Serving(p, "clone", "begin")
  /\ IF ok
     THEN /\ Exists(BoxOf(p))
          /\ \E b \in Boxes :
               /\ vm[b] = "absent"
               /\ vm' = [vm EXCEPT ![b] = "stopped"]
               /\ cached' = [cached EXCEPT ![p] = @ \cup {BoxOf(p), b}]
          /\ \/ stale' = [stale EXCEPT ![p] = @ \ {BoxOf(p)}]
             \/ BoxOf(p) \in cached[p] /\ UNCHANGED stale
     ELSE Unrefreshed(p) /\ UNCHANGED vm
  /\ Reply(p, ok)
  /\ UNCHANGED <<child, killed, simple, stdin, ended>>

\* The handles go first.  If the runtime does not remove the box, one that the
\* bridge created is only stopped, one with another handle is left as it is, and
\* both are reported destroyed.
Destroy(p, removed) ==
  LET b == BoxOf(p) IN
  /\ Serving(p, "destroy", "begin")
  /\ removed => Exists(b)
  /\ cached' = [cached EXCEPT ![p] = @ \ {b}]
  /\ simple' = [simple EXCEPT ![p] = @ \ {b}]
  /\ stale' = [stale EXCEPT ![p] = @ \ {b}]
  /\ \/ vm' = [vm EXCEPT ![b] = IF removed THEN "removed" ELSE @]
     \/ ~removed /\ b \in simple[p] /\ vm[b] = "running" /\ vm' = [vm EXCEPT ![b] = "stopped"]
  /\ Reply(p, removed \/ b \in cached[p])
  /\ UNCHANGED <<child, killed, stdin, ended>>

Serve(p, ok) ==
  \/ Create(p, ok) \/ Use(p, ok) \/ Start(p, ok) \/ Stop(p, ok)
  \/ SnapshotStop(p, ok) \/ SnapshotTake(p, ok) \/ SnapshotRestart(p, ok)
  \/ Clone(p, ok) \/ Destroy(p, ok)

BridgeNext ==
  \E p \in Procs :
    \/ Take(p)
    \/ Eof(p)
    \/ \E ok \in BOOLEAN : Boot(p, ok) \/ Serve(p, ok)
    \/ \E code \in {"exit", "exit error"} : Die(p, code)

=============================================================================
