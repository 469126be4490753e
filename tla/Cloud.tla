------------------------------- MODULE Cloud -------------------------------
(***************************************************************************)
(* What the adapters talk to: the API of a provider (Fly.io, Docker for    *)
(* AIO, Cloudflare, BoxLite, Daytona, microsandbox, E2B, Sandbank Cloud,   *)
(* db9), as far as the code in packages/*/src tells its answers apart.     *)
(*                                                                         *)
(* A call of the provider asks one thing at a time and awaits the answer.  *)
(* A request takes effect, or not, at some moment after it was written,    *)
(* and its answer may be lost whether or not it did: for the caller a lost *)
(* answer is an error like a refusal.  A call of create makes at most one  *)
(* box (a sandbox, a volume, a database), which is named by the call.      *)
(***************************************************************************)
EXTENDS Naturals

CONSTANTS
  Adapters,   \* the adapters considered, by name
  Calls,      \* calls of the provider
  None        \* no answer yet, no box, no request

Kinds == {"flyio", "aio", "aioProbed", "cloudflare", "boxlite", "daytona",
          "daytonaRest", "microsandbox", "e2b", "cloud", "volume", "db9"}

\* What a call may await of the provider.
Requests == {"image", "pull", "make", "start", "probe", "wait", "look", "prepare",
             "user", "mkdir", "write", "schema", "drop", "delete"}
Commands == {"user", "mkdir", "write"}

Alive  == {"made", "running", "stopped"}
States == Alive \cup {"none", "gone"}

\* Answers.  A status stands for itself; "empty" is a success with no body,
\* "nonzero" the exit code of a command, "absent" a 404, "rumour" another error
\* with "404" or "not found" somewhere in its text, "error" all the rest.
Answers == Alive \cup {"ok", "empty", "nonzero", "absent", "rumour", "error", "busy", "notReady", "402"}

ASSUME CloudConstants ==
  /\ Adapters \subseteq Kinds
  /\ None \notin Calls \cup Answers \cup Requests

VARIABLES
  adapter,    \* the adapter in use
  calls,      \* the calls, each with what it awaits
  cloud,      \* the box that each call has made
  ran         \* boxes that have run, or been ready, where the adapter waits for that (history)

Aio     == adapter \in {"aio", "aioProbed"}
Daytona == adapter \in {"daytona", "daytonaRest", "volume"}

\* The adapters that wait for a box to run, or to be ready.
Waits == Aio \/ adapter \in {"flyio", "boxlite", "volume", "db9"}

OnlyIf(p, S) == IF p THEN S ELSE {}

\* All containers of AIO ask for one port (allocPort takes the first of its
\* range to be free), which Docker binds for one of them at a time.
PortHeld == \E b \in Calls : cloud[b] = "running"

\* What a request does to a box in state s, if it does: its answer, the next state.
Make == {<<"made", "made">>} \cup OnlyIf(~Aio, {<<"running", "running">>})

\* Docker removes a container that does not start (AutoRemove).
Start == OnlyIf(Aio, {<<"error", "gone">>})
         \cup OnlyIf(~(Aio /\ PortHeld), {<<"ok", "running">>})

\* The probe of AIO asks whatever listens on the port.
Probe(s) == {<<"error", s>>} \cup OnlyIf(PortHeld, {<<"ok", s>>})

\* Whether the adapter writes files itself: the others do by a command.
OwnWriteFile == Aio \/ Daytona \/ adapter = "cloudflare"

\* A command has an exit code.
Command(request, s) ==
  LET up == IF s \in Alive THEN s ELSE "running"
  IN  {<<"ok", up>>} \cup OnlyIf(~(request = "write" /\ OwnWriteFile), {<<"nonzero", up>>})
                     \cup OnlyIf(adapter = "cloudflare", {<<"notReady", up>>})

Delete(s) == IF Daytona /\ s = "made" THEN {<<"busy", s>>} ELSE {<<"ok", "gone">>, <<"empty", "gone">>}

Effect(request, s) ==
  CASE request = "make"               -> Make
    [] request = "start"              -> Start
    [] request = "wait"               -> OnlyIf(s = "running", {<<"ok", s>>})
    [] request = "probe"              -> Probe(s)
    [] request = "look"               -> {<<s, s>>}
    [] request = "prepare"            -> {<<"ok", "running">>, <<"notReady", "running">>}
    [] request \in Commands           -> Command(request, s)
    [] request \in {"drop", "delete"} -> Delete(s)
    [] OTHER                          -> {<<"ok", s>>}   \* image, pull, schema

\* Whether there is something to answer: Cloudflare starts a container whenever
\* it is used.
Reached(request, s) ==
  \/ s \in Alive
  \/ request \in {"image", "pull", "make", "probe"}
  \/ adapter = "cloudflare"

\* AIO without a probe has no client to run commands with.
Runs(request) == ~(adapter = "aio" /\ request \in Commands)

\* Sandbank Cloud may want to be paid first, once.  What is in the text of an
\* error matters to get and destroy only.
Outcomes(request, s, paid, program) ==
  LET done == IF Reached(request, s) THEN Effect(request, s) ELSE {<<"absent", s>>}
      kept == {<<"error", s>>}
              \cup OnlyIf(request = "image", {<<"absent", s>>})
              \cup OnlyIf(request \in {"look", "delete"} /\ program # "create", {<<"rumour", s>>})
              \cup OnlyIf(adapter = "cloud" /\ ~paid, {<<"402", s>>})
  IN  IF Runs(request) THEN done \cup {<<"error", o[2]>> : o \in done} \cup kept
                       ELSE {<<"error", s>>}

\* Box b comes to be in state s.
Becomes(b, s) ==
  /\ cloud' = [cloud EXCEPT ![b] = s]
  /\ ran' = IF s = "running" /\ Waits THEN ran \cup {b} ELSE ran

\* The request that call c awaits is carried out, or is not, and is answered.
Perform(c) ==
  LET q == calls[c] IN
  /\ q.at \in Requests /\ q.answer = None
  /\ \E o \in Outcomes(q.at, cloud[q.box], q.paid, q.program) :
       /\ calls' = [calls EXCEPT ![c].answer = o[1]]
       /\ Becomes(q.box, o[2])

\* A request that call c no longer waits for is carried out, or is not.
PerformLate(c) ==
  LET q == calls[c] IN
  /\ q.late # None
  /\ \E o \in Outcomes(q.late, cloud[q.box], FALSE, q.program) : Becomes(q.box, o[2])
  /\ calls' = [calls EXCEPT ![c].late = None]

\* A box comes up, fails, or is removed, by itself.
Boots(b) ==
  /\ cloud[b] = "made" /\ ~Aio /\ adapter # "boxlite"
  /\ Becomes(b, "running")
  /\ UNCHANGED calls

Stops(b) ==
  /\ cloud[b] \in {"made", "running"}
  /\ Becomes(b, "stopped")
  /\ UNCHANGED calls

Vanishes(b) ==
  /\ cloud[b] = "stopped"
  /\ Becomes(b, "gone")
  /\ UNCHANGED calls

=============================================================================
