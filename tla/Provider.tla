----------------------------- MODULE Provider ------------------------------
(***************************************************************************)
(* createProvider (packages/core/src/provider.ts) over each adapter        *)
(* (packages/*/src): create, destroy and get, several calls at once.       *)
(*                                                                         *)
(* What an adapter does is a program: rows that say, of a step it awaits,  *)
(* with which answers it goes on to which next step, or "returns".  With   *)
(* every other answer it "throws"; a loop that has polled enough throws    *)
(* too ("gaveUp"); "missing" is SandboxNotFoundError.  The calls           *)
(* interleave between any two steps.                                       *)
(***************************************************************************)
EXTENDS Cloud

CONSTANT MaxTries    \* bound on the attempts of a polling loop

ASSUME ProviderConstants == MaxTries \in Nat \ {0}

VARIABLES
  known,      \* boxes in the adapter's own books: portMaps of BoxLite, sandboxes of Cloudflare
  client,     \* the client promise of the Daytona adapter
  skill       \* the shared request for the skill of db9

vars == <<adapter, calls, cloud, ran, known, client, skill>>

Steps == Requests \cup {"client"}
Ends  == {"returns", "throws", "gaveUp", "missing"}

Row(step, when, next)  == [step |-> step, when |-> when, next |-> next, last |-> "throws"]
Poll(step, when, last) == [step |-> step, when |-> when, next |-> step, last |-> last]

----------------------------------------------------------------------------
\* The answers with which a request of each client resolves, and those that its
\* adapter takes for "not found": by their text, or by their status.

Bodies == Alive \cup {"ok", "empty", "nonzero"}

FlyioRequest        == Bodies
BoxLiteRequest      == Bodies
DaytonaRequest      == Bodies \ {"empty"}   \* json() of no body throws, short of a 204
MicrosandboxRequest == Bodies \ {"empty"}
E2BRequest          == Bodies
X402Fetch(paid)     == IF paid THEN Bodies \ {"empty"} ELSE Bodies
Db9Request          == Bodies
Docker              == Bodies
Sdk                 == Bodies

FlyioNotFound    == {"absent", "rumour"}
BoxLiteNotFound  == {"absent", "rumour"}
DaytonaNotFound  == {"absent", "rumour"}
CloudNotFound    == {"absent", "rumour"}
StateTransition  == {"busy"}

----------------------------------------------------------------------------
\* Fly.io

\* Mutant: the machine is not waited for.
FlyioCreateAtOnce == {Row("make", FlyioRequest, "look"), Row("look", FlyioRequest, "returns")}

FlyioCreate == {Row("make", FlyioRequest, "wait"),
                Row("wait", FlyioRequest, "look"),
                Row("look", FlyioRequest, "returns")}

FlyioGet == {Row("look", FlyioRequest, "returns"), Row("look", FlyioNotFound, "missing")}

\* Mutant: a machine that is not there is an error.
FlyioDestroyOnce == {Row("delete", FlyioRequest, "returns")}

FlyioDestroy == {Row("delete", FlyioRequest \cup FlyioNotFound, "returns")}

----------------------------------------------------------------------------
\* AIO: an image that is not cached is pulled; waitHealth only with a probe path.

EnsureImage == {Row("image", {"ok"}, "make"),
                Row("image", {"absent"}, "pull"),
                Row("pull", {"ok"}, "make")}

WaitHealth == {Row("probe", {"ok"}, "returns"),
               Poll("probe", Answers \ {"ok"}, "gaveUp")}

AioCreate == EnsureImage \cup WaitHealth
             \cup {Row("make", Docker, "start"),
                   Row("start", Docker, IF adapter = "aioProbed" THEN "probe" ELSE "returns")}

AioGet == {Row("look", Docker, "returns"), Row("look", {"absent"}, "missing")}

AioDestroy == {Row("delete", Docker \cup {"absent"}, "returns")}

----------------------------------------------------------------------------
\* Cloudflare: the container starts at its first use; the books decide what exists.

WithRetry(steps) == {Poll(step, {"notReady"}, "throws") : step \in steps}

CloudflareCreate == WithRetry({"prepare"}) \cup {Row("prepare", {"ok"}, "returns")}

CloudflareDestroy == {Row("delete", Answers, "returns")}

\* What each method does before it has anything to await.
CloudflareFirst(q) ==
  CASE q.program = "create"  -> IF "setup" \in q.wants THEN "prepare" ELSE "returns"
    [] q.program = "destroy" -> IF q.box \in known THEN "delete" ELSE "returns"
    [] q.program = "get"     -> IF q.box \in known THEN "returns" ELSE "missing"

----------------------------------------------------------------------------
\* BoxLite over REST

\* Mutant: a box that does not come up is left as it is.
BoxLiteCreateNoDrop == {Row("make", {"made", "stopped"}, "start"),
                        Row("make", {"running"}, "look"),
                        Row("start", BoxLiteRequest, "look"),
                        Row("look", {"running"}, "returns"),
                        Poll("look", {"made", "stopped"}, "gaveUp")}

BoxLiteCreate == {Row("make", {"made", "stopped"}, "start"),
                  Row("make", {"running"}, "look"),
                  Row("start", BoxLiteRequest, "look"),
                  Row("look", {"running"}, "returns"),
                  Poll("look", {"made", "stopped"}, "drop"),
                  Row("drop", Answers, "throws")}

BoxLiteGet == {Row("look", BoxLiteRequest, "returns"), Row("look", BoxLiteNotFound, "missing")}

BoxLiteDestroy == {Row("delete", BoxLiteRequest \cup BoxLiteNotFound, "returns")}

----------------------------------------------------------------------------
\* Daytona, through the SDK or REST, and its volumes.  The SDK gets what it deletes.

DaytonaClient == IF adapter = "daytona" THEN Sdk ELSE DaytonaRequest

DaytonaCreate == {Row("client", {"ok"}, "make"), Row("make", DaytonaClient, "returns")}

DaytonaGet == {Row("client", {"ok"}, "look"),
               Row("look", DaytonaClient, "returns"),
               Row("look", DaytonaNotFound, "missing")}

SdkDelete == {Row("client", {"ok"}, "look"), Row("look", Sdk, "delete"),
              Row("look", DaytonaNotFound \cup StateTransition, "returns")}

DaytonaDestroy ==
  (IF adapter = "daytona" THEN SdkDelete ELSE {Row("client", {"ok"}, "delete")})
  \cup {Row("delete", DaytonaClient \cup DaytonaNotFound \cup StateTransition, "returns")}

CreateVolume == {Row("client", {"ok"}, "make"),
                 Row("make", DaytonaClient, "look"),
                 Row("look", {"running"}, "returns"),
                 Poll("look", {"made", "stopped", "absent"}, "gaveUp")}

DeleteVolume == {Row("client", {"ok"}, "look"),
                 Row("look", {"running"}, "delete"),
                 Row("look", {"absent", "rumour"}, "returns"),
                 Poll("look", {"made", "stopped"}, "delete"),
                 Row("delete", DaytonaClient \cup DaytonaNotFound, "returns")}

----------------------------------------------------------------------------
\* microsandbox, E2B, Sandbank Cloud, db9

MicrosandboxCreate  == {Row("make", MicrosandboxRequest, "returns")}
MicrosandboxGet     == {Row("look", MicrosandboxRequest, "returns"), Row("look", {"absent"}, "missing")}
MicrosandboxDestroy == {Row("delete", MicrosandboxRequest, "returns")}

E2BCreate  == {Row("make", E2BRequest, "returns")}
E2BGet     == {Row("look", E2BRequest, "returns"), Row("look", {"absent"}, "missing")}
\* Mutant: destroy ignores every error.
E2BDestroyIgnoring == {Row("delete", Answers, "returns")}

E2BDestroy == {Row("delete", E2BRequest \cup {"absent"}, "returns")}

CloudCreate(paid)  == {Row("make", X402Fetch(paid), "returns")}
CloudGet(paid)     == {Row("look", X402Fetch(paid), "returns"), Row("look", CloudNotFound, "missing")}
CloudDestroy(paid) == {Row("delete", X402Fetch(paid) \cup CloudNotFound, "returns")}

CreateDb9Brain == {Row("make", {"running"}, "schema"),
                   Row("make", {"made"}, "drop"),
                   Row("schema", Db9Request, "returns"),
                   Row("schema", Answers \ Db9Request, "drop"),
                   Row("drop", Answers, "throws")}

GetService     == {Row("look", Db9Request, "returns")}
DestroyService == {Row("delete", Db9Request, "returns")}

----------------------------------------------------------------------------
\* Setting up the box that createSandbox returned: the user, then the skills.

SetupSandboxUser(q) == {Row("user", {"ok"}, IF "skills" \in q.wants THEN "mkdir" ELSE "returns")}

\* A file that could not be written throws, by whatever means it is written.
WriteFileViaExec == {Row("write", {"ok"}, "returns")}

\* The exit code of mkdir is not looked at.
InjectSkills == {Row("mkdir", {"ok", "nonzero"}, "write")} \cup WriteFileViaExec

SetUpRows(q) == SetupSandboxUser(q) \cup InjectSkills
                \cup OnlyIf(adapter = "cloudflare", WithRetry({"user", "mkdir"}))

CreateRows(q) ==
  CASE adapter = "flyio"                    -> FlyioCreate
    [] adapter \in {"aio", "aioProbed"}     -> AioCreate
    [] adapter = "cloudflare"               -> CloudflareCreate
    [] adapter = "boxlite"                  -> BoxLiteCreate
    [] adapter \in {"daytona", "daytonaRest"} -> DaytonaCreate
    [] adapter = "volume"                   -> CreateVolume
    [] adapter = "microsandbox"             -> MicrosandboxCreate
    [] adapter = "e2b"                      -> E2BCreate
    [] adapter = "cloud"                    -> CloudCreate(q.paid)
    [] adapter = "db9"                      -> CreateDb9Brain

DestroyRows(q) ==
  CASE adapter = "flyio"                    -> FlyioDestroy
    [] adapter \in {"aio", "aioProbed"}     -> AioDestroy
    [] adapter = "cloudflare"               -> CloudflareDestroy
    [] adapter = "boxlite"                  -> BoxLiteDestroy
    [] adapter \in {"daytona", "daytonaRest"} -> DaytonaDestroy
    [] adapter = "volume"                   -> DeleteVolume
    [] adapter = "microsandbox"             -> MicrosandboxDestroy
    [] adapter = "e2b"                      -> E2BDestroy
    [] adapter = "cloud"                    -> CloudDestroy(q.paid)
    [] adapter = "db9"                      -> DestroyService

GetRows(q) ==
  CASE adapter = "flyio"                    -> FlyioGet
    [] adapter \in {"aio", "aioProbed"}     -> AioGet
    [] adapter = "boxlite"                  -> BoxLiteGet
    [] adapter \in {"daytona", "daytonaRest"} -> DaytonaGet
    [] adapter = "microsandbox"             -> MicrosandboxGet
    [] adapter = "e2b"                      -> E2BGet
    [] adapter = "cloud"                    -> CloudGet(q.paid)
    [] adapter = "db9"                      -> GetService

Rows(q) ==
  CASE q.program = "create"  -> CreateRows(q)
    [] q.program = "setup"   -> SetUpRows(q)
    [] q.program = "destroy" -> DestroyRows(q)
    [] q.program = "get"     -> GetRows(q)

\* Mutant: a loop polls once more than it should.
FollowingLate(q) ==
  IF \E r \in Rows(q) : r.step = q.at /\ q.answer \in r.when
  THEN LET r == CHOOSE x \in Rows(q) : x.step = q.at /\ q.answer \in x.when
       IN  IF r.next = q.at /\ q.tries > MaxTries THEN r.last ELSE r.next
  ELSE "throws"

\* What the program of q does with the answer it has.
Following(q) ==
  IF \E r \in Rows(q) : r.step = q.at /\ q.answer \in r.when
  THEN LET r == CHOOSE x \in Rows(q) : x.step = q.at /\ q.answer \in x.when
       IN  IF r.next = q.at /\ q.tries = MaxTries THEN r.last ELSE r.next
  ELSE "throws"

----------------------------------------------------------------------------
\* From one program to the next.

\* Whether a call that ended so has told its caller that its box is gone.
TellsGone(op, how) == how = "missing" \/ (op = "destroy" /\ how = "done")

\* Mutant: attempts are not counted.
AskUncounted(q, step) == [q EXCEPT !.at = step, !.answer = None, !.paid = FALSE, !.tries = 1]

Ask(q, step) == [q EXCEPT !.at = step, !.answer = None, !.paid = FALSE,
                          !.tries = IF step = q.at THEN q.tries + 1 ELSE 1]

\* What is remembered of a call that has ended: of a create, at which step it
\* failed, of a destroy or of a get that found nothing, the answer it ended with.
Settled(q, how, fault) ==
  [q EXCEPT !.at = how, !.program = q.op, !.wants = {}, !.tries = 1, !.paid = FALSE, !.skill = "none",
            !.fault = IF q.op = "create" THEN fault ELSE None,
            !.answer = IF q.op = "destroy" \/ how = "missing" THEN q.answer ELSE None]

Done(q)          == Settled(q, "done", None)
Missing(q)       == Settled(q, "missing", None)
Failed(q, fault) == Settled(q, "failed", fault)

\* The answers after which a box that was to be deleted is deleted.
Clean == {"ok", "empty", "absent"}

Cleaned(q) == IF q.answer \in Clean THEN "cleaned" ELSE "cleanup"

\* What a program asks first, if it asks anything.
First(q) ==
  CASE q.program = "setup"  -> IF "user" \in q.wants THEN "user"
                               ELSE IF "skills" \in q.wants THEN "mkdir" ELSE "returns"
    [] q.program # "setup" /\ adapter = "cloudflare" -> CloudflareFirst(q)
    [] q.program # "setup" /\ Daytona    -> "client"
    [] q.program = "create" /\ Aio       -> "image"
    [] q.program = "create" /\ ~Aio /\ adapter # "cloudflare" /\ ~Daytona -> "make"
    [] q.program = "destroy" /\ adapter # "cloudflare" /\ ~Daytona -> "delete"
    [] q.program = "get" /\ adapter # "cloudflare" /\ ~Daytona     -> "look"

\* Mutant: nothing is destroyed when injectSkills fails.
UndoNothing(q) == Failed(q, q.at)

\* injectSkills failed: the box is destroyed, whatever comes of that.
Undo(q) ==
  LET u == [q EXCEPT !.program = "destroy"]
  IN  IF First(u) = "returns" THEN Failed(u, "cleanup") ELSE Ask(u, First(u))

SetUp(q) ==
  LET s == [q EXCEPT !.program = "setup"]
  IN  IF First(s) = "returns" THEN Done(s) ELSE Ask(s, First(s))

\* The program of q has ended: what its call does next.
After(q, end) ==
  CASE q.program = "create"  -> IF end = "returns" THEN SetUp(q)
                                ELSE IF q.at = "drop" THEN Failed(q, Cleaned(q))
                                ELSE Failed(q, IF end = "gaveUp" THEN end ELSE q.at)
    [] q.program = "setup"   -> IF end = "returns" THEN Done(q)
                                ELSE IF q.at = "user" THEN Failed(q, "user") ELSE Undo(q)
    [] q.program = "destroy" -> IF q.op = "create" THEN Failed(q, Cleaned(q))
                                ELSE IF end = "returns" THEN Done(q) ELSE Failed(q, q.at)
    [] q.program = "get"     -> IF end = "returns" THEN Done(q)
                                ELSE IF end = "missing" THEN Missing(q)
                                ELSE Failed(q, q.at)

\* Call q goes on to step or end next.
Goes(q, next) == IF next \in Steps THEN Ask(q, next) ELSE After(q, next)

----------------------------------------------------------------------------
\* The books that two of the adapters keep.

\* Mutant: the port map is dropped whether the box was deleted or not.
PortMapsDropped(q) ==
  IF q.at = "make" /\ q.answer \in BoxLiteRequest THEN known \cup {q.box}
  ELSE IF q.at \in {"drop", "delete"} THEN known \ {q.box}
  ELSE known

PortMaps(q) ==
  IF q.at = "make" /\ q.answer \in BoxLiteRequest THEN known \cup {q.box}
  ELSE IF q.at = "drop" \/ (q.at = "delete" /\ q.answer \in BoxLiteRequest) THEN known \ {q.box}
  ELSE known

Sandboxes(q, next) ==
  IF q.program = "create" /\ next = "returns" THEN known \cup {q.box}
  ELSE IF q.at = "delete" THEN known \ {q.box}
  ELSE known

Books(q, next) ==
  CASE adapter = "boxlite"    -> PortMaps(q)
    [] adapter = "cloudflare" -> Sandboxes(q, next)
    [] OTHER                  -> known

----------------------------------------------------------------------------
Idle(c) == [op |-> "create", program |-> "create", at |-> "idle", box |-> c, answer |-> None,
            wants |-> {}, tries |-> 1, paid |-> FALSE, fault |-> None, late |-> None,
            skill |-> "none"]

Init ==
  /\ adapter \in Adapters
  /\ calls = [c \in Calls |-> Idle(c)]
  /\ cloud = [c \in Calls |-> "none"]
  /\ ran = {} /\ known = {}
  /\ client = IF adapter = "daytona" THEN "none" ELSE "ready"
  /\ skill = "none"

\* What may be asked of create: environment or volumes, a user, skills.
Wants ==
  IF adapter \in {"volume", "db9"} THEN {{}}
  ELSE {{}, {"skills"}, {"user", "skills"}}
       \cup OnlyIf(adapter = "cloudflare", {{"setup"}, {"setup", "skills"}})

\* The books as they are when a call begins.
Begins(c, q) ==
  /\ calls[c].at = "idle"
  /\ calls' = [calls EXCEPT ![c] = Goes(q, First(q))]
  /\ known' = Books(q, First(q))
  /\ client' = IF First(q) = "client" /\ client = "none" THEN "loading" ELSE client
  /\ UNCHANGED <<adapter, cloud, ran>>

\* createDb9Brain asks for the skill as well, unless it is cached.
FetchDb9Skill == IF skill = "cached" THEN "got" ELSE "waiting"

Create(c) ==
  /\ \E wants \in Wants :
       Begins(c, [Idle(c) EXCEPT !.wants = wants,
                                 !.skill = IF adapter = "db9" THEN FetchDb9Skill ELSE "none"])
  /\ skill' = IF adapter = "db9" /\ skill = "none" THEN "inflight" ELSE skill

\* A box whose id its caller knows, from create or from list.
Visible(b) ==
  \/ calls[b].op = "create" /\ calls[b].at = "done"
  \/ IF adapter = "cloudflare" THEN b \in known ELSE cloud[b] \in Alive

Call(c, op) ==
  /\ \E b \in Calls : /\ Visible(b)
                      /\ Begins(c, [Idle(c) EXCEPT !.op = op, !.program = op, !.box = b])
  /\ UNCHANGED skill

Destroy(c) == Call(c, "destroy")
Get(c)     == adapter # "volume" /\ Call(c, "get")

----------------------------------------------------------------------------
\* The answer that call c awaited is there.

\* Promise.all waits for the skill as well.
WaitsForSkill(q) == q.skill = "waiting" /\ q.at = "make" /\ q.answer \in Db9Request

Resume(c) ==
  LET q == calls[c] next == Following(q) IN
  /\ q.at \in Steps
  /\ q.answer \notin {None, "402"}
  /\ ~WaitsForSkill(q)
  /\ calls' = [calls EXCEPT ![c] = Goes(q, next)]
  /\ known' = Books(q, next)
  /\ UNCHANGED <<adapter, cloud, ran, client, skill>>

\* A request that must be paid for is made again, paid.
Pay(c) ==
  /\ calls[c].answer = "402"
  /\ calls' = [calls EXCEPT ![c].answer = None, ![c].paid = TRUE]
  /\ UNCHANGED <<adapter, cloud, ran, known, client, skill>>

\* The timer of E2B's request fires: the server may still be at it.
Abort(c) ==
  /\ adapter = "e2b"
  /\ calls[c].at \in Requests /\ calls[c].answer = None
  /\ calls' = [calls EXCEPT ![c].answer = "error", ![c].late = calls[c].at]
  /\ UNCHANGED <<adapter, cloud, ran, known, client, skill>>

\* The Daytona client is there, or will never be: the promise is kept either way.
ClientLoads(now) ==
  /\ client = "loading"
  /\ client' = now
  /\ UNCHANGED <<adapter, calls, cloud, ran, known, skill>>

HaveClient(c) ==
  /\ calls[c].at = "client" /\ calls[c].answer = None
  /\ client \in {"ready", "broken"}
  /\ calls' = [calls EXCEPT ![c].answer = IF client = "ready" THEN "ok" ELSE "error"]
  /\ UNCHANGED <<adapter, cloud, ran, known, client, skill>>

\* The skill arrives for all that wait for it, or fails all of them, those whose
\* database is still being made included.
Waiting(c) == calls[c].at \in Steps /\ calls[c].skill = "waiting"

SkillArrives ==
  /\ skill = "inflight"
  /\ skill' = "cached"
  /\ calls' = [c \in Calls |-> IF Waiting(c) THEN [calls[c] EXCEPT !.skill = "got"] ELSE calls[c]]
  /\ UNCHANGED <<adapter, cloud, ran, known, client>>

SkillFails ==
  /\ skill = "inflight"
  /\ skill' = "none"
  /\ calls' = [c \in Calls |->
                 IF Waiting(c)
                 THEN [Failed(calls[c], "skill") EXCEPT
                         !.late = IF calls[c].answer = None THEN calls[c].at ELSE None]
                 ELSE calls[c]]
  /\ UNCHANGED <<adapter, cloud, ran, known, client>>

----------------------------------------------------------------------------
Server(c) ==
  /\ \/ Perform(c)
     \/ PerformLate(c)
  /\ UNCHANGED <<adapter, known, client, skill>>

World(b) ==
  /\ \/ Boots(b)
     \/ Stops(b)
     \/ Vanishes(b)
  /\ UNCHANGED <<adapter, known, client, skill>>

Next ==
  \/ \E c \in Calls : Create(c) \/ Destroy(c) \/ Get(c) \/ Resume(c) \/ Pay(c) \/ Abort(c)
                      \/ HaveClient(c) \/ Server(c) \/ World(c)
  \/ ClientLoads("ready")
  \/ ClientLoads("broken")
  \/ SkillArrives
  \/ SkillFails

Spec == Init /\ [][Next]_vars

\* Every request is answered or its connection breaks, promises are resolved in
\* turn; nothing makes a call begin, a box boot, a timer fire.
Fairness ==
  /\ \A c \in Calls : WF_vars(Resume(c)) /\ WF_vars(Pay(c)) /\ WF_vars(HaveClient(c))
                      /\ WF_vars(Perform(c) /\ UNCHANGED <<adapter, known, client, skill>>)
  /\ WF_vars(ClientLoads("ready") \/ ClientLoads("broken"))
  /\ WF_vars(SkillArrives \/ SkillFails)

FairSpec == Spec /\ Fairness

----------------------------------------------------------------------------
\* Properties.

\* Every variable has its type: a call is at a step of its program or has ended.
TypeOK ==
  /\ adapter \in Adapters
  /\ calls \in [Calls -> [op      : {"create", "destroy", "get"},
                          program : {"create", "setup", "destroy", "get"},
                          at      : Steps \cup {"idle", "done", "failed", "missing"},
                          box     : Calls,
                          answer  : Answers \cup {None},
                          wants   : SUBSET {"setup", "user", "skills"},
                          tries   : 1..MaxTries,
                          paid    : BOOLEAN,
                          fault   : Steps \cup {"gaveUp", "cleaned", "cleanup", "skill", None},
                          late    : Requests \cup {None},
                          skill   : {"none", "waiting", "got"}]]
  /\ cloud \in [Calls -> States]
  /\ ran \in SUBSET Calls /\ known \in SUBSET Calls
  /\ client \in {"none", "loading", "ready", "broken"}
  /\ skill \in {"none", "inflight", "cached"}

Created(c) == calls[c].op = "create" /\ calls[c].at = "done"

\* Where a failure is followed by no clean-up: the make itself (its answer was
\* lost), the user (provider.ts destroys the box only when the skills fail), and
\* what an adapter awaits after its make outside of any clean-up.
Unguarded ==
  {"make", "user", "skill"}
  \cup (CASE adapter = "flyio"      -> {"wait", "look"}
          [] Aio                    -> {"start", "gaveUp"}
          [] adapter = "cloudflare" -> {"prepare"}
          [] adapter = "boxlite"    -> {"start", "look"}
          [] adapter = "volume"     -> {"look", "gaveUp"}
          [] OTHER                  -> {})

\* A create that failed leaves a box behind only if it failed at one of those
\* steps, or if its clean-up failed: whatever destroys, stops and late answers
\* came between, a box is removed when injecting skills, the schema of a brain
\* or the wait for a BoxLite box fails (provider.ts:214, boxlite/adapter.ts:238).
LeftOnlyWhere ==
  \A c \in Calls : calls[c].op = "create" /\ calls[c].at = "failed" /\ cloud[c] \in Alive
                     => calls[c].fault \in Unguarded \cup {"cleanup"}

\* Where a destroy throws although its answer says that there is no box: a 404 is
\* an error to microsandbox and db9, and a success without a body is one where
\* the body is parsed as JSON all the same (on Sandbank Cloud: once it was paid for).
Complains(q) ==
  \/ q.answer = "absent" /\ adapter \in {"microsandbox", "db9"}
  \/ q.answer = "empty"  /\ adapter \in {"microsandbox", "daytonaRest", "volume", "cloud"}

\* What a call tells its caller of a box is so.  That it is gone (destroy resolved,
\* or get threw SandboxNotFoundError) is true, save where the code takes another
\* error for it: any at all on Cloudflare, the words "404" or "not found" in a
\* message of the adapters that match text, a state change under way on Daytona.
\* And a destroy whose request was answered "deleted" or "no such box", after
\* whatever other destroys, does not throw, save where Complains.
GoneIsGone ==
  \A c \in Calls :
    LET q == calls[c] IN
    /\ TellsGone(q.op, q.at) /\ cloud[q.box] \in Alive
       => \/ adapter = "cloudflare"
          \/ q.answer = "rumour" /\ (Daytona \/ adapter \in {"flyio", "boxlite", "cloud"})
          \/ q.answer = "busy" /\ adapter \in {"daytona", "daytonaRest"}
    /\ q.op = "destroy" /\ q.at = "failed" /\ q.answer \in {"ok", "empty", "absent"} => Complains(q)

\* "Idempotent: one that is destroyed already is no error" (core/src/types.ts:19, and
\* of db9 at client.ts:34): a destroy is never answered with an error because the
\* box is not there any more, when another destroy of it has resolved.
DestroyIdempotent ==
  \A c, d \in Calls :
    /\ calls[c].op = "destroy" /\ calls[c].at = "done"
    /\ calls[d].op = "destroy" /\ calls[d].at = "failed" /\ calls[d].box = calls[c].box
    => calls[d].answer # "absent"

\* What create returned has run, or been ready, where its adapter waits for that
\* (flyio, AIO, BoxLite, volumes, brains), however the box fared in between.
ReadyMeansRan ==
  \A c \in Calls :
    Created(c) /\ Waits => c \in ran

\* A box that create returned and that is alive is in its adapter's books: BoxLite
\* has its port map (without it exposePort gives the guest's port for the host's),
\* Cloudflare its record (without it neither get nor destroy reaches it), unless
\* a destroy of it resolved, which on Cloudflare it does whatever happened.
BooksKept ==
  \A c \in Calls :
    Created(c) /\ cloud[c] \in Alive /\ adapter \in {"boxlite", "cloudflare"} =>
      \/ c \in known
      \/ /\ adapter = "cloudflare"
         /\ \E d \in Calls : calls[d].op = "destroy" /\ calls[d].box = c /\ calls[d].at = "done"

\* Every call settles, so that again and again none is under way: polling is
\* bounded, a request is paid for once, whoever waits for a shared client or skill
\* hears of it, and a clean-up comes to an end.
CallsSettle == []<>(\A c \in Calls : calls[c].at \notin Steps)

=============================================================================
