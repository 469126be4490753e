--------------------------- MODULE ProviderProofs ---------------------------
(***************************************************************************)
(* Proofs about createProvider over every adapter, for any number of calls *)
(* and of attempts at polling.                                             *)
(***************************************************************************)
EXTENDS Provider, TLAPS

-----------------------------------------------------------------------------
(* Programs and their steps *)

(* What an adapter awaits before it makes a box, and after it has. *)
Before == IF Daytona THEN {"client"} ELSE IF Aio THEN {"image", "pull"} ELSE {}
Later  == CASE adapter = "flyio"   -> {"wait", "look"}
            [] Aio                 -> {"start", "probe"}
            [] adapter = "boxlite" -> {"start", "look", "drop"}
            [] adapter = "volume"  -> {"look"}
            [] adapter = "db9"     -> {"schema", "drop"}
            [] OTHER               -> {}

CreateSteps  == IF adapter = "cloudflare" THEN {"prepare"} ELSE Before \cup {"make"} \cup Later
DestroySteps == IF adapter = "daytonaRest" THEN {"client", "delete"}
                ELSE IF Daytona THEN {"client", "look", "delete"} ELSE {"delete"}
GetSteps     == IF adapter \in {"cloudflare", "volume"} THEN {}
                ELSE IF Daytona THEN {"client", "look"} ELSE {"look"}

StepsOf(program) ==
  CASE program = "create"  -> CreateSteps
    [] program = "setup"   -> Commands
    [] program = "destroy" -> DestroySteps
    [] program = "get"     -> GetSteps

(* What call c is about, and where in its program it is. *)
Shape(c, q) ==
  /\ q.op = "create" => q.box = c
  /\ q.program = q.op \/ (q.op = "create" /\ q.program \in {"setup", "destroy"} /\ q.at \in Steps)
  /\ q.at \in Steps => q.at \in StepsOf(q.program)
  /\ q.at = "client" => q.answer \in {None, "ok", "error"}
  /\ q.at = "look" => q.answer # "ok"
  /\ q.skill # "none" => q.op = "create"
  /\ q.answer = "402" => q.at \in Requests
  /\ q.at = "idle" => q.op = "create" /\ q.late = None
  /\ q.late # None => adapter \in {"e2b", "db9"}
  /\ q.late = "make" => /\ q.op = "create"
                        /\ \/ q.at = "make" /\ q.answer = "error"
                           \/ q.at = "failed" /\ q.fault \in {"make", "skill"}

-----------------------------------------------------------------------------
(* Boxes and what is said of them *)

(* A create that has not made its box, and one that has.  *)
NotMade(q) ==
  /\ q.op = "create"
  /\ \/ q.at = "idle"
     \/ q.program = "create" /\ q.at \in Before
     \/ q.at = "make" /\ q.answer \in {None, "402"}
     \/ q.late = "make"
     \/ q.at = "failed" /\ q.fault \in Before

Made(q) ==
  /\ q.op = "create"
  /\ \/ q.at = "make" /\ q.answer \in Bodies
     \/ q.program = "create" /\ q.at \in Later
     \/ q.program \in {"setup", "destroy"}
     \/ q.at = "done"

(* Destroy and get are of a box that is, or was. *)
BoxThere(q) ==
  adapter # "cloudflare" =>
    /\ NotMade(q) => cloud[q.box] = "none"
    /\ Made(q) \/ q.op # "create" => cloud[q.box] # "none"

(* An answer that a box is deleted is true, when it comes and afterwards. *)
AnswerTrue(q) ==
  adapter # "cloudflare" \/ q.op = "create" =>
    /\ q.at \in {"delete", "drop"} /\ q.answer \in Bodies \cup {"absent"} => cloud[q.box] \notin Alive
    /\ q.at = "look" /\ q.answer \in Clean => cloud[q.box] \notin Alive

(* Of a create that has failed. *)
FailedWhere(q) ==
  q.op = "create" /\ q.at = "failed" =>
    /\ q.fault \in Unguarded \cup Before \cup {"cleanup", "cleaned"}
    /\ q.fault = "cleaned" => cloud[q.box] \notin Alive

(* What the code takes for the news that a box is gone, and is not. *)
Mistaken(q) ==
  \/ adapter = "cloudflare"
  \/ q.answer = "rumour" /\ (Daytona \/ adapter \in {"flyio", "boxlite", "cloud"})
  \/ q.answer = "busy" /\ adapter \in {"daytona", "daytonaRest"}

(* The answers that say of a box to be deleted that it is not there. *)
SaysGone == {"ok", "empty", "absent"}

ToldTrue(q) ==
  /\ TellsGone(q.op, q.at) => cloud[q.box] \notin Alive \/ Mistaken(q)
  /\ q.op = "destroy" /\ q.at = "failed" /\ q.answer \in SaysGone => Complains(q)

(* Steps that are reached only with a box that has run, and answers that only *)
(* such a box gives.                                                          *)
RanSteps == CASE adapter = "flyio" -> {"look"} [] Aio -> {"probe"} [] adapter = "db9" -> {"schema"}
              [] OTHER -> {}

Shows(q) ==
  \/ q.answer = "running"
  \/ q.at = "wait" /\ q.answer \in Bodies
  \/ Aio /\ q.at = "start" /\ q.answer \in Bodies

Past(q) ==
  /\ q.op = "create"
  /\ \/ q.program = "create" /\ q.at \in RanSteps
     \/ q.program = "setup"
     \/ q.at = "done"

HasRun(q) == Waits /\ ((q.at \in Steps /\ Shows(q)) \/ Past(q)) => q.box \in ran

CallInv(c, q) ==
  Shape(c, q) /\ BoxThere(q) /\ AnswerTrue(q) /\ FailedWhere(q) /\ ToldTrue(q) /\ HasRun(q)

CallsInv ==
  /\ \A c \in Calls : CallInv(c, calls[c])
  /\ \A b \in Calls : Waits /\ cloud[b] = "running" => b \in ran
  /\ skill # "none" => adapter = "db9"


-----------------------------------------------------------------------------
(* Calls as records *)

Faults == Steps \cup {"gaveUp", "cleaned", "cleanup", "skill", None}

CallType == [op      : {"create", "destroy", "get"},
             program : {"create", "setup", "destroy", "get"},
             at      : Steps \cup {"idle", "done", "failed", "missing"},
             box     : Calls,
             answer  : Answers \cup {None},
             wants   : SUBSET {"setup", "user", "skills"},
             tries   : 1 .. MaxTries,
             paid    : BOOLEAN,
             fault   : Faults,
             late    : Requests \cup {None},
             skill   : {"none", "waiting", "got"}]

LEMMA AskIs ==
  ASSUME NEW q \in CallType, NEW step \in Steps, step = q.at => q.tries # MaxTries
  PROVE  /\ Ask(q, step) \in CallType
         /\ Ask(q, step).at = step /\ Ask(q, step).answer = None
         /\ Ask(q, step).op = q.op /\ Ask(q, step).program = q.program /\ Ask(q, step).box = q.box
         /\ Ask(q, step).skill = q.skill
         /\ Ask(q, step).fault = q.fault /\ Ask(q, step).late = q.late
<1>1. MaxTries \in Nat \ {0}
  BY ProviderConstants
<1>2. q.tries \in 1 .. MaxTries
  BY DEF CallType
<1>3. (IF step = q.at THEN q.tries + 1 ELSE 1) \in 1 .. MaxTries
  BY <1>1, <1>2
<1> QED BY <1>3 DEF Ask, CallType

LEMMA SettledIs ==
  ASSUME NEW q \in CallType, NEW how \in {"done", "failed", "missing"}, NEW fault \in Faults
  PROVE  /\ Settled(q, how, fault) \in CallType
         /\ Settled(q, how, fault).at = how
         /\ Settled(q, how, fault).op = q.op /\ Settled(q, how, fault).program = q.op
         /\ Settled(q, how, fault).box = q.box /\ Settled(q, how, fault).late = q.late
         /\ q.op = "create" => Settled(q, how, fault).fault = fault
         /\ Settled(q, how, fault).skill = "none"
         /\ Settled(q, how, fault).answer = IF q.op = "destroy" \/ how = "missing" THEN q.answer ELSE None
<1>1. 1 \in 1 .. MaxTries /\ {} \in SUBSET {"setup", "user", "skills"}
  BY ProviderConstants
<1>2. (IF q.op = "create" THEN fault ELSE None) \in Faults
  BY DEF Faults
<1>3. (IF q.op = "destroy" \/ how = "missing" THEN q.answer ELSE None) \in Answers \cup {None}
  BY DEF CallType
<1>4. /\ q.op \in {"create", "destroy", "get"} /\ how \in Steps \cup {"idle", "done", "failed", "missing"}
      /\ q.op \in {"create", "setup", "destroy", "get"}
  BY DEF CallType
<1>5. Settled(q, how, fault) \in CallType
  <2> DEFINE answer == IF q.op = "destroy" \/ how = "missing" THEN q.answer ELSE None
             reason == IF q.op = "create" THEN fault ELSE None
  <2>1. Settled(q, how, fault) =
          [q EXCEPT !.at = how, !.program = q.op, !.wants = {}, !.tries = 1, !.paid = FALSE,
                    !.skill = "none", !.fault = reason, !.answer = answer]
    BY DEF Settled
  <2>2. answer \in Answers \cup {None} /\ reason \in Faults
    BY <1>2, <1>3
  <2> HIDE DEF answer, reason
  <2> QED BY <1>1, <1>4, <2>1, <2>2 DEF CallType
<1> QED BY <1>5 DEF Settled, CallType

LEMMA ProgramIs ==
  ASSUME NEW q \in CallType, NEW p \in {"create", "setup", "destroy", "get"}
  PROVE  LET s == [q EXCEPT !.program = p] IN
         /\ s \in CallType /\ s.program = p
         /\ s.op = q.op /\ s.at = q.at /\ s.box = q.box /\ s.answer = q.answer
         /\ s.fault = q.fault /\ s.late = q.late /\ s.tries = q.tries /\ s.wants = q.wants
         /\ s.skill = q.skill
BY DEF CallType

-----------------------------------------------------------------------------
(* What the programs do *)

LEMMA FollowingIs ==
  ASSUME NEW q
  PROVE  \/ Following(q) = "throws" /\ \A r \in Rows(q) : ~(r.step = q.at /\ q.answer \in r.when)
         \/ \E r \in Rows(q) :
              /\ r.step = q.at /\ q.answer \in r.when
              /\ Following(q) = IF r.next = q.at /\ q.tries = MaxTries THEN r.last ELSE r.next
BY DEF Following

LEMMA FirstIs ==
  ASSUME adapter \in Kinds, NEW q
  PROVE  /\ q.program = "setup" => First(q) \in {"user", "mkdir", "returns"}
         /\ q.program = "create" =>
              IF adapter = "cloudflare" THEN First(q) \in {"prepare", "returns"}
              ELSE First(q) \in Before \cup {"make"}
         /\ q.program = "destroy" =>
              \/ First(q) \in {"client", "delete"} /\ First(q) \in DestroySteps
              \/ First(q) = "returns" /\ adapter = "cloudflare"
         /\ q.program = "get" /\ adapter # "volume" =>
              IF adapter = "cloudflare" THEN First(q) \in {"returns", "missing"}
              ELSE First(q) \in GetSteps
<1> USE DEF Daytona, Aio
<1>1. ASSUME q.program = "setup" PROVE First(q) \in {"user", "mkdir", "returns"}
  BY <1>1 DEF First
<1>2. ASSUME q.program # "setup", adapter = "cloudflare" PROVE First(q) = CloudflareFirst(q)
  BY <1>2 DEF First
<1>3. ASSUME q.program # "setup", Daytona PROVE First(q) = "client"
  BY <1>3 DEF First
<1>4. ASSUME q.program = "create", adapter # "cloudflare", ~Daytona
      PROVE  First(q) = IF Aio THEN "image" ELSE "make"
  BY <1>4 DEF First
<1>5. ASSUME q.program = "destroy", adapter # "cloudflare", ~Daytona PROVE First(q) = "delete"
  BY <1>5 DEF First
<1>6. ASSUME q.program = "get", adapter # "cloudflare", ~Daytona PROVE First(q) = "look"
  BY <1>6 DEF First
<1>7. ASSUME q.program = "create"
      PROVE  IF adapter = "cloudflare" THEN First(q) \in {"prepare", "returns"}
             ELSE First(q) \in Before \cup {"make"}
  BY <1>2, <1>3, <1>4, <1>7 DEF CloudflareFirst, Before
<1>8. ASSUME q.program = "destroy"
      PROVE  \/ First(q) \in {"client", "delete"} /\ First(q) \in DestroySteps
             \/ First(q) = "returns" /\ adapter = "cloudflare"
  BY <1>2, <1>3, <1>5, <1>8 DEF CloudflareFirst, DestroySteps
<1>9. ASSUME q.program = "get", adapter # "volume"
      PROVE  IF adapter = "cloudflare" THEN First(q) \in {"returns", "missing"}
             ELSE First(q) \in GetSteps
  BY <1>2, <1>3, <1>6, <1>9 DEF CloudflareFirst, GetSteps
<1> QED BY <1>1, <1>7, <1>8, <1>9

(* Where a create goes from a step: where it may fail, what it knows of its  *)
(* box when it goes on.                                                      *)
CreateGoes(q, next) ==
  /\ next \in CreateSteps \cup {"returns", "throws", "gaveUp"}
  /\ next = q.at => q.tries # MaxTries
  /\ next \in {"throws", "gaveUp"} =>
       \/ q.at = "drop"
       \/ next = "gaveUp" /\ "gaveUp" \in Unguarded
       \/ next = "throws" /\ q.at \in Unguarded \cup Before
  /\ q.at = "drop" => next = "throws"
  /\ q.at = "make" => /\ next # "gaveUp"
                      /\ q.answer = "error" => next = "throws"
  /\ adapter # "cloudflare" =>
       /\ next \in Before \cup {"make"} => q.at \in Before
       /\ next \in Later \cup {"returns"} =>
            q.at \in Later \/ (q.at = "make" /\ q.answer \in Bodies)
  /\ Waits /\ next \in RanSteps \cup {"returns"} => q.at \in RanSteps \/ Shows(q)

LEMMA CreateFollows ==
  ASSUME adapter \in Kinds, NEW q \in CallType, q.program = "create", q.at \in CreateSteps,
         q.answer \in Answers
  PROVE  CreateGoes(q, Following(q))
<1> DEFINE next == Following(q)
<1> USE DEF CreateGoes, Row, Poll, Bodies, Alive
<1>0. Rows(q) = CreateRows(q)
  BY DEF Rows
<1>1. CASE adapter = "flyio"
  <2>1. Rows(q) = FlyioCreate
    BY <1>0, <1>1 DEF CreateRows
  <2>2. \/ next = "throws"
        \/ q.at = "make" /\ q.answer \in Bodies /\ next = "wait"
        \/ q.at = "wait" /\ q.answer \in Bodies /\ next = "look"
        \/ q.at = "look" /\ next = "returns"
    BY <2>1, FollowingIs DEF FlyioCreate, FlyioRequest
  <2>3. Before = {} /\ Later = {"wait", "look"} /\ RanSteps = {"look"} /\ CreateSteps = {"make", "wait", "look"}
    BY <1>1 DEF Before, Later, RanSteps, CreateSteps, Daytona, Aio
  <2> QED BY <1>1, <2>2, <2>3 DEF Unguarded, Shows, Aio
<1>2. CASE Aio
  <2>1. Rows(q) = AioCreate
    BY <1>0, <1>2 DEF CreateRows, Aio
  <2>2. \/ next = "throws" /\ q.at # "probe"
        \/ q.at = "image" /\ next \in {"make", "pull"}
        \/ q.at = "pull" /\ next = "make"
        \/ q.at = "make" /\ q.answer \in Bodies /\ next = "start"
        \/ q.at = "start" /\ q.answer \in Bodies /\ next \in {"probe", "returns"}
        \/ q.at = "probe" /\ next = "returns"
        \/ q.at = "probe" /\ next = "probe" /\ q.tries # MaxTries
        \/ q.at = "probe" /\ next = "gaveUp"
    <3>1. CASE next = "throws" /\ \A r \in Rows(q) : ~(r.step = q.at /\ q.answer \in r.when)
      <4>1. Row("probe", {"ok"}, "returns") \in Rows(q) /\ Poll("probe", Answers \ {"ok"}, "gaveUp") \in Rows(q)
        BY <2>1 DEF AioCreate, WaitHealth
      <4>2. q.at # "probe"
        BY <3>1, <4>1
      <4> QED BY <3>1, <4>2
    <3>2. CASE \E r \in Rows(q) :
                 /\ r.step = q.at /\ q.answer \in r.when
                 /\ next = IF r.next = q.at /\ q.tries = MaxTries THEN r.last ELSE r.next
      BY <2>1, <3>2 DEF AioCreate, EnsureImage, WaitHealth, Docker
    <3> QED BY <3>1, <3>2, FollowingIs
  <2>3. /\ Before = {"image", "pull"} /\ Later = {"start", "probe"} /\ RanSteps = {"probe"}
        /\ CreateSteps = {"image", "pull", "make", "start", "probe"}
        /\ Unguarded = {"make", "user", "skill", "start", "gaveUp"}
    BY <1>2 DEF Before, Later, RanSteps, CreateSteps, Unguarded, Daytona, Aio
  <2> QED BY <1>2, <2>2, <2>3 DEF Shows, Aio
<1>3. CASE adapter = "cloudflare"
  <2>1. Rows(q) = CloudflareCreate
    BY <1>0, <1>3 DEF CreateRows
  <2>2. q.at = "prepare" /\ (next \in {"throws", "returns"} \/ (next = "prepare" /\ q.tries # MaxTries))
    BY <1>3, <2>1, FollowingIs DEF CloudflareCreate, WithRetry, CreateSteps
  <2>3. CreateSteps = {"prepare"} /\ Unguarded = {"make", "user", "skill", "prepare"} /\ ~Waits
    BY <1>3 DEF CreateSteps, Unguarded, Waits, Aio
  <2> QED BY <1>3, <2>2, <2>3
<1>4. CASE adapter = "boxlite"
  <2>1. Rows(q) = BoxLiteCreate
    BY <1>0, <1>4 DEF CreateRows
  <2>2. \/ next = "throws"
        \/ q.at = "make" /\ q.answer \in Bodies /\ next \in {"start", "look"}
        \/ q.at = "start" /\ next = "look"
        \/ q.at = "look" /\ q.answer = "running" /\ next = "returns"
        \/ q.at = "look" /\ next = "look" /\ q.tries # MaxTries
        \/ q.at = "look" /\ next = "drop"
    BY <2>1, FollowingIs DEF BoxLiteCreate, BoxLiteRequest
  <2>3. /\ Before = {} /\ Later = {"start", "look", "drop"} /\ RanSteps = {}
        /\ CreateSteps = {"make", "start", "look", "drop"}
        /\ Unguarded = {"make", "user", "skill", "start", "look"}
    BY <1>4 DEF Before, Later, RanSteps, CreateSteps, Unguarded, Daytona, Aio
  <2> QED BY <1>4, <2>2, <2>3 DEF Shows
<1>5. CASE adapter \in {"daytona", "daytonaRest"}
  <2>1. Rows(q) = DaytonaCreate
    BY <1>0, <1>5 DEF CreateRows
  <2>2. \/ next = "throws"
        \/ q.at = "client" /\ next = "make"
        \/ q.at = "make" /\ q.answer \in Bodies /\ next = "returns"
    BY <2>1, FollowingIs DEF DaytonaCreate, DaytonaClient, DaytonaRequest, Sdk
  <2>3. /\ Before = {"client"} /\ Later = {} /\ CreateSteps = {"client", "make"}
        /\ Unguarded = {"make", "user", "skill"} /\ ~Waits
    BY <1>5 DEF Before, Later, CreateSteps, Unguarded, Waits, Daytona, Aio
  <2> QED BY <1>5, <2>2, <2>3
<1>6. CASE adapter = "volume"
  <2>1. Rows(q) = CreateVolume
    BY <1>0, <1>6 DEF CreateRows
  <2>2. \/ next = "throws"
        \/ q.at = "client" /\ next = "make"
        \/ q.at = "make" /\ q.answer \in Bodies /\ next = "look"
        \/ q.at = "look" /\ q.answer = "running" /\ next = "returns"
        \/ q.at = "look" /\ next = "look" /\ q.tries # MaxTries
        \/ q.at = "look" /\ next = "gaveUp"
    BY <1>6, <2>1, FollowingIs DEF CreateVolume, DaytonaClient, DaytonaRequest
  <2>3. /\ Before = {"client"} /\ Later = {"look"} /\ RanSteps = {}
        /\ CreateSteps = {"client", "make", "look"}
        /\ Unguarded = {"make", "user", "skill", "look", "gaveUp"}
    BY <1>6 DEF Before, Later, RanSteps, CreateSteps, Unguarded, Daytona, Aio
  <2> QED BY <1>6, <2>2, <2>3 DEF Shows
<1>7. CASE adapter \in {"microsandbox", "e2b", "cloud"}
  <2>1. Rows(q) \in {MicrosandboxCreate, E2BCreate, CloudCreate(q.paid)}
    BY <1>0, <1>7 DEF CreateRows
  <2>2. \/ next = "throws"
        \/ q.at = "make" /\ q.answer \in Bodies /\ next = "returns"
    BY <2>1, FollowingIs DEF MicrosandboxCreate, E2BCreate, CloudCreate, MicrosandboxRequest, E2BRequest, X402Fetch
  <2>3. /\ Before = {} /\ Later = {} /\ CreateSteps = {"make"}
        /\ Unguarded = {"make", "user", "skill"} /\ ~Waits
    BY <1>7 DEF Before, Later, CreateSteps, Unguarded, Waits, Daytona, Aio
  <2> QED BY <1>7, <2>2, <2>3
<1>8. CASE adapter = "db9"
  <2>1. Rows(q) = CreateDb9Brain
    BY <1>0, <1>8 DEF CreateRows
  <2>2. \/ next = "throws" /\ q.at # "schema"
        \/ q.at = "make" /\ q.answer = "running" /\ next = "schema"
        \/ q.at = "make" /\ q.answer \in Bodies /\ next = "drop"
        \/ q.at = "schema" /\ next \in {"returns", "drop"}
    <3>1. CASE next = "throws" /\ \A r \in Rows(q) : ~(r.step = q.at /\ q.answer \in r.when)
      <4>1. /\ Row("schema", Db9Request, "returns") \in Rows(q)
            /\ Row("schema", Answers \ Db9Request, "drop") \in Rows(q)
        BY <2>1 DEF CreateDb9Brain
      <4>2. q.at # "schema"
        BY <3>1, <4>1
      <4> QED BY <3>1, <4>2
    <3>2. CASE \E r \in Rows(q) :
                 /\ r.step = q.at /\ q.answer \in r.when
                 /\ next = IF r.next = q.at /\ q.tries = MaxTries THEN r.last ELSE r.next
      BY <2>1, <3>2 DEF CreateDb9Brain
    <3> QED BY <3>1, <3>2, FollowingIs
  <2>3. /\ Before = {} /\ Later = {"schema", "drop"} /\ RanSteps = {"schema"}
        /\ CreateSteps = {"make", "schema", "drop"} /\ Unguarded = {"make", "user", "skill"}
    BY <1>8 DEF Before, Later, RanSteps, CreateSteps, Unguarded, Daytona, Aio
  <2> QED BY <1>8, <2>2, <2>3 DEF Shows
<1> QED BY <1>1, <1>2, <1>3, <1>4, <1>5, <1>6, <1>7, <1>8 DEF Kinds, Aio

(* Where setting up goes. *)
LEMMA SetUpFollows ==
  ASSUME NEW q \in CallType, q.program = "setup", q.at \in Commands
  PROVE  /\ Following(q) \in Commands \cup {"returns", "throws"}
         /\ Following(q) = q.at => q.tries # MaxTries
<1> DEFINE next == Following(q)
<1>1. Rows(q) = SetUpRows(q)
  BY DEF Rows
<1>2. \A r \in Rows(q) : /\ r.next \in Commands \cup {"returns"} /\ r.last = "throws"
  BY <1>1 DEF SetUpRows, SetupSandboxUser, InjectSkills, WriteFileViaExec, WithRetry, OnlyIf, Row, Poll, Commands
<1> QED BY <1>2, FollowingIs DEF Commands

(* Where deleting goes: what its caller is told is what it was told, or one  *)
(* of the mistakes.                                                          *)
DestroyGoes(q, next) ==
  /\ next \in DestroySteps \cup {"returns", "throws"}
  /\ next = q.at => q.tries # MaxTries
  /\ q.at = "client" => next \in Steps \/ q.answer = "error"
  /\ adapter = "cloudflare" => next = "returns"
  /\ next = "returns" =>
       \/ q.at = "delete" /\ q.answer \in Bodies \cup {"absent"}
       \/ q.at = "look" /\ q.answer = "absent"
       \/ Mistaken(q)
  /\ next = "throws" /\ q.answer \in SaysGone =>
       Complains(q) \/ (q.at = "look" /\ q.answer = "ok")

(* A program of one row; and what the end of a longer one says of its rows. *)
LEMMA OneRow ==
  ASSUME NEW q, NEW when, Rows(q) = {Row("delete", when, "returns")}, q.at = "delete"
  PROVE  Following(q) = IF q.answer \in when THEN "returns" ELSE "throws"
<1> DEFINE row == Row("delete", when, "returns")
<1>1. row.step = "delete" /\ row.when = when /\ row.next = "returns"
  BY DEF Row
<1>2. row \in Rows(q) /\ \A r \in Rows(q) : r = row
  OBVIOUS
<1> HIDE DEF row
<1> QED BY <1>1, <1>2, FollowingIs

LEMMA NoRow ==
  ASSUME NEW q, NEW step, NEW when, NEW to, Row(step, when, to) \in Rows(q),
         \A r \in Rows(q) : ~(r.step = q.at /\ q.answer \in r.when)
  PROVE  ~(q.at = step /\ q.answer \in when)
<1> DEFINE row == Row(step, when, to)
<1>1. row.step = step /\ row.when = when /\ row \in Rows(q)
  BY DEF Row
<1> HIDE DEF row
<1> QED BY <1>1

LEMMA DestroyFollows ==
  ASSUME adapter \in Kinds, NEW q \in CallType, q.program = "destroy", q.at \in DestroySteps,
         q.answer \in Answers, q.at = "client" => q.answer \in {"ok", "error"}
  PROVE  DestroyGoes(q, Following(q))
<1> DEFINE next == Following(q)
<1> USE DEF DestroyGoes, Mistaken, Complains, SaysGone, Bodies, Alive
<1>0. Rows(q) = DestroyRows(q)
  BY DEF Rows
<1>1. CASE adapter = "flyio"
  <2> DEFINE when == FlyioRequest \cup FlyioNotFound
  <2>1. Rows(q) = {Row("delete", when, "returns")} /\ q.at = "delete" /\ DestroySteps = {"delete"}
    BY <1>0, <1>1 DEF DestroyRows, DestroySteps, Daytona, FlyioDestroy
  <2>2. /\ q.answer \in when => q.answer \in Bodies \cup {"absent"} \/ Mistaken(q)
        /\ q.answer \in SaysGone /\ q.answer \notin when => Complains(q)
    BY <1>1 DEF FlyioRequest, FlyioNotFound
  <2> HIDE DEF when
  <2>3. Following(q) = IF q.answer \in when THEN "returns" ELSE "throws"
    BY <2>1, OneRow
  <2> QED BY <1>1, <2>1, <2>2, <2>3 DEF Aio
<1>2. CASE Aio
  <2> DEFINE when == Docker \cup {"absent"}
  <2>1. Rows(q) = {Row("delete", when, "returns")} /\ q.at = "delete" /\ DestroySteps = {"delete"}
    BY <1>0, <1>2 DEF DestroyRows, DestroySteps, Daytona, AioDestroy, Aio
  <2>2. /\ q.answer \in when => q.answer \in Bodies \cup {"absent"} \/ Mistaken(q)
        /\ q.answer \in SaysGone /\ q.answer \notin when => Complains(q)
    BY <1>2 DEF Docker
  <2> HIDE DEF when
  <2>3. Following(q) = IF q.answer \in when THEN "returns" ELSE "throws"
    BY <2>1, OneRow
  <2> QED BY <1>2, <2>1, <2>2, <2>3 DEF Aio
<1>3. CASE adapter = "cloudflare"
  <2>1. Rows(q) = {Row("delete", Answers, "returns")} /\ q.at = "delete" /\ DestroySteps = {"delete"}
    BY <1>0, <1>3 DEF DestroyRows, DestroySteps, Daytona, CloudflareDestroy
  <2>2. next = "returns"
    BY <2>1, OneRow
  <2> QED BY <1>3, <2>1, <2>2
<1>4. CASE adapter = "boxlite"
  <2> DEFINE when == BoxLiteRequest \cup BoxLiteNotFound
  <2>1. Rows(q) = {Row("delete", when, "returns")} /\ q.at = "delete" /\ DestroySteps = {"delete"}
    BY <1>0, <1>4 DEF DestroyRows, DestroySteps, Daytona, BoxLiteDestroy
  <2>2. /\ q.answer \in when => q.answer \in Bodies \cup {"absent"} \/ Mistaken(q)
        /\ q.answer \in SaysGone /\ q.answer \notin when => Complains(q)
    BY <1>4 DEF BoxLiteRequest, BoxLiteNotFound
  <2> HIDE DEF when
  <2>3. Following(q) = IF q.answer \in when THEN "returns" ELSE "throws"
    BY <2>1, OneRow
  <2> QED BY <1>4, <2>1, <2>2, <2>3 DEF Aio
<1>5. CASE adapter \in {"daytona", "daytonaRest"}
  <2> DEFINE gone == DaytonaClient \cup DaytonaNotFound \cup StateTransition
  <2>1. /\ Rows(q) = DaytonaDestroy
        /\ DestroySteps = IF adapter = "daytona" THEN {"client", "look", "delete"} ELSE {"client", "delete"}
    BY <1>0, <1>5 DEF DestroyRows, DestroySteps, Daytona
  <2>2. Row("delete", gone, "returns") \in Rows(q)
    BY <2>1 DEF DaytonaDestroy
  <2>3. q.answer \in SaysGone /\ q.answer \notin gone => Complains(q)
    BY <1>5 DEF DaytonaClient, DaytonaRequest, Sdk, DaytonaNotFound, StateTransition
  <2>4. \/ next = "throws" /\ (q.at = "client" => q.answer = "error")
           /\ (q.answer \in SaysGone => Complains(q) \/ q.at = "client")
        \/ q.at = "client" /\ next \in {"look", "delete"} /\ next \in DestroySteps
        \/ q.at = "look" /\ next = "delete"
        \/ q.at = "look" /\ q.answer \in {"absent", "rumour", "busy"} /\ next = "returns"
        \/ q.at = "delete" /\ q.answer \in Bodies \cup {"absent", "rumour", "busy"} /\ next = "returns"
    <3>1. CASE next = "throws" /\ \A r \in Rows(q) : ~(r.step = q.at /\ q.answer \in r.when)
      <4>1. q.at = "delete" => q.answer \notin gone
        BY <2>2, <3>1, NoRow
      <4>2. CASE adapter = "daytona"
        <5>1. /\ Row("client", {"ok"}, "look") \in Rows(q) /\ Row("look", Sdk, "delete") \in Rows(q)
              /\ Row("look", DaytonaNotFound \cup StateTransition, "returns") \in Rows(q)
          BY <2>1, <4>2 DEF DaytonaDestroy, SdkDelete
        <5>2. /\ q.at = "client" => q.answer \notin {"ok"}
              /\ q.at = "look" => q.answer \notin Sdk /\ q.answer \notin DaytonaNotFound \cup StateTransition
          BY <3>1, <5>1, NoRow
        <5> QED BY <2>1, <2>3, <3>1, <4>1, <4>2, <5>2 DEF Sdk, DaytonaNotFound
      <4>3. CASE adapter = "daytonaRest"
        <5>1. Row("client", {"ok"}, "delete") \in Rows(q)
          BY <2>1, <4>3 DEF DaytonaDestroy
        <5>2. q.at = "client" => q.answer \notin {"ok"}
          BY <3>1, <5>1, NoRow
        <5> QED BY <2>1, <2>3, <3>1, <4>1, <4>3, <5>2
      <4> QED BY <1>5, <4>2, <4>3
    <3>2. CASE \E r \in Rows(q) :
                 /\ r.step = q.at /\ q.answer \in r.when
                 /\ next = IF r.next = q.at /\ q.tries = MaxTries THEN r.last ELSE r.next
      BY <1>5, <2>1, <3>2 DEF DaytonaDestroy, SdkDelete, DaytonaClient, DaytonaRequest, Sdk,
           DaytonaNotFound, StateTransition, Row
    <3> QED BY <3>1, <3>2, FollowingIs
  <2> HIDE DEF gone
  <2> QED BY <1>5, <2>1, <2>4 DEF Steps, Requests, Daytona
<1>6. CASE adapter = "volume"
  <2> DEFINE gone == DaytonaClient \cup DaytonaNotFound
  <2>1. Rows(q) = DeleteVolume /\ DestroySteps = {"client", "look", "delete"} /\ Daytona
    BY <1>0, <1>6 DEF DestroyRows, DestroySteps, Daytona
  <2>2. q.answer \in SaysGone /\ q.answer \notin gone => Complains(q)
    BY <1>6 DEF DaytonaClient, DaytonaRequest, DaytonaNotFound
  <2>3. \/ next = "throws" /\ (q.at = "client" => q.answer = "error")
           /\ (q.answer \in SaysGone => Complains(q) \/ q.at = "client" \/ (q.at = "look" /\ q.answer = "ok"))
        \/ q.at = "client" /\ next = "look"
        \/ q.at = "look" /\ next = "delete"
        \/ q.at = "look" /\ next = "look" /\ q.tries # MaxTries
        \/ q.at = "look" /\ q.answer \in {"absent", "rumour"} /\ next = "returns"
        \/ q.at = "delete" /\ q.answer \in Bodies \cup {"absent", "rumour"} /\ next = "returns"
    <3>1. CASE next = "throws" /\ \A r \in Rows(q) : ~(r.step = q.at /\ q.answer \in r.when)
      <4>1. /\ Row("client", {"ok"}, "look") \in Rows(q) /\ Row("delete", gone, "returns") \in Rows(q)
            /\ Row("look", {"absent", "rumour"}, "returns") \in Rows(q)
        BY <2>1 DEF DeleteVolume
      <4>2. /\ q.at = "client" => q.answer \notin {"ok"}
            /\ q.at = "delete" => q.answer \notin gone
            /\ q.at = "look" => q.answer \notin {"absent", "rumour"}
        <5> HIDE DEF gone
        <5> QED BY <3>1, <4>1, NoRow
      <4> HIDE DEF gone
      <4> QED BY <1>6, <2>1, <2>2, <3>1, <4>2
    <3>2. CASE \E r \in Rows(q) :
                 /\ r.step = q.at /\ q.answer \in r.when
                 /\ next = IF r.next = q.at /\ q.tries = MaxTries THEN r.last ELSE r.next
      BY <1>6, <2>1, <3>2 DEF DeleteVolume, DaytonaClient, DaytonaRequest, DaytonaNotFound, Row, Poll
    <3> QED BY <3>1, <3>2, FollowingIs
  <2> HIDE DEF gone
  <2>4. next = "returns" => (q.at = "delete" /\ q.answer \in Bodies \cup {"absent"})
                            \/ (q.at = "look" /\ q.answer = "absent") \/ Mistaken(q)
    BY <2>1, <2>3
  <2>5. next = "throws" /\ q.answer \in SaysGone => Complains(q) \/ (q.at = "look" /\ q.answer = "ok")
    BY <2>3
  <2>6. next \in {"client", "look", "delete", "returns", "throws"} /\ (next = q.at => q.tries # MaxTries)
    BY <2>1, <2>3
  <2>7. q.at = "client" => next \in Steps \/ q.answer = "error"
    BY <2>3 DEF Steps, Requests
  <2> QED BY <1>6, <2>1, <2>4, <2>5, <2>6, <2>7
<1>7. CASE adapter \in {"microsandbox", "e2b", "db9"}
  <2> DEFINE when == CASE adapter = "microsandbox" -> MicrosandboxRequest
                       [] adapter = "e2b" -> E2BRequest \cup {"absent"}
                       [] adapter = "db9" -> Db9Request
  <2>1. Rows(q) = {Row("delete", when, "returns")} /\ q.at = "delete" /\ DestroySteps = {"delete"}
    BY <1>0, <1>7 DEF DestroyRows, DestroySteps, Daytona, MicrosandboxDestroy, E2BDestroy,
        DestroyService
  <2>2. /\ q.answer \in when => q.answer \in Bodies \cup {"absent"} \/ Mistaken(q)
        /\ q.answer \in SaysGone /\ q.answer \notin when => Complains(q)
    BY <1>7 DEF MicrosandboxRequest, E2BRequest, Db9Request
  <2> HIDE DEF when
  <2>3. Following(q) = IF q.answer \in when THEN "returns" ELSE "throws"
    BY <2>1, OneRow
  <2> QED BY <1>7, <2>1, <2>2, <2>3 DEF Aio
<1>8. CASE adapter = "cloud"
  <2> DEFINE when == X402Fetch(q.paid) \cup CloudNotFound
  <2>1. Rows(q) = {Row("delete", when, "returns")} /\ q.at = "delete" /\ DestroySteps = {"delete"}
    BY <1>0, <1>8 DEF DestroyRows, DestroySteps, Daytona, CloudDestroy
  <2>2. /\ q.answer \in when => q.answer \in Bodies \cup {"absent"} \/ Mistaken(q)
        /\ q.answer \in SaysGone /\ q.answer \notin when => Complains(q)
    BY <1>8 DEF X402Fetch, CloudNotFound
  <2> HIDE DEF when
  <2>3. Following(q) = IF q.answer \in when THEN "returns" ELSE "throws"
    BY <2>1, OneRow
  <2> QED BY <1>8, <2>1, <2>2, <2>3 DEF Aio
<1> QED BY <1>1, <1>2, <1>3, <1>4, <1>5, <1>6, <1>7, <1>8 DEF Kinds, Aio

(* Where looking goes. *)
GetGoes(q, next) ==
  /\ next \in GetSteps \cup {"returns", "throws", "missing"}
  /\ next # q.at
  /\ next = "missing" => q.at = "look" /\ (q.answer = "absent" \/ Mistaken(q))

LEMMA GetFollows ==
  ASSUME adapter \in Kinds, NEW q \in CallType, q.program = "get", q.at \in GetSteps
  PROVE  GetGoes(q, Following(q))
<1> DEFINE next == Following(q)
<1> USE DEF GetGoes, Mistaken, Row
<1>0. Rows(q) = GetRows(q) /\ adapter \notin {"cloudflare", "volume"}
  BY DEF Rows, GetSteps
<1>1. CASE adapter \in {"daytona", "daytonaRest"}
  <2>1. Rows(q) = DaytonaGet /\ GetSteps = {"client", "look"} /\ Daytona
    BY <1>0, <1>1 DEF GetRows, GetSteps, Daytona
  <2> QED BY <1>1, <2>1, FollowingIs DEF DaytonaGet, DaytonaNotFound
<1>2. CASE adapter \in {"flyio", "boxlite"}
  <2>1. Rows(q) \in {FlyioGet, BoxLiteGet} /\ GetSteps = {"look"}
    BY <1>0, <1>2 DEF GetRows, GetSteps, Daytona
  <2> QED BY <1>2, <2>1, FollowingIs DEF FlyioGet, BoxLiteGet, FlyioNotFound, BoxLiteNotFound
<1>3. CASE adapter = "cloud"
  <2>1. Rows(q) = CloudGet(q.paid) /\ GetSteps = {"look"}
    BY <1>0, <1>3 DEF GetRows, GetSteps, Daytona
  <2> QED BY <1>3, <2>1, FollowingIs DEF CloudGet, CloudNotFound
<1>4. CASE adapter \in {"aio", "aioProbed", "microsandbox", "e2b", "db9"}
  <2>1. Rows(q) \in {AioGet, MicrosandboxGet, E2BGet, GetService} /\ GetSteps = {"look"}
    BY <1>0, <1>4 DEF GetRows, GetSteps, Daytona
  <2> QED BY <1>4, <2>1, FollowingIs DEF AioGet, MicrosandboxGet, E2BGet, GetService
<1> QED BY <1>0, <1>1, <1>2, <1>3, <1>4 DEF Kinds

LEMMA StepsAre ==
  ASSUME adapter \in Kinds
  PROVE  /\ CreateSteps \subseteq Steps \ {"user", "mkdir", "write", "delete"}
         /\ Commands = {"user", "mkdir", "write"} /\ Commands \subseteq Steps
         /\ DestroySteps \subseteq {"client", "look", "delete"} /\ DestroySteps \subseteq Steps
         /\ GetSteps \subseteq {"client", "look"} /\ GetSteps \subseteq Steps
         /\ Before \subseteq {"client", "image", "pull"}
         /\ Later \subseteq Steps \ {"make", "client", "image", "pull"}
         /\ RanSteps \subseteq Later
         /\ {"make", "user", "skill"} \subseteq Unguarded
         /\ adapter \in {"e2b", "db9"} => Before = {} /\ "client" \notin DestroySteps \cup GetSteps
         /\ adapter = "cloudflare" => DestroySteps = {"delete"} /\ GetSteps = {} /\ ~Waits /\ Before = {}
         /\ Steps = Requests \cup {"client"} /\ "client" \notin Requests
         /\ {"idle", "done", "failed", "missing"} \cap Steps = {}
         /\ "402" \in Answers /\ "error" \in Answers /\ Bodies \subseteq Answers /\ Clean \subseteq Answers
<1> USE DEF Daytona, Aio
<1>1. /\ Steps = Requests \cup {"client"} /\ "client" \notin Requests /\ Commands \subseteq Steps
      /\ {"idle", "done", "failed", "missing"} \cap Steps = {}
      /\ Commands = {"user", "mkdir", "write"}
  BY DEF Steps, Requests, Commands
<1>2. /\ Before \subseteq {"client", "image", "pull"}
      /\ adapter \in {"e2b", "db9"} => Before = {}
      /\ adapter = "cloudflare" => Before = {}
  BY DEF Before
<1>3. Later \subseteq Steps \ {"make", "client", "image", "pull", "user", "mkdir", "write", "delete"}
  BY DEF Later, Steps, Requests, Kinds
<1>4. CreateSteps \subseteq Steps \ {"user", "mkdir", "write", "delete"}
  BY <1>2, <1>3 DEF CreateSteps, Steps, Requests
<1>5. /\ DestroySteps \subseteq {"client", "look", "delete"} /\ GetSteps \subseteq {"client", "look"}
      /\ DestroySteps \subseteq Steps /\ GetSteps \subseteq Steps
      /\ adapter \in {"e2b", "db9"} => "client" \notin DestroySteps \cup GetSteps
      /\ adapter = "cloudflare" => DestroySteps = {"delete"} /\ GetSteps = {}
  BY DEF DestroySteps, GetSteps, Steps, Requests
<1>6. RanSteps \subseteq Later
  BY DEF RanSteps, Later, Kinds
<1>7. {"make", "user", "skill"} \subseteq Unguarded
  BY DEF Unguarded
<1>8. adapter = "cloudflare" => ~Waits
  BY DEF Waits
<1>9. "402" \in Answers /\ "error" \in Answers /\ Bodies \subseteq Answers /\ Clean \subseteq Answers
  BY DEF Answers, Bodies, Clean
<1> QED BY <1>1, <1>2, <1>3, <1>4, <1>5, <1>6, <1>7, <1>8, <1>9

LEMMA NoneIs ==
  /\ None \notin Answers /\ None \notin Requests /\ None \notin Bodies /\ None \notin Clean
  /\ None # "402" /\ None # "absent" /\ None # "running" /\ None # "make"
  /\ None # "ok" /\ None \notin SaysGone
BY CloudConstants DEF Answers, Requests, Bodies, Clean, SaysGone, Alive

-----------------------------------------------------------------------------
(* A call goes on *)

LEMMA AskKeeps ==
  ASSUME adapter \in Kinds, NEW c, NEW q \in CallType, NEW step \in StepsOf(q.program),
         step = q.at => q.tries # MaxTries, q.op = "create" => q.box = c,
         q.program = q.op \/ (q.op = "create" /\ q.program \in {"setup", "destroy"}),
         q.late # None => adapter \in {"e2b", "db9"}, q.late # "make",
         q.skill # "none" => q.op = "create",
         adapter # "cloudflare" =>
           IF q.program = "create" /\ step \in Before \cup {"make"}
           THEN cloud[q.box] = "none" ELSE cloud[q.box] # "none",
         Waits /\ ((q.program = "create" /\ step \in RanSteps) \/ q.program = "setup") => q.box \in ran
  PROVE  Ask(q, step) \in CallType /\ CallInv(c, Ask(q, step))
<1> DEFINE x == Ask(q, step)
<1>1. step \in Steps
  BY StepsAre DEF StepsOf, CallType
<1>2. /\ x \in CallType /\ x.at = step /\ x.answer = None /\ x.op = q.op /\ x.program = q.program
      /\ x.box = q.box /\ x.fault = q.fault /\ x.late = q.late /\ x.skill = q.skill
  BY <1>1, AskIs
<1> HIDE DEF x
<1>3. step \notin {"idle", "done", "failed", "missing"}
  BY <1>1, StepsAre
<1>4. Shape(c, x)
  BY <1>1, <1>2, <1>3, NoneIs DEF Shape
<1>5. BoxThere(x)
  <2>1. NotMade(x) => q.program = "create" /\ step \in Before \cup {"make"}
    <3>1. step = "make" => q.program = "create"
      BY <1>1, StepsAre DEF StepsOf, CallType
    <3> QED BY <1>2, <1>3, <3>1 DEF NotMade
  <2>2. Made(x) \/ x.op # "create" => ~(q.program = "create" /\ step \in Before \cup {"make"})
    BY <1>2, <1>3, NoneIs, StepsAre DEF Made
  <2> QED BY <1>2, <2>1, <2>2 DEF BoxThere
<1>6. AnswerTrue(x) /\ FailedWhere(x) /\ ToldTrue(x)
  BY <1>2, <1>3, NoneIs DEF AnswerTrue, FailedWhere, ToldTrue, TellsGone
<1>7. HasRun(x)
  BY <1>2, <1>3, NoneIs DEF HasRun, Shows, Past
<1> QED BY <1>2, <1>4, <1>5, <1>6, <1>7 DEF CallInv, x

LEMMA SettledKeeps ==
  ASSUME adapter \in Kinds, NEW c, NEW q \in CallType, NEW how \in {"done", "failed", "missing"},
         NEW fault \in Faults, q.op = "create" => q.box = c,
         q.op = "destroy" \/ how = "missing" => q.answer # "402",
         q.late # None => adapter \in {"e2b", "db9"},
         q.late = "make" => q.op = "create" /\ how = "failed" /\ fault \in {"make", "skill"},
         adapter # "cloudflare" =>
           /\ q.late = "make" \/ (q.op = "create" /\ how = "failed" /\ fault \in Before)
                => cloud[q.box] = "none"
           /\ (q.op = "create" /\ how = "done") \/ q.op # "create" => cloud[q.box] # "none",
         q.op = "create" /\ how = "failed" =>
           /\ fault \in Unguarded \cup Before \cup {"cleanup", "cleaned"}
           /\ fault = "cleaned" => cloud[q.box] \notin Alive,
         TellsGone(q.op, how) => cloud[q.box] \notin Alive \/ Mistaken(q),
         q.op = "destroy" /\ how = "failed" /\ q.answer \in SaysGone => Complains(q),
         Waits /\ q.op = "create" /\ how = "done" => q.box \in ran
  PROVE  Settled(q, how, fault) \in CallType /\ CallInv(c, Settled(q, how, fault))
<1> DEFINE x == Settled(q, how, fault)
<1>1. /\ x \in CallType /\ x.at = how /\ x.op = q.op /\ x.program = q.op
      /\ x.box = q.box /\ x.late = q.late
      /\ q.op = "create" => x.fault = fault
      /\ x.skill = "none"
      /\ x.answer = IF q.op = "destroy" \/ how = "missing" THEN q.answer ELSE None
  BY SettledIs
<1> HIDE DEF x
<1>2. how \notin Steps /\ how # "idle" /\ how # "make" /\ how # "client"
  BY StepsAre
<1>3. x.answer # "402"
  BY <1>1, NoneIs
<1>4. Shape(c, x)
  BY <1>1, <1>2, <1>3 DEF Shape
<1>5. BoxThere(x)
  <2>1. how \notin Before \cup Later
    BY <1>2, StepsAre
  <2>2. NotMade(x) => q.late = "make" \/ (q.op = "create" /\ how = "failed" /\ fault \in Before)
    BY <1>1, <1>2, <2>1 DEF NotMade
  <2>3. Made(x) => q.op = "create" /\ how = "done"
    BY <1>1, <1>2, <2>1 DEF Made
  <2> QED BY <1>1, <2>2, <2>3 DEF BoxThere
<1>6. AnswerTrue(x) /\ FailedWhere(x)
  BY <1>1, <1>2 DEF AnswerTrue, FailedWhere
<1>7. ToldTrue(x)
  <2>1. TellsGone(q.op, how) => q.op = "destroy" \/ how = "missing"
    BY DEF TellsGone
  <2> QED BY <1>1, <2>1 DEF ToldTrue, Mistaken, Complains
<1>8. HasRun(x)
  <2>1. how \notin RanSteps
    BY <1>2, StepsAre
  <2> QED BY <1>1, <1>2, <2>1 DEF HasRun, Past
<1> QED BY <1>1, <1>4, <1>5, <1>6, <1>7, <1>8 DEF CallInv, x

(* A create has its box: it is set up. *)
LEMMA SetUpKeeps ==
  ASSUME adapter \in Kinds, NEW c, NEW q \in CallType, q.op = "create", q.box = c,
         q.at \notin Commands, q.answer # "402",
         q.late # None => adapter \in {"e2b", "db9"}, q.late # "make",
         adapter # "cloudflare" => cloud[c] # "none", Waits => c \in ran
  PROVE  SetUp(q) \in CallType /\ CallInv(c, SetUp(q)) /\ SetUp(q).op = "create"
         /\ (SetUp(q).program = "setup" \/ SetUp(q).at = "done")
<1> DEFINE s == [q EXCEPT !.program = "setup"]
<1>1. /\ s \in CallType /\ s.program = "setup" /\ s.op = "create" /\ s.at = q.at /\ s.box = c
      /\ s.answer = q.answer /\ s.late = q.late
  BY ProgramIs
<1>2. First(s) \in {"user", "mkdir", "returns"}
  BY <1>1, FirstIs
<1>3. SetUp(q) = IF First(s) = "returns" THEN Done(s) ELSE Ask(s, First(s))
  BY DEF SetUp
<1> HIDE DEF s
<1>4. CASE First(s) = "returns"
  <2>1. ~TellsGone("create", "done")
    BY DEF TellsGone
  <2>2. Settled(s, "done", None) \in CallType /\ CallInv(c, Settled(s, "done", None))
    BY <1>1, <2>1, SettledKeeps DEF Faults
  <2>3. Settled(s, "done", None).at = "done" /\ Settled(s, "done", None).op = "create"
    BY <1>1, SettledIs DEF Faults
  <2> QED BY <1>3, <1>4, <2>2, <2>3 DEF Done
<1>5. CASE First(s) \in {"user", "mkdir"}
  <2>1. First(s) \in StepsOf(s.program) /\ First(s) # s.at
    BY <1>1, <1>5, StepsAre DEF StepsOf
  <2>2. Ask(s, First(s)) \in CallType /\ CallInv(c, Ask(s, First(s)))
    BY <1>1, <2>1, AskKeeps
  <2>3. Ask(s, First(s)).program = "setup" /\ Ask(s, First(s)).op = "create"
    <3>1. First(s) \in Steps
      BY <1>5, StepsAre
    <3> QED BY <1>1, <2>1, <3>1, AskIs
  <2> QED BY <1>3, <1>5, <2>2, <2>3
<1> QED BY <1>2, <1>4, <1>5

LEMMA CreateAdvances ==
  ASSUME adapter \in Kinds, NEW c, NEW q \in CallType, CallInv(c, q), q.program = "create",
         q.at \in Steps, q.answer \in Answers \ {"402"}
  PROVE  Goes(q, Following(q)) \in CallType /\ CallInv(c, Goes(q, Following(q)))
<1> DEFINE next == Following(q)
<1>1. /\ Shape(c, q) /\ BoxThere(q) /\ AnswerTrue(q) /\ HasRun(q)
      /\ q.op = "create" /\ q.box = c /\ q.at \in CreateSteps
      /\ q.late # None => adapter \in {"e2b", "db9"}
  BY DEF CallInv, Shape, StepsOf, CallType
<1>2. CreateGoes(q, next)
  BY <1>1, CreateFollows
<1>3. q.late = "make" => next = "throws" /\ q.at = "make"
  BY <1>1, <1>2, StepsAre DEF Shape, CreateGoes
<1> HIDE DEF next
<1>4. CASE next \in Steps
  <2>1. next \in CreateSteps
    BY <1>2, <1>4, StepsAre DEF CreateGoes, Steps, Requests
  <2>2. adapter # "cloudflare" =>
          IF next \in Before \cup {"make"} THEN cloud[c] = "none" ELSE cloud[c] # "none"
    <3>1. SUFFICES ASSUME adapter # "cloudflare"
                   PROVE  IF next \in Before \cup {"make"} THEN cloud[c] = "none" ELSE cloud[c] # "none"
      OBVIOUS
    <3>2. CASE next \in Before \cup {"make"}
      BY <1>1, <1>2, <3>1, <3>2 DEF CreateGoes, BoxThere, NotMade
    <3>3. CASE next \notin Before \cup {"make"}
      <4>1. next \in Later
        BY <2>1, <3>1, <3>3 DEF CreateSteps
      <4>2. Made(q)
        BY <1>1, <1>2, <3>1, <4>1 DEF CreateGoes, Made
      <4> QED BY <1>1, <3>1, <3>3, <4>2 DEF BoxThere
    <3> QED BY <3>2, <3>3
  <2>3. Waits /\ next \in RanSteps => c \in ran
    BY <1>1, <1>2 DEF CreateGoes, HasRun, Past
  <2>4. next = q.at => q.tries # MaxTries
    BY <1>2 DEF CreateGoes
  <2>5. q.late # "make"
    BY <1>3, <1>4 DEF Steps, Requests
  <2>7. next \in StepsOf(q.program)
    BY <2>1 DEF StepsOf
  <2>6. Ask(q, next) \in CallType /\ CallInv(c, Ask(q, next))
    BY <1>1, <2>2, <2>3, <2>4, <2>5, <2>7, AskKeeps
  <2> QED BY <1>4, <2>6 DEF Goes, next
<1>5. CASE next = "returns"
  <2>1. adapter # "cloudflare" => cloud[c] # "none"
    <3>1. adapter # "cloudflare" => Made(q)
      BY <1>1, <1>2, <1>5 DEF CreateGoes, Made
    <3> QED BY <1>1, <3>1 DEF BoxThere
  <2>2. Waits => c \in ran
    BY <1>1, <1>2, <1>5 DEF CreateGoes, HasRun, Past
  <2>3. q.at \notin Commands /\ q.late # "make"
    BY <1>1, <1>3, <1>5, StepsAre
  <2>4. SetUp(q) \in CallType /\ CallInv(c, SetUp(q))
    BY <1>1, <2>1, <2>2, <2>3, SetUpKeeps
  <2>5. Goes(q, next) = SetUp(q)
    BY <1>5 DEF Goes, After, Steps, Requests
  <2> QED BY <2>4, <2>5 DEF next
<1>6. CASE next \in {"throws", "gaveUp"}
  <2> DEFINE fault == IF q.at = "drop" THEN Cleaned(q) ELSE IF next = "gaveUp" THEN next ELSE q.at
  <2>1. Goes(q, next) = Settled(q, "failed", fault)
    BY <1>6 DEF Goes, After, Steps, Requests, Failed
  <2>2. fault \in Faults
    BY <1>6 DEF Faults, Cleaned
  <2>3. /\ fault \in Unguarded \cup Before \cup {"cleanup", "cleaned"}
        /\ fault = "cleaned" => cloud[c] \notin Alive
        /\ fault \in Before => q.at \in Before
        /\ q.late = "make" => fault = "make"
    <3>1. CASE q.at = "drop"
      <4>1. q.answer \in Clean => cloud[c] \notin Alive
        BY <1>1, <3>1 DEF AnswerTrue, Clean, Bodies
      <4>2. fault \in {"cleaned", "cleanup"} /\ (fault = "cleaned" => q.answer \in Clean)
        BY <3>1 DEF Cleaned
      <4> QED BY <1>3, <3>1, <4>1, <4>2, StepsAre
    <3>2. CASE q.at # "drop"
      <4>1. fault = IF next = "gaveUp" THEN next ELSE q.at
        BY <3>2
      <4>2. fault # "cleaned"
        BY <4>1, <1>6 DEF Steps, Requests
      <4> QED BY <1>2, <1>3, <1>6, <3>2, <4>1, <4>2, StepsAre DEF CreateGoes
    <3> QED BY <3>1, <3>2
  <2> HIDE DEF fault
  <2>4. adapter # "cloudflare" /\ (q.late = "make" \/ fault \in Before) => cloud[c] = "none"
    BY <1>1, <2>3 DEF BoxThere, NotMade
  <2>5. ~TellsGone(q.op, "failed")
    BY <1>1 DEF TellsGone
  <2>6. Settled(q, "failed", fault) \in CallType /\ CallInv(c, Settled(q, "failed", fault))
    BY <1>1, <2>2, <2>3, <2>4, <2>5, SettledKeeps
  <2> QED BY <2>1, <2>6 DEF next
<1>7. next \in CreateSteps \cup {"returns", "throws", "gaveUp"}
  BY <1>2 DEF CreateGoes
<1> QED BY <1>4, <1>5, <1>6, <1>7, StepsAre

LEMMA SetUpAdvances ==
  ASSUME adapter \in Kinds, NEW c, NEW q \in CallType, CallInv(c, q), q.program = "setup",
         q.at \in Steps, q.answer \in Answers \ {"402"}
  PROVE  Goes(q, Following(q)) \in CallType /\ CallInv(c, Goes(q, Following(q)))
<1> DEFINE next == Following(q)
<1>1. /\ Shape(c, q) /\ BoxThere(q) /\ HasRun(q)
      /\ q.op = "create" /\ q.box = c /\ q.at \in Commands
      /\ q.late # None => adapter \in {"e2b", "db9"}
  BY DEF CallInv, Shape, StepsOf, CallType
<1>2. /\ adapter # "cloudflare" => cloud[c] # "none"
      /\ Waits => c \in ran
      /\ q.late # "make"
  BY <1>1, StepsAre DEF BoxThere, Made, HasRun, Past, Shape
<1>3. next \in Commands \cup {"returns", "throws"} /\ (next = q.at => q.tries # MaxTries)
  BY <1>1, SetUpFollows
<1> HIDE DEF next
<1>4. CASE next \in Commands
  <2>1. next \in StepsOf(q.program) /\ next \in Steps
    BY <1>4, StepsAre DEF StepsOf
  <2>2. Ask(q, next) \in CallType /\ CallInv(c, Ask(q, next))
    BY <1>1, <1>2, <1>3, <2>1, AskKeeps
  <2> QED BY <2>1, <2>2 DEF Goes, next
<1>5. CASE next = "returns"
  <2>1. Goes(q, next) = Settled(q, "done", None)
    BY <1>5 DEF Goes, After, Done, Steps, Requests
  <2>2. ~TellsGone(q.op, "done")
    BY <1>1 DEF TellsGone
  <2>3. Settled(q, "done", None) \in CallType /\ CallInv(c, Settled(q, "done", None))
    BY <1>1, <1>2, <2>2, SettledKeeps DEF Faults
  <2> QED BY <2>1, <2>3 DEF next
<1>6. ASSUME NEW fault \in {"user", "cleanup"}, NEW y \in CallType,
             y.op = "create", y.box = c, y.answer = q.answer, y.late = q.late
      PROVE  Settled(y, "failed", fault) \in CallType /\ CallInv(c, Settled(y, "failed", fault))
  <2>1. ~TellsGone(y.op, "failed") /\ fault \notin Before /\ fault \in Faults /\ fault # "cleaned"
    BY <1>6, StepsAre DEF TellsGone, Faults, Steps, Requests
  <2>2. fault \in Unguarded \cup Before \cup {"cleanup", "cleaned"}
    BY <1>6, StepsAre
  <2> QED BY <1>1, <1>2, <1>6, <2>1, <2>2, SettledKeeps
<1>7. CASE next = "throws" /\ q.at = "user"
  <2>1. Goes(q, next) = Settled(q, "failed", "user")
    BY <1>7 DEF Goes, After, Failed, Steps, Requests
  <2> QED BY <1>1, <1>6, <2>1 DEF next
<1>8. CASE next = "throws" /\ q.at # "user"
  <2> DEFINE u == [q EXCEPT !.program = "destroy"]
  <2>1. /\ u \in CallType /\ u.program = "destroy" /\ u.op = "create" /\ u.at = q.at /\ u.box = c
        /\ u.answer = q.answer /\ u.late = q.late
    BY <1>1, ProgramIs
  <2>2. Goes(q, next) = IF First(u) = "returns" THEN Settled(u, "failed", "cleanup") ELSE Ask(u, First(u))
    BY <1>8 DEF Goes, After, Undo, Failed, Steps, Requests
  <2>3. \/ First(u) \in {"client", "delete"} /\ First(u) \in DestroySteps
        \/ First(u) = "returns"
    BY <2>1, FirstIs
  <2> HIDE DEF u
  <2>4. CASE First(u) = "returns"
    BY <1>6, <2>1, <2>2, <2>4 DEF next
  <2>5. CASE First(u) \in {"client", "delete"} /\ First(u) \in DestroySteps
    <3>1. First(u) \in StepsOf(u.program) /\ First(u) # u.at
      BY <1>1, <2>1, <2>5, StepsAre DEF StepsOf
    <3>2. Ask(u, First(u)) \in CallType /\ CallInv(c, Ask(u, First(u)))
      BY <1>1, <1>2, <2>1, <3>1, AskKeeps
    <3> QED BY <2>2, <2>5, <3>2 DEF next
  <2> QED BY <2>3, <2>4, <2>5
<1> QED BY <1>3, <1>4, <1>5, <1>7, <1>8

LEMMA DestroyAdvances ==
  ASSUME adapter \in Kinds, NEW c, NEW q \in CallType, CallInv(c, q), q.program = "destroy",
         q.at \in Steps, q.answer \in Answers \ {"402"}
  PROVE  Goes(q, Following(q)) \in CallType /\ CallInv(c, Goes(q, Following(q)))
<1> DEFINE next == Following(q)
<1>1. /\ Shape(c, q) /\ BoxThere(q) /\ AnswerTrue(q)
      /\ q.op \in {"create", "destroy"} /\ (q.op = "create" => q.box = c) /\ q.at \in DestroySteps
      /\ q.skill # "none" => q.op = "create"
      /\ q.late # None => adapter \in {"e2b", "db9"}
  BY DEF CallInv, Shape, StepsOf, CallType
<1>2. /\ adapter # "cloudflare" => cloud[q.box] # "none"
      /\ q.late # "make"
      /\ q.at = "client" => q.answer \in {"ok", "error"}
  BY <1>1, StepsAre, NoneIs DEF BoxThere, Made, Shape
<1>3. DestroyGoes(q, next)
  BY <1>1, <1>2, DestroyFollows
<1> HIDE DEF next
<1>4. CASE next \in Steps
  <2>1. next \in StepsOf(q.program)
    BY <1>3, <1>4 DEF DestroyGoes, StepsOf, Steps, Requests
  <2>2. next = q.at => q.tries # MaxTries
    BY <1>3 DEF DestroyGoes
  <2>3. Ask(q, next) \in CallType /\ CallInv(c, Ask(q, next))
    BY <1>1, <1>2, <2>1, <2>2, AskKeeps
  <2> QED BY <1>4, <2>3 DEF Goes, next
<1>5. CASE next \notin Steps /\ q.op = "create"
  <2>1. Goes(q, next) = Settled(q, "failed", Cleaned(q))
    BY <1>5 DEF Goes, After, Failed
  <2>2. q.at \in {"look", "delete"} \/ q.answer = "error"
    BY <1>1, <1>3, <1>5, StepsAre DEF DestroyGoes
  <2>3. q.answer \in Clean => cloud[q.box] \notin Alive
    BY <1>1, <1>5, <2>2 DEF AnswerTrue, Clean, Bodies
  <2>4. Cleaned(q) \in {"cleaned", "cleanup"} /\ (Cleaned(q) = "cleaned" => cloud[q.box] \notin Alive)
    BY <2>3 DEF Cleaned
  <2>5. ~TellsGone(q.op, "failed") /\ Cleaned(q) \notin Before /\ Cleaned(q) \in Faults
    BY <1>5, <2>4, StepsAre DEF TellsGone, Faults
  <2>6. Settled(q, "failed", Cleaned(q)) \in CallType /\ CallInv(c, Settled(q, "failed", Cleaned(q)))
    BY <1>1, <1>2, <1>5, <2>4, <2>5, SettledKeeps
  <2> QED BY <2>1, <2>6 DEF next
<1>6. CASE next = "returns" /\ q.op = "destroy"
  <2>1. Goes(q, next) = Settled(q, "done", None)
    BY <1>6 DEF Goes, After, Done, Steps, Requests
  <2>2. cloud[q.box] \notin Alive \/ Mistaken(q)
    <3>1. CASE adapter = "cloudflare"
      BY <3>1 DEF Mistaken
    <3>2. CASE adapter # "cloudflare"
      BY <1>1, <1>3, <1>6, <3>2 DEF DestroyGoes, AnswerTrue, Clean
    <3> QED BY <3>1, <3>2
  <2>3. Settled(q, "done", None) \in CallType /\ CallInv(c, Settled(q, "done", None))
    BY <1>1, <1>2, <1>6, <2>2, SettledKeeps DEF Faults
  <2> QED BY <2>1, <2>3 DEF next
<1>7. CASE next = "throws" /\ q.op = "destroy"
  <2>1. Goes(q, next) = Settled(q, "failed", q.at)
    BY <1>7 DEF Goes, After, Failed, Steps, Requests
  <2>2. ~TellsGone(q.op, "failed") /\ (q.answer \in SaysGone => Complains(q))
    BY <1>1, <1>3, <1>7 DEF TellsGone, DestroyGoes, Shape
  <2>3. Settled(q, "failed", q.at) \in CallType /\ CallInv(c, Settled(q, "failed", q.at))
    BY <1>1, <1>2, <1>7, <2>2, SettledKeeps DEF Faults
  <2> QED BY <2>1, <2>3 DEF next
<1>8. next \in DestroySteps \cup {"returns", "throws"}
  BY <1>3 DEF DestroyGoes
<1> QED BY <1>1, <1>4, <1>5, <1>6, <1>7, <1>8, StepsAre

LEMMA GetAdvances ==
  ASSUME adapter \in Kinds, NEW c, NEW q \in CallType, CallInv(c, q), q.program = "get",
         q.at \in Steps, q.answer \in Answers \ {"402"}
  PROVE  Goes(q, Following(q)) \in CallType /\ CallInv(c, Goes(q, Following(q)))
<1> DEFINE next == Following(q)
<1>1. /\ Shape(c, q) /\ BoxThere(q) /\ AnswerTrue(q)
      /\ q.op = "get" /\ q.at \in GetSteps
      /\ q.skill # "none" => q.op = "create"
      /\ q.late # None => adapter \in {"e2b", "db9"}
  BY DEF CallInv, Shape, StepsOf, CallType
<1>2. /\ adapter # "cloudflare" /\ cloud[q.box] # "none"
      /\ q.late # "make"
  BY <1>1, StepsAre DEF BoxThere, Shape
<1>3. GetGoes(q, next)
  BY <1>1, GetFollows
<1> HIDE DEF next
<1>4. CASE next \in Steps
  <2>1. next \in StepsOf(q.program) /\ next # q.at
    BY <1>3, <1>4 DEF GetGoes, StepsOf, Steps, Requests
  <2>2. Ask(q, next) \in CallType /\ CallInv(c, Ask(q, next))
    BY <1>1, <1>2, <2>1, AskKeeps
  <2> QED BY <1>4, <2>2 DEF Goes, next
<1>5. ASSUME NEW how \in {"done", "failed", "missing"}, NEW fault \in Faults,
             how = "missing" => next = "missing"
      PROVE  Settled(q, how, fault) \in CallType /\ CallInv(c, Settled(q, how, fault))
  <2>1. TellsGone(q.op, how) => cloud[q.box] \notin Alive \/ Mistaken(q)
    BY <1>1, <1>2, <1>3, <1>5 DEF TellsGone, GetGoes, AnswerTrue, Clean
  <2> QED BY <1>1, <1>2, <2>1, SettledKeeps
<1>6. CASE next \notin Steps
  <2>1. Goes(q, next) = IF next = "returns" THEN Settled(q, "done", None)
                        ELSE IF next = "missing" THEN Settled(q, "missing", None)
                        ELSE Settled(q, "failed", q.at)
    BY <1>6 DEF Goes, After, Done, Missing, Failed
  <2>2. None \in Faults /\ q.at \in Faults
    BY DEF Faults
  <2> QED BY <1>5, <2>1, <2>2 DEF next
<1> QED BY <1>4, <1>6

(* A call that has its answer goes on. *)
LEMMA Advances ==
  ASSUME adapter \in Kinds, NEW c, NEW q \in CallType, CallInv(c, q),
         q.at \in Steps, q.answer \in Answers \ {"402"}
  PROVE  Goes(q, Following(q)) \in CallType /\ CallInv(c, Goes(q, Following(q)))
<1>1. q.program \in {"create", "setup", "destroy", "get"}
  BY DEF CallType
<1> QED BY <1>1, CreateAdvances, SetUpAdvances, DestroyAdvances, GetAdvances

-----------------------------------------------------------------------------
(* The cloud moves *)

(* What a request may answer, and do to a box in state s, which is then in t. *)
OutcomeGoes(request, s, answer, t) ==
  /\ answer \in Answers /\ t \in States
  /\ t = "none" => s = "none"
  /\ s = "none" /\ t # "none" => request = "make" \/ adapter = "cloudflare"
  /\ s \notin Alive /\ t \in Alive =>
       request = "make" \/ (adapter = "cloudflare" /\ request \notin {"delete", "drop"})
  /\ request \in {"delete", "drop"} /\ answer \in Bodies \cup {"absent"} => t \notin Alive
  /\ request = "look" /\ answer \in Clean => t \notin Alive
  /\ request = "look" => answer # "ok"
  /\ request = "make" /\ answer \in Bodies => t # "none"
  /\ request = "make" /\ answer = "402" => t = s
  /\ Waits /\ (\/ answer = "running"
               \/ answer \in Bodies /\ (request = "wait" \/ (Aio /\ request = "start")))
       => t = "running"

LEMMA EffectIs ==
  ASSUME adapter \in Kinds, NEW request \in Requests, NEW s \in States,
         request = "look" => adapter # "cloudflare",
         Reached(request, s), NEW o \in Effect(request, s)
  PROVE  OutcomeGoes(request, s, o[1], o[2]) /\ o[1] # "402"
<1> DEFINE answer == o[1]
           t == o[2]
<1>0. /\ request = "make" => o \in Make
      /\ request = "start" => o \in Start
      /\ request = "wait" => o \in OnlyIf(s = "running", {<<"ok", s>>})
      /\ request = "probe" => o \in Probe(s)
      /\ request = "look" => o \in {<<s, s>>}
      /\ request = "prepare" => o \in {<<"ok", "running">>, <<"notReady", "running">>}
  BY DEF Effect, Commands
<1>1. CASE request = "make"
  <2>1. answer = t /\ t \in {"made", "running"}
    BY <1>0, <1>1 DEF Make, OnlyIf
  <2> HIDE DEF answer, t
  <2>2. OutcomeGoes(request, s, answer, t) /\ answer # "402"
    BY <1>1, <2>1 DEF OutcomeGoes, Answers, States, Alive, Bodies, Clean
  <2> QED BY <2>2 DEF answer, t
<1>2. CASE request = "start"
  <2>1. s \in Alive \/ adapter = "cloudflare"
    BY <1>2 DEF Reached
  <2>2. \/ answer = "error" /\ t = "gone"
        \/ answer = "ok" /\ t = "running"
    BY <1>0, <1>2 DEF Start, OnlyIf
  <2> HIDE DEF answer, t
  <2>3. OutcomeGoes(request, s, answer, t) /\ answer # "402"
    BY <1>2, <2>1, <2>2 DEF OutcomeGoes, Answers, States, Alive, Bodies, Clean
  <2> QED BY <2>3 DEF answer, t
<1>3. CASE request = "wait"
  <2>1. answer = "ok" /\ t = "running" /\ s = "running"
    BY <1>0, <1>3 DEF OnlyIf
  <2> HIDE DEF answer, t
  <2>2. OutcomeGoes(request, s, answer, t) /\ answer # "402"
    BY <1>3, <2>1 DEF OutcomeGoes, Answers, States, Alive, Bodies, Clean
  <2> QED BY <2>2 DEF answer, t
<1>4. CASE request = "probe"
  <2>1. answer \in {"ok", "error"} /\ t = s
    BY <1>0, <1>4 DEF Probe, OnlyIf
  <2> HIDE DEF answer, t
  <2>2. OutcomeGoes(request, s, answer, t) /\ answer # "402"
    BY <1>4, <2>1 DEF OutcomeGoes, Answers, States, Alive, Bodies, Clean
  <2> QED BY <2>2 DEF answer, t
<1>5. CASE request = "look"
  <2>1. answer = s /\ t = s /\ s \in Alive
    BY <1>0, <1>5 DEF Reached
  <2> HIDE DEF answer, t
  <2>2. OutcomeGoes(request, s, answer, t) /\ answer # "402"
    BY <1>5, <2>1 DEF OutcomeGoes, Answers, States, Alive, Bodies, Clean
  <2> QED BY <2>2 DEF answer, t
<1>6. CASE request \in {"prepare"} \cup Commands
  <2>1. s \in Alive \/ adapter = "cloudflare"
    BY <1>6 DEF Reached, Commands
  <2>2. answer \in {"ok", "nonzero", "notReady"} /\ (t = s \/ t = "running")
    <3>1. CASE request = "prepare"
      BY <1>0, <3>1
    <3>2. CASE request \in Commands
      <4>1. o \in Command(request, s)
        BY <3>2 DEF Effect, Commands
      <4> QED BY <4>1 DEF Command, OnlyIf
    <3> QED BY <1>6, <3>1, <3>2
  <2>3. t \in Alive
    <3>1. CASE request = "prepare"
      <4>1. t = "running"
        BY <1>0, <3>1
      <4> QED BY <4>1 DEF Alive
    <3>2. CASE request \in Commands
      <4>1. o \in Command(request, s)
        BY <3>2 DEF Effect, Commands
      <4>2. t = IF s \in Alive THEN s ELSE "running"
        BY <4>1 DEF Command, OnlyIf
      <4> QED BY <4>2 DEF Alive
    <3> QED BY <1>6, <3>1, <3>2
  <2>4. adapter = "cloudflare" => ~Waits
    BY StepsAre
  <2> HIDE DEF answer, t
  <2>5. OutcomeGoes(request, s, answer, t) /\ answer # "402"
    BY <1>6, <2>1, <2>2, <2>3 DEF OutcomeGoes, Answers, States, Alive, Bodies, Clean, Commands
  <2> QED BY <2>5 DEF answer, t
<1>7. CASE request \in {"drop", "delete"}
  <2>1. s \in Alive \/ adapter = "cloudflare"
    BY <1>7 DEF Reached
  <2>2. \/ answer = "busy" /\ t = s /\ s = "made"
        \/ answer \in {"ok", "empty"} /\ t = "gone"
    <3>1. o \in Delete(s)
      BY <1>7 DEF Effect, Commands
    <3> QED BY <3>1 DEF Delete
  <2> HIDE DEF answer, t
  <2>3. OutcomeGoes(request, s, answer, t) /\ answer # "402"
    BY <1>7, <2>1, <2>2 DEF OutcomeGoes, Answers, States, Alive, Bodies, Clean
  <2> QED BY <2>3 DEF answer, t
<1>8. CASE request \in {"image", "pull", "schema"}
  <2>1. answer = "ok" /\ t = s
    BY <1>8 DEF Effect, Commands
  <2> HIDE DEF answer, t
  <2>2. OutcomeGoes(request, s, answer, t) /\ answer # "402"
    BY <1>8, <2>1 DEF OutcomeGoes, Answers, States, Alive, Bodies, Clean
  <2> QED BY <2>2 DEF answer, t
<1> QED BY <1>1, <1>2, <1>3, <1>4, <1>5, <1>6, <1>7, <1>8 DEF Requests, Commands

LEMMA OutcomeIs ==
  ASSUME adapter \in Kinds, NEW request \in Requests, NEW s \in States,
         request = "look" => adapter # "cloudflare",
         NEW paid, NEW program, NEW o \in Outcomes(request, s, paid, program)
  PROVE  OutcomeGoes(request, s, o[1], o[2])
<1> DEFINE done == IF Reached(request, s) THEN Effect(request, s) ELSE {<<"absent", s>>}
           kept == {<<"error", s>>}
                   \cup OnlyIf(request = "image", {<<"absent", s>>})
                   \cup OnlyIf(request \in {"look", "delete"} /\ program # "create", {<<"rumour", s>>})
                   \cup OnlyIf(adapter = "cloud" /\ ~paid, {<<"402", s>>})
<1>1. \/ o \in done
      \/ \E d \in done : o = <<"error", d[2]>>
      \/ o \in kept
      \/ o = <<"error", s>>
  BY DEF Outcomes
<1>2. ASSUME NEW d \in done
      PROVE  OutcomeGoes(request, s, d[1], d[2])
  <2>1. CASE Reached(request, s)
    BY <2>1, EffectIs
  <2>2. CASE ~Reached(request, s)
    <3>1. d[1] = "absent" /\ d[2] = s /\ s \notin Alive /\ request # "make"
      BY <2>2 DEF Reached
    <3> QED BY <3>1 DEF OutcomeGoes, Answers, Bodies, Clean, Alive
  <2> QED BY <2>1, <2>2
<1>3. ASSUME NEW answer, NEW t, OutcomeGoes(request, s, answer, t), o = <<"error", t>>
      PROVE  OutcomeGoes(request, s, o[1], o[2])
  <2>1. o[1] = "error" /\ o[2] = t
    BY <1>3
  <2>2. OutcomeGoes(request, s, "error", t)
    BY <1>3 DEF OutcomeGoes, Answers, Bodies, Clean, Alive
  <2> QED BY <2>1, <2>2
<1>4. ASSUME NEW answer \in {"error", "absent", "rumour", "402"}, o = <<answer, s>>,
             answer = "absent" => request = "image"
      PROVE  OutcomeGoes(request, s, o[1], o[2])
  <2>1. o[1] = answer /\ o[2] = s
    BY <1>4
  <2>2. OutcomeGoes(request, s, answer, s)
    BY <1>4 DEF OutcomeGoes, Answers, Bodies, Clean, Alive
  <2> QED BY <2>1, <2>2
<1>5. o \in kept => \E answer \in {"error", "absent", "rumour", "402"} :
                      o = <<answer, s>> /\ (answer = "absent" => request = "image")
  BY DEF OnlyIf
<1> HIDE DEF done, kept
<1> QED BY <1>1, <1>2, <1>3, <1>4, <1>5

-----------------------------------------------------------------------------
(* One step of the system *)

Inv == TypeOK /\ CallsInv

(* The adapter does not change, so nor does what depends on it alone. *)
LEMMA SameAdapter ==
  ASSUME adapter' = adapter
  PROVE  /\ Before' = Before /\ Later' = Later /\ Unguarded' = Unguarded
         /\ CreateSteps' = CreateSteps /\ DestroySteps' = DestroySteps /\ GetSteps' = GetSteps
         /\ RanSteps' = RanSteps /\ Waits' = Waits /\ Aio' = Aio /\ Daytona' = Daytona
<1>1. Aio' = Aio /\ Daytona' = Daytona
  BY DEF Aio, Daytona
<1>2. Before' = Before
  BY <1>1 DEF Before
<1>3. Later' = Later
  BY <1>1 DEF Later
<1>4. Unguarded' = Unguarded
  BY <1>1 DEF Unguarded
<1>5. CreateSteps' = CreateSteps
  BY <1>2, <1>3 DEF CreateSteps
<1>6. DestroySteps' = DestroySteps /\ GetSteps' = GetSteps
  BY <1>1 DEF DestroySteps, GetSteps
<1>7. RanSteps' = RanSteps /\ Waits' = Waits
  BY <1>1 DEF RanSteps, Waits
<1> QED BY <1>1, <1>2, <1>3, <1>4, <1>5, <1>6, <1>7

(* What call d says of its box stays true when the box is not made, nor comes *)
(* back to life.                                                              *)
LEMMA Keeps ==
  ASSUME adapter' = adapter, ran \subseteq ran',
         NEW d, NEW x, calls'[d] = x, CallInv(d, x),
         IF adapter = "cloudflare"
         THEN x.op = "create" /\ cloud'[x.box] \in Alive => cloud[x.box] \in Alive
         ELSE /\ cloud'[x.box] \in Alive => cloud[x.box] \in Alive
              /\ cloud'[x.box] = "none" <=> cloud[x.box] = "none"
  PROVE  CallInv(d, calls[d])'
<1>1. /\ Shape(d, x) /\ BoxThere(x) /\ AnswerTrue(x) /\ FailedWhere(x) /\ ToldTrue(x) /\ HasRun(x)
  BY DEF CallInv
<1>2. Shape(d, calls[d])'
  BY <1>1, SameAdapter DEF Shape, StepsOf
<1>3. BoxThere(calls[d])'
  BY <1>1, SameAdapter DEF BoxThere, NotMade, Made
<1>4. AnswerTrue(calls[d])'
  BY <1>1 DEF AnswerTrue
<1>5. FailedWhere(calls[d])'
  BY <1>1, SameAdapter DEF FailedWhere
<1>6. ToldTrue(calls[d])'
  BY <1>1, SameAdapter DEF ToldTrue, Mistaken, Complains
<1>7. HasRun(calls[d])'
  BY <1>1, SameAdapter DEF HasRun, Shows, Past
<1> QED BY <1>2, <1>3, <1>4, <1>5, <1>6, <1>7 DEF CallInv

LEMMA TypeIs ==
  TypeOK <=> /\ adapter \in Adapters /\ calls \in [Calls -> CallType] /\ cloud \in [Calls -> States]
             /\ ran \in SUBSET Calls /\ known \in SUBSET Calls
             /\ client \in {"none", "loading", "ready", "broken"}
             /\ skill \in {"none", "inflight", "cached"}
BY DEF TypeOK, CallType, Faults

LEMMA IdleIs ==
  ASSUME NEW c \in Calls
  PROVE  /\ Idle(c) \in CallType /\ Idle(c).op = "create" /\ Idle(c).program = "create"
         /\ Idle(c).at = "idle" /\ Idle(c).box = c /\ Idle(c).answer = None /\ Idle(c).late = None
         /\ Idle(c).fault = None /\ Idle(c).skill = "none"
BY ProviderConstants DEF Idle, CallType, Faults

LEMMA InvInit == Init => Inv
<1> SUFFICES ASSUME Init PROVE Inv
  OBVIOUS
<1>1. adapter \in Adapters /\ adapter \in Kinds
  BY CloudConstants DEF Init
<1>2. \A c \in Calls : calls[c] = Idle(c) /\ calls[c] \in CallType
  BY IdleIs DEF Init
<1>3. calls \in [Calls -> CallType]
  BY <1>2 DEF Init
<1>4. TypeOK
  BY <1>1, <1>3, TypeIs DEF Init, States
<1>5. ASSUME NEW c \in Calls PROVE CallInv(c, calls[c])
  <2> DEFINE q == Idle(c)
  <2>1. /\ q.op = "create" /\ q.program = "create" /\ q.at = "idle" /\ q.box = c
        /\ q.answer = None /\ q.late = None
    BY IdleIs
  <2>2. calls[c] = q /\ cloud[c] = "none"
    BY <1>2 DEF Init
  <2> HIDE DEF q
  <2>3. q.at \notin Steps /\ q.at \notin Later /\ q.at \notin RanSteps
    BY <1>1, <2>1, StepsAre
  <2>4. Shape(c, q) /\ AnswerTrue(q) /\ FailedWhere(q) /\ ToldTrue(q)
    BY <2>1, <2>3, NoneIs DEF Shape, AnswerTrue, FailedWhere, ToldTrue, TellsGone
  <2>5. BoxThere(q) /\ HasRun(q)
    BY <2>1, <2>2, <2>3, NoneIs DEF BoxThere, HasRun, Made, Past
  <2> QED BY <2>2, <2>4, <2>5 DEF CallInv
<1>6. \A b \in Calls : cloud[b] # "running"
  BY DEF Init
<1>7. skill = "none"
  BY DEF Init
<1> QED BY <1>4, <1>5, <1>6, <1>7 DEF Inv, CallsInv

(* A step that changes one call only, and no box. *)
LEMMA OneCall ==
  ASSUME Inv, adapter' = adapter, cloud' = cloud, ran' = ran, NEW c \in Calls,
         NEW x \in CallType, CallInv(c, x), calls' = [calls EXCEPT ![c] = x]
  PROVE  calls' \in [Calls -> CallType] /\ \A d \in Calls : CallInv(d, calls[d])'
<1>1. calls \in [Calls -> CallType] /\ \A d \in Calls : CallInv(d, calls[d])
  BY TypeIs DEF Inv, CallsInv
<1>2. ASSUME NEW d \in Calls PROVE CallInv(d, calls[d])'
  <2>1. calls'[d] = IF d = c THEN x ELSE calls[d]
    BY <1>1
  <2>2. CallInv(d, calls'[d])
    BY <1>1, <2>1
  <2> QED BY <2>2, Keeps
<1> QED BY <1>1, <1>2

LEMMA RestKeeps ==
  ASSUME Inv, adapter' = adapter, cloud' = cloud, ran' = ran,
         calls' \in [Calls -> CallType], \A d \in Calls : CallInv(d, calls[d])',
         known' \in SUBSET Calls, client' \in {"none", "loading", "ready", "broken"},
         skill' \in {"none", "inflight", "cached"}, skill' # "none" => adapter = "db9"
  PROVE  Inv'
<1>1. TypeOK'
  <2>1. adapter \in Adapters /\ cloud \in [Calls -> States] /\ ran \in SUBSET Calls
    BY TypeIs DEF Inv
  <2> QED BY <2>1 DEF TypeOK, CallType, Faults
<1>2. CallsInv'
  <2>1. \A b \in Calls : Waits /\ cloud[b] = "running" => b \in ran
    BY DEF Inv, CallsInv
  <2> QED BY <2>1, SameAdapter DEF CallsInv
<1> QED BY <1>1, <1>2 DEF Inv

LEMMA InvIs ==
  ASSUME Inv
  PROVE  /\ adapter \in Kinds
         /\ calls \in [Calls -> CallType] /\ cloud \in [Calls -> States]
         /\ ran \in SUBSET Calls /\ known \in SUBSET Calls
         /\ client \in {"none", "loading", "ready", "broken"}
         /\ skill \in {"none", "inflight", "cached"} /\ (skill # "none" => adapter = "db9")
         /\ \A c \in Calls : calls[c] \in CallType /\ calls[c].box \in Calls /\ CallInv(c, calls[c])
<1>1. TypeOK /\ CallsInv
  BY DEF Inv
<1>2. adapter \in Kinds
  BY <1>1, TypeIs, CloudConstants
<1>3. calls \in [Calls -> CallType] /\ \A q \in CallType : q.box \in Calls
  BY <1>1, TypeIs DEF CallType
<1> QED BY <1>1, <1>2, <1>3, TypeIs DEF CallsInv

(* The books stay a set of boxes. *)
LEMMA BooksAre ==
  ASSUME Inv, NEW q \in CallType, NEW next
  PROVE  Books(q, next) \in SUBSET Calls
<1>1. known \in SUBSET Calls /\ q.box \in Calls
  BY InvIs DEF CallType
<1> QED BY <1>1 DEF Books, PortMaps, Sandboxes

LEMMA ResumeKeeps == ASSUME Inv, NEW c \in Calls, Resume(c) PROVE Inv'
<1> DEFINE q == calls[c]
           x == Goes(q, Following(q))
<1>1. q \in CallType /\ CallInv(c, q) /\ adapter \in Kinds
  BY InvIs
<1>2. q.at \in Steps /\ q.answer \in Answers \ {"402"}
  BY <1>1 DEF Resume, CallType
<1>3. x \in CallType /\ CallInv(c, x)
  BY <1>1, <1>2, Advances
<1>4. /\ calls' = [calls EXCEPT ![c] = x] /\ known' = Books(q, Following(q))
      /\ UNCHANGED <<adapter, cloud, ran, client, skill>>
  BY DEF Resume
<1> HIDE DEF x, q
<1>5. calls' \in [Calls -> CallType] /\ \A d \in Calls : CallInv(d, calls[d])'
  BY <1>3, <1>4, OneCall
<1>6. known' \in SUBSET Calls
  BY <1>1, <1>4, BooksAre
<1> QED BY <1>4, <1>5, <1>6, InvIs, RestKeeps

(* A call begins: at the first step of its program, or, on Cloudflare, at its end. *)
LEMMA BeginKeeps ==
  ASSUME Inv, NEW c \in Calls, NEW q \in CallType, Begins(c, q),
         q.program = q.op, q.at = "idle", q.answer = None, q.late = None, q.op = "create" => q.box = c,
         q.op = "get" => adapter # "volume", q.skill # "none" => q.op = "create",
         adapter # "cloudflare" =>
           IF q.op = "create" THEN cloud[q.box] = "none" ELSE cloud[q.box] # "none",
         skill' \in {"none", "inflight", "cached"}, skill' # "none" => adapter = "db9"
  PROVE  Inv'
<1> DEFINE next == First(q)
           x == Goes(q, next)
<1>1. /\ adapter \in Kinds /\ q.op \in {"create", "destroy", "get"}
      /\ "idle" \notin Steps
  BY InvIs, StepsAre DEF CallType
<1>2. /\ calls' = [calls EXCEPT ![c] = x] /\ known' = Books(q, next)
      /\ client' = IF next = "client" /\ client = "none" THEN "loading" ELSE client
      /\ UNCHANGED <<adapter, cloud, ran>>
  BY DEF Begins
<1>3. \/ next \in StepsOf(q.program) /\ next \in Steps
         /\ (q.op = "create" /\ adapter # "cloudflare" => next \in Before \cup {"make"})
         /\ (adapter = "cloudflare" => q.op # "get")
      \/ adapter = "cloudflare" /\ next = "returns"
      \/ adapter = "cloudflare" /\ next = "missing" /\ q.op = "get"
  <2>1. CASE q.op = "create"
    <3>1. IF adapter = "cloudflare" THEN next \in {"prepare", "returns"} ELSE next \in Before \cup {"make"}
      BY <1>1, <2>1, FirstIs
    <3>2. {"prepare"} \subseteq Steps /\ Before \cup {"make"} \subseteq Steps
      BY <1>1, StepsAre DEF Steps, Requests
    <3>3. IF adapter = "cloudflare" THEN CreateSteps = {"prepare"}
                                    ELSE Before \cup {"make"} \subseteq CreateSteps
      BY DEF CreateSteps
    <3>4. StepsOf(q.program) = CreateSteps
      BY <2>1 DEF StepsOf
    <3> QED BY <2>1, <3>1, <3>2, <3>3, <3>4
  <2>2. CASE q.op = "destroy"
    <3>1. next \in DestroySteps \/ (next = "returns" /\ adapter = "cloudflare")
      BY <1>1, <2>2, FirstIs
    <3> QED BY <1>1, <2>2, <3>1, StepsAre DEF StepsOf
  <2>3. CASE q.op = "get"
    <3>1. IF adapter = "cloudflare" THEN next \in {"returns", "missing"} ELSE next \in GetSteps
      BY <1>1, <2>3, FirstIs
    <3> QED BY <1>1, <2>3, <3>1, StepsAre DEF StepsOf
  <2> QED BY <1>1, <2>1, <2>2, <2>3
<1> HIDE DEF next
<1>4. ASSUME next \in Steps PROVE x \in CallType /\ CallInv(c, x)
  <2>1. next \in StepsOf(q.program) /\ (q.op = "create" /\ adapter # "cloudflare" => next \in Before \cup {"make"})
    BY <1>3, <1>4 DEF Steps, Requests
  <2>2. adapter # "cloudflare" =>
          IF q.program = "create" /\ next \in Before \cup {"make"}
          THEN cloud[q.box] = "none" ELSE cloud[q.box] # "none"
    BY <2>1
  <2>3. ~(Waits /\ ((q.program = "create" /\ next \in RanSteps) \/ q.program = "setup"))
    <3>1. SUFFICES ASSUME Waits, q.op = "create", next \in RanSteps PROVE FALSE
      BY <1>1
    <3>2. adapter # "cloudflare" /\ next \in Later
      BY <1>1, <3>1, StepsAre
    <3> QED BY <1>1, <2>1, <3>1, <3>2, StepsAre
  <2>4. q.late # "make" /\ next # q.at
    BY <1>1, <1>4, NoneIs
  <2>5. Ask(q, next) \in CallType /\ CallInv(c, Ask(q, next))
    BY <1>1, <2>1, <2>2, <2>3, <2>4, AskKeeps
  <2> QED BY <1>4, <2>5 DEF Goes
<1>5. ASSUME adapter = "cloudflare", next \in {"returns", "missing"}, next = "missing" => q.op = "get"
      PROVE  x \in CallType /\ CallInv(c, x)
  <2>1. next \notin Steps /\ q.late # "make" /\ q.answer # "402"
    BY <1>5, NoneIs DEF Steps, Requests
  <2>2. CASE q.op = "create"
    <3>1. ~Waits /\ q.at \notin Commands
      BY <1>1, <1>5, StepsAre
    <3>2. SetUp(q) \in CallType /\ CallInv(c, SetUp(q))
      BY <1>1, <1>5, <2>1, <2>2, <3>1, SetUpKeeps
    <3> QED BY <1>5, <2>1, <2>2, <3>2 DEF Goes, After
  <2>3. CASE q.op # "create"
    <3>1. ASSUME NEW how \in {"done", "missing"}
          PROVE  Settled(q, how, None) \in CallType /\ CallInv(c, Settled(q, how, None))
      BY <1>1, <1>5, <2>1, <2>3, SettledKeeps DEF Mistaken, Faults
    <3>2. x = Settled(q, "done", None) \/ x = Settled(q, "missing", None)
      BY <1>1, <1>5, <2>1, <2>3 DEF Goes, After, Done, Missing
    <3> QED BY <3>1, <3>2
  <2> QED BY <2>2, <2>3
<1>6. x \in CallType /\ CallInv(c, x)
  BY <1>3, <1>4, <1>5
<1> HIDE DEF x
<1>7. calls' \in [Calls -> CallType] /\ \A d \in Calls : CallInv(d, calls[d])'
  BY <1>2, <1>6, OneCall
<1>8. known' \in SUBSET Calls /\ client' \in {"none", "loading", "ready", "broken"}
  BY <1>2, InvIs, BooksAre
<1> QED BY <1>2, <1>7, <1>8, RestKeeps

LEMMA CreateKeeps == ASSUME Inv, NEW c \in Calls, Create(c) PROVE Inv'
<1>1. PICK wants \in Wants :
        Begins(c, [Idle(c) EXCEPT !.wants = wants,
                                  !.skill = IF adapter = "db9" THEN FetchDb9Skill ELSE "none"])
  BY DEF Create
<1>2. wants \in SUBSET {"setup", "user", "skills"}
  BY DEF Wants, OnlyIf
<1> DEFINE s == IF adapter = "db9" THEN FetchDb9Skill ELSE "none"
           q == [Idle(c) EXCEPT !.wants = wants, !.skill = s]
<1>3. s \in {"none", "waiting", "got"}
  BY DEF FetchDb9Skill
<1> HIDE DEF s
<1>4. /\ q \in CallType /\ q.op = "create" /\ q.program = "create" /\ q.at = "idle" /\ q.box = c
      /\ q.answer = None /\ q.late = None
  <2> DEFINE i == Idle(c)
  <2>1. /\ i \in CallType /\ i.op = "create" /\ i.program = "create" /\ i.at = "idle" /\ i.box = c
        /\ i.answer = None /\ i.late = None
    BY IdleIs
  <2>2. q = [i EXCEPT !.wants = wants, !.skill = s]
    OBVIOUS
  <2> HIDE DEF i, q
  <2> QED BY <1>2, <1>3, <2>1, <2>2 DEF CallType
<1>5. calls[c].at = "idle" /\ Begins(c, q)
  BY <1>1 DEF Begins, s
<1> HIDE DEF q
<1>6. adapter # "cloudflare" => cloud[c] = "none"
  <2>1. Shape(c, calls[c]) /\ BoxThere(calls[c])
    BY InvIs DEF CallInv
  <2> QED BY <1>5, <2>1 DEF Shape, BoxThere, NotMade
<1>7. skill' \in {"none", "inflight", "cached"} /\ (skill' # "none" => adapter = "db9")
  BY InvIs DEF Create
<1> QED BY <1>4, <1>5, <1>6, <1>7, BeginKeeps

LEMMA CallKeeps ==
  ASSUME Inv, NEW c \in Calls, NEW op \in {"destroy", "get"}, op = "get" => adapter # "volume",
         Call(c, op)
  PROVE  Inv'
<1>1. PICK b \in Calls : Visible(b) /\ Begins(c, [Idle(c) EXCEPT !.op = op, !.program = op, !.box = b])
  BY DEF Call
<1> DEFINE q == [Idle(c) EXCEPT !.op = op, !.program = op, !.box = b]
<1>2. /\ q \in CallType /\ q.op = op /\ q.program = op /\ q.at = "idle" /\ q.box = b
      /\ q.answer = None /\ q.late = None /\ q.skill = "none"
  <2> DEFINE i == Idle(c)
  <2>1. /\ i \in CallType /\ i.op = "create" /\ i.program = "create" /\ i.at = "idle" /\ i.box = c
        /\ i.answer = None /\ i.late = None /\ i.skill = "none"
    BY IdleIs
  <2>2. q = [i EXCEPT !.op = op, !.program = op, !.box = b]
    OBVIOUS
  <2> HIDE DEF i, q
  <2> QED BY <2>1, <2>2 DEF CallType
<1> HIDE DEF q
<1>3. adapter # "cloudflare" => cloud[b] # "none"
  <2>1. CASE calls[b].op = "create" /\ calls[b].at = "done"
    <3>1. Shape(b, calls[b]) /\ BoxThere(calls[b])
      BY InvIs DEF CallInv
    <3> QED BY <2>1, <3>1 DEF Shape, BoxThere, Made
  <2>2. CASE IF adapter = "cloudflare" THEN b \in known ELSE cloud[b] \in Alive
    BY <2>2 DEF Alive
  <2> QED BY <1>1, <2>1, <2>2 DEF Visible
<1>4. skill' \in {"none", "inflight", "cached"} /\ (skill' # "none" => adapter = "db9")
  BY InvIs DEF Call
<1> QED BY <1>1, <1>2, <1>3, <1>4, BeginKeeps DEF q

(* An answer comes, and decides nothing yet: an error, a request for payment, *)
(* or the Daytona client.                                                     *)
LEMMA AnswerKeeps ==
  ASSUME Inv, NEW c \in Calls, NEW x \in CallType,
         LET q == calls[c] IN
         /\ q.at \in Steps /\ x.at = q.at /\ x.op = q.op /\ x.program = q.program /\ x.box = q.box
         /\ x.skill = q.skill
         /\ q.answer \in {None, "402"}
         /\ \/ x.answer = None /\ x.late = q.late
            \/ q.at = "client" /\ x.answer \in {"ok", "error"} /\ x.late = q.late
            \/ adapter = "e2b" /\ q.at \in Requests /\ x.answer = "error" /\ x.late = q.at
  PROVE  CallInv(c, x)
<1> DEFINE q == calls[c]
<1>1. /\ adapter \in Kinds /\ q \in CallType
      /\ Shape(c, q) /\ BoxThere(q) /\ AnswerTrue(q) /\ HasRun(q)
  BY InvIs DEF CallInv
<1>2. /\ q.at \in Steps /\ x.at = q.at /\ x.op = q.op /\ x.program = q.program /\ x.box = q.box
      /\ x.skill = q.skill
      /\ q.answer \in {None, "402"}
      /\ \/ x.answer = None /\ x.late = q.late
         \/ q.at = "client" /\ x.answer \in {"ok", "error"} /\ x.late = q.late
         \/ adapter = "e2b" /\ q.at \in Requests /\ x.answer = "error" /\ x.late = q.at
  OBVIOUS
<1> HIDE DEF q
<1>3. q.at \notin {"idle", "done", "failed", "missing"} /\ q.at \in StepsOf(q.program) /\ q.late # "make"
  BY <1>1, <1>2, StepsAre, NoneIs DEF Shape
<1>4. q.at = "make" => q.op = "create" /\ q.program = "create"
  BY <1>1, <1>3, StepsAre DEF StepsOf, CallType, Shape
<1>5. x.answer \in {None, "ok", "error"} /\ x.answer # "402"
  BY <1>2, NoneIs
<1>6. Shape(c, x)
  <2>1. /\ x.op = "create" => x.box = c
        /\ x.program = x.op \/ (x.op = "create" /\ x.program \in {"setup", "destroy"} /\ x.at \in Steps)
        /\ x.at \in StepsOf(x.program) /\ x.at # "idle"
    BY <1>1, <1>2, <1>3 DEF Shape
  <2>2. x.late # None => adapter \in {"e2b", "db9"}
    BY <1>1, <1>2 DEF Shape
  <2>3. x.late = "make" => x.op = "create" /\ x.at = "make" /\ x.answer = "error"
    BY <1>2, <1>3, <1>4
  <2>4. (x.at = "look" => x.answer # "ok") /\ (x.skill # "none" => x.op = "create")
    BY <1>1, <1>2, NoneIs DEF Shape
  <2> QED BY <1>5, <2>1, <2>2, <2>3, <2>4 DEF Shape
<1>7. BoxThere(x)
  <2>1. NotMade(x) => NotMade(q)
    BY <1>2, <1>3, <1>4 DEF NotMade
  <2>2. Made(x) => Made(q)
    <3>1. x.at = "make" => x.answer \notin Bodies
      BY <1>2, NoneIs, StepsAre DEF Bodies, Alive
    <3> QED BY <1>2, <1>3, <3>1 DEF Made
  <2> QED BY <1>1, <1>2, <2>1, <2>2 DEF BoxThere
<1>8. AnswerTrue(x) /\ FailedWhere(x) /\ ToldTrue(x)
  <2>1. x.at \in {"delete", "drop", "look"} => x.answer \notin Bodies \cup {"absent"} \cup Clean
    BY <1>2, NoneIs DEF Bodies, Alive, Clean
  <2> QED BY <1>2, <1>3, <2>1 DEF AnswerTrue, FailedWhere, ToldTrue, TellsGone, Clean
<1>9. HasRun(x)
  <2>1. ~Shows(x)
    <3>1. x.answer # "running"
      BY <1>5, NoneIs
    <3>2. x.at \in {"wait", "start"} => x.answer \notin Bodies
      BY <1>2, NoneIs DEF Bodies, Alive
    <3> QED BY <3>1, <3>2 DEF Shows
  <2> QED BY <1>1, <1>2, <2>1 DEF HasRun, Past
<1> QED BY <1>6, <1>7, <1>8, <1>9 DEF CallInv

LEMMA PayKeeps == ASSUME Inv, NEW c \in Calls, Pay(c) PROVE Inv'
<1> DEFINE q == calls[c]
           x == [q EXCEPT !.answer = None, !.paid = TRUE]
<1>1. /\ q \in CallType /\ q.answer = "402" /\ CallInv(c, q) /\ adapter \in Kinds
      /\ UNCHANGED <<adapter, cloud, ran, known, client, skill>>
  BY InvIs DEF Pay
<1>2. calls' = [calls EXCEPT ![c] = x]
  BY InvIs DEF Pay
<1>3. /\ x \in CallType /\ x.at = q.at /\ x.op = q.op /\ x.program = q.program /\ x.box = q.box
      /\ x.skill = q.skill
      /\ x.answer = None /\ x.late = q.late
  BY <1>1 DEF CallType
<1>4. q.at \in Steps
  BY <1>1, StepsAre DEF CallInv, Shape
<1> HIDE DEF x
<1>5. CallInv(c, x)
  BY <1>1, <1>3, <1>4, AnswerKeeps
<1>6. calls' \in [Calls -> CallType] /\ \A d \in Calls : CallInv(d, calls[d])'
  BY <1>1, <1>2, <1>3, <1>5, OneCall
<1> QED BY <1>1, <1>6, InvIs, RestKeeps

LEMMA AbortKeeps == ASSUME Inv, NEW c \in Calls, Abort(c) PROVE Inv'
<1> DEFINE q == calls[c]
           x == [q EXCEPT !.answer = "error", !.late = q.at]
<1>1. /\ q \in CallType /\ q.at \in Requests /\ q.answer = None /\ adapter = "e2b" /\ adapter \in Kinds
      /\ UNCHANGED <<adapter, cloud, ran, known, client, skill>>
  BY InvIs DEF Abort
<1>2. calls' = [calls EXCEPT ![c] = x]
  BY InvIs DEF Abort
<1>3. /\ x \in CallType /\ x.at = q.at /\ x.op = q.op /\ x.program = q.program /\ x.box = q.box
      /\ x.skill = q.skill
      /\ x.answer = "error" /\ x.late = q.at
  BY <1>1 DEF CallType, Answers
<1>4. q.at \in Steps
  BY <1>1, StepsAre
<1> HIDE DEF x
<1>5. CallInv(c, x)
  BY <1>1, <1>3, <1>4, AnswerKeeps
<1>6. calls' \in [Calls -> CallType] /\ \A d \in Calls : CallInv(d, calls[d])'
  BY <1>1, <1>2, <1>3, <1>5, OneCall
<1> QED BY <1>1, <1>6, InvIs, RestKeeps

LEMMA HaveClientKeeps == ASSUME Inv, NEW c \in Calls, HaveClient(c) PROVE Inv'
<1> DEFINE q == calls[c]
           answer == IF client = "ready" THEN "ok" ELSE "error"
           x == [q EXCEPT !.answer = answer]
<1>1. /\ q \in CallType /\ q.at = "client" /\ q.answer = None /\ adapter \in Kinds
      /\ UNCHANGED <<adapter, cloud, ran, known, client, skill>>
  BY InvIs DEF HaveClient
<1>2. calls' = [calls EXCEPT ![c] = x]
  BY InvIs DEF HaveClient
<1>3. answer \in {"ok", "error"}
  OBVIOUS
<1> HIDE DEF answer
<1>4. /\ x \in CallType /\ x.at = q.at /\ x.op = q.op /\ x.program = q.program /\ x.box = q.box
      /\ x.skill = q.skill
      /\ x.answer = answer /\ x.late = q.late
  BY <1>1, <1>3 DEF CallType, Answers
<1>5. q.at \in Steps
  BY <1>1, StepsAre
<1> HIDE DEF x
<1>6. CallInv(c, x)
  BY <1>1, <1>3, <1>4, <1>5, AnswerKeeps
<1>7. calls' \in [Calls -> CallType] /\ \A d \in Calls : CallInv(d, calls[d])'
  BY <1>1, <1>2, <1>4, <1>6, OneCall
<1> QED BY <1>1, <1>7, InvIs, RestKeeps

(* No call changes. *)
LEMMA StillKeeps ==
  ASSUME Inv, adapter' = adapter, calls' = calls, cloud' = cloud, ran' = ran
  PROVE  calls' \in [Calls -> CallType] /\ \A d \in Calls : CallInv(d, calls[d])'
<1>1. calls \in [Calls -> CallType] /\ \A d \in Calls : CallInv(d, calls[d])
  BY InvIs
<1>2. ASSUME NEW d \in Calls PROVE CallInv(d, calls[d])'
  BY <1>1, Keeps
<1> QED BY <1>1, <1>2

LEMMA ClientLoadsKeeps == ASSUME Inv, NEW now \in {"ready", "broken"}, ClientLoads(now) PROVE Inv'
<1>1. client' = now /\ UNCHANGED <<adapter, calls, cloud, ran, known, skill>>
  BY DEF ClientLoads
<1>2. calls' \in [Calls -> CallType] /\ \A d \in Calls : CallInv(d, calls[d])'
  BY <1>1, StillKeeps
<1> QED BY <1>1, <1>2, InvIs, RestKeeps

(* What is said of a call does not depend on its skill. *)
LEMMA SkillIs ==
  ASSUME NEW c, NEW q \in CallType, CallInv(c, q), q.op = "create"
  PROVE  [q EXCEPT !.skill = "got"] \in CallType /\ CallInv(c, [q EXCEPT !.skill = "got"])
<1> DEFINE x == [q EXCEPT !.skill = "got"]
<1>1. /\ x \in CallType /\ x.at = q.at /\ x.op = q.op /\ x.program = q.program /\ x.box = q.box
      /\ x.skill = "got"
      /\ x.answer = q.answer /\ x.late = q.late /\ x.fault = q.fault
  BY DEF CallType
<1> HIDE DEF x
<1>2. /\ Shape(c, q) /\ BoxThere(q) /\ AnswerTrue(q) /\ FailedWhere(q) /\ ToldTrue(q) /\ HasRun(q)
  BY DEF CallInv
<1>3. Shape(c, x) /\ BoxThere(x)
  BY <1>1, <1>2 DEF Shape, BoxThere, NotMade, Made
<1>4. AnswerTrue(x) /\ FailedWhere(x) /\ ToldTrue(x)
  BY <1>1, <1>2 DEF AnswerTrue, FailedWhere, ToldTrue, Mistaken, Complains
<1>5. HasRun(x)
  BY <1>1, <1>2 DEF HasRun, Shows, Past
<1> QED BY <1>1, <1>3, <1>4, <1>5 DEF CallInv, x

LEMMA SkillArrivesKeeps == ASSUME Inv, SkillArrives PROVE Inv'
<1>1. /\ calls' = [c \in Calls |-> IF Waiting(c) THEN [calls[c] EXCEPT !.skill = "got"] ELSE calls[c]]
      /\ skill = "inflight" /\ skill' = "cached"
      /\ UNCHANGED <<adapter, cloud, ran, known, client>>
  BY DEF SkillArrives
<1>2. ASSUME NEW d \in Calls PROVE calls'[d] \in CallType /\ CallInv(d, calls'[d])
  <2>1. calls'[d] = IF Waiting(d) THEN [calls[d] EXCEPT !.skill = "got"] ELSE calls[d]
    BY <1>1
  <2>2. calls[d] \in CallType /\ CallInv(d, calls[d]) /\ (Waiting(d) => calls[d].op = "create")
    BY InvIs DEF CallInv, Shape, Waiting
  <2> QED BY <2>1, <2>2, SkillIs
<1>3. \A d \in Calls : CallInv(d, calls[d])'
  BY <1>1, <1>2, Keeps
<1>4. calls' \in [Calls -> CallType]
  BY <1>1, <1>2
<1> QED BY <1>1, <1>3, <1>4, InvIs, RestKeeps

(* A create that the skill has failed: its request may still be under way. *)
LEMMA SkillFailed ==
  ASSUME adapter = "db9", NEW c, NEW q \in CallType, CallInv(c, q), q.at \in Steps, q.op = "create"
  PROVE  LET x == [Failed(q, "skill") EXCEPT !.late = IF q.answer = None THEN q.at ELSE None]
         IN  x \in CallType /\ CallInv(c, x)
<1> DEFINE late == IF q.answer = None THEN q.at ELSE None
           f == Settled(q, "failed", "skill")
           x == [f EXCEPT !.late = late]
<1>1. /\ adapter \in Kinds /\ Shape(c, q) /\ BoxThere(q)
  BY DEF CallInv, Kinds
<1>2. q.at # "client" /\ q.at \in StepsOf(q.program) /\ q.at \in Requests
  <2>1. q.at \in StepsOf(q.program) /\ q.program \in {"create", "setup", "destroy", "get"}
    BY <1>1 DEF Shape, CallType
  <2>2. "client" \notin CreateSteps
    BY <1>1 DEF CreateSteps, Before, Later, Daytona, Aio
  <2> QED BY <1>1, <2>1, <2>2, StepsAre DEF StepsOf
<1>3. late \in Requests \cup {None}
  BY <1>2
<1>4. "skill" \in Faults /\ ~TellsGone(q.op, "failed")
  BY DEF Faults, TellsGone
<1>5. /\ f \in CallType /\ f.at = "failed" /\ f.op = q.op /\ f.program = q.op /\ f.box = q.box
      /\ (q.op = "create" => f.fault = "skill") /\ f.answer = None
      /\ f.skill = "none"
  BY <1>4, SettledIs
<1>6. late = "make" => q.op = "create" /\ q.at = "make" /\ q.answer = None
  BY <1>1, <1>2, NoneIs, StepsAre DEF StepsOf, CallType, Shape
<1> HIDE DEF late, f
<1>7. /\ x \in CallType /\ x.at = "failed" /\ x.op = q.op /\ x.program = q.op /\ x.box = q.box
      /\ (q.op = "create" => x.fault = "skill") /\ x.answer = None /\ x.late = late
      /\ x.skill = "none"
  BY <1>3, <1>5 DEF CallType
<1> HIDE DEF x
<1>8. Shape(c, x)
  <2>1. q.op = "create" => q.box = c
    BY <1>1 DEF Shape
  <2>2. "failed" \notin Steps
    BY <1>1, StepsAre
  <2> QED BY <1>6, <1>7, <2>1, <2>2, NoneIs DEF Shape
<1>9. BoxThere(x)
  <2>1. Before = {} /\ "failed" \notin Later
    BY <1>1, StepsAre
  <2>2. NotMade(x) => late = "make"
    BY <1>7, <2>1 DEF NotMade
  <2>3. ~Made(x)
    BY <1>1, <1>7, <2>1, StepsAre DEF Made
  <2>4. late = "make" => NotMade(q)
    BY <1>6 DEF NotMade
  <2> QED BY <1>1, <1>7, <2>2, <2>3, <2>4 DEF BoxThere
<1>10. AnswerTrue(x) /\ FailedWhere(x) /\ ToldTrue(x)
  BY <1>1, <1>4, <1>7, StepsAre DEF AnswerTrue, FailedWhere, ToldTrue
<1>11. HasRun(x)
  <2>1. "failed" \notin RanSteps /\ "failed" \notin Steps
    BY <1>1, StepsAre
  <2> QED BY <1>7, <2>1 DEF HasRun, Past
<1>12. [Failed(q, "skill") EXCEPT !.late = IF q.answer = None THEN q.at ELSE None] = x
  BY DEF Failed, x, f, late
<1> QED BY <1>7, <1>8, <1>9, <1>10, <1>11, <1>12 DEF CallInv

LEMMA SkillFailsKeeps == ASSUME Inv, SkillFails PROVE Inv'
<1>1. /\ skill = "inflight" /\ skill' = "none"
      /\ UNCHANGED <<adapter, cloud, ran, known, client>>
  BY DEF SkillFails
<1>2. adapter = "db9"
  BY <1>1, InvIs
<1>3. ASSUME NEW d \in Calls PROVE calls'[d] \in CallType /\ CallInv(d, calls'[d])
  <2>1. calls'[d] = IF Waiting(d)
                    THEN [Failed(calls[d], "skill") EXCEPT
                            !.late = IF calls[d].answer = None THEN calls[d].at ELSE None]
                    ELSE calls[d]
    BY DEF SkillFails
  <2>2. calls[d] \in CallType /\ CallInv(d, calls[d])
    BY InvIs
  <2>3. Waiting(d) => calls[d].at \in Steps /\ calls[d].op = "create"
    BY <2>2 DEF Waiting, CallInv, Shape
  <2> QED BY <1>2, <2>1, <2>2, <2>3, SkillFailed
<1>4. \A d \in Calls : CallInv(d, calls[d])'
  BY <1>1, <1>3, Keeps
<1>5. calls' \in [Calls -> CallType]
  <2>1. DOMAIN calls' = Calls /\ calls' = [d \in Calls |-> calls'[d]]
    BY DEF SkillFails
  <2> QED BY <1>3, <2>1
<1> QED BY <1>1, <1>4, <1>5, InvIs, RestKeeps

-----------------------------------------------------------------------------
(* Steps of the provider *)

(* A step that changes one box. *)
LEMMA OneBox ==
  ASSUME Inv, UNCHANGED <<adapter, known, client, skill>>, NEW b \in Calls, NEW t \in States,
         Becomes(b, t),
         calls' \in [Calls -> CallType], \A d \in Calls : CallInv(d, calls[d])'
  PROVE  Inv'
<1>1. /\ cloud' = [cloud EXCEPT ![b] = t]
      /\ ran' = IF t = "running" /\ Waits THEN ran \cup {b} ELSE ran
  BY DEF Becomes
<1>2. TypeOK'
  <2>1. /\ adapter \in Adapters /\ cloud \in [Calls -> States] /\ ran \in SUBSET Calls
        /\ known \in SUBSET Calls /\ client \in {"none", "loading", "ready", "broken"}
        /\ skill \in {"none", "inflight", "cached"}
    BY TypeIs DEF Inv
  <2>2. cloud' \in [Calls -> States] /\ ran' \in SUBSET Calls
    BY <1>1, <2>1
  <2> QED BY <2>1, <2>2 DEF TypeOK, CallType, Faults
<1>3. \A a \in Calls : Waits' /\ cloud'[a] = "running" => a \in ran'
  <2>1. \A a \in Calls : Waits /\ cloud[a] = "running" => a \in ran
    BY DEF Inv, CallsInv
  <2>2. \A a \in Calls : cloud'[a] = IF a = b THEN t ELSE cloud[a]
    BY <1>1, InvIs
  <2> QED BY <1>1, <2>1, <2>2, SameAdapter
<1>4. skill' # "none" => adapter' = "db9"
  BY InvIs
<1> QED BY <1>2, <1>3, <1>4 DEF Inv, CallsInv

(* What call d says stays true when another makes, or uses, or deletes box b. *)
LEMMA Others ==
  ASSUME Inv, adapter' = adapter, NEW b \in Calls, NEW t \in States, Becomes(b, t),
         NEW d \in Calls, calls'[d] = calls[d],
         IF adapter = "cloudflare"
         THEN calls[d].op = "create" /\ t \in Alive /\ cloud[b] \notin Alive => b # d
         ELSE \/ cloud[b] = "none" /\ b # d
              \/ /\ t \in Alive => cloud[b] \in Alive
                 /\ t = "none" <=> cloud[b] = "none"
  PROVE  CallInv(d, calls[d])'
<1> DEFINE x == calls[d]
<1>1. x \in CallType /\ CallInv(d, x) /\ Shape(d, x) /\ BoxThere(x)
  BY InvIs DEF CallInv
<1>2. ran \subseteq ran' /\ \A a \in Calls : cloud'[a] = IF a = b THEN t ELSE cloud[a]
  BY InvIs DEF Becomes
<1>3. cloud'[x.box] = IF x.box = b THEN t ELSE cloud[x.box]
  BY <1>1, <1>2 DEF CallType
<1>4. x.op = "create" => x.box = d
  BY <1>1 DEF Shape
<1>5. IF adapter = "cloudflare"
      THEN x.op = "create" /\ cloud'[x.box] \in Alive => cloud[x.box] \in Alive
      ELSE /\ cloud'[x.box] \in Alive => cloud[x.box] \in Alive
           /\ cloud'[x.box] = "none" <=> cloud[x.box] = "none"
  BY <1>1, <1>3, <1>4 DEF BoxThere
<1> QED BY <1>1, <1>2, <1>5, Keeps

(* The answer to the request that a call awaits. *)
LEMMA Performed ==
  ASSUME Inv, UNCHANGED <<adapter, known, client, skill>>, NEW c \in Calls,
         NEW t \in States, NEW answer \in Answers,
         calls[c].at \in Requests, calls[c].answer = None,
         calls' = [calls EXCEPT ![c].answer = answer],
         OutcomeGoes(calls[c].at, cloud[calls[c].box], answer, t),
         Becomes(calls[c].box, t)
  PROVE  CallInv(c, calls[c])'
<1> DEFINE q == calls[c]
           x == calls'[c]
<1>1. /\ adapter \in Kinds /\ q \in CallType /\ q.at \in Requests /\ q.answer = None
      /\ Shape(c, q) /\ BoxThere(q) /\ AnswerTrue(q) /\ HasRun(q)
  BY InvIs DEF CallInv
<1>2. /\ x.at = q.at /\ x.op = q.op /\ x.program = q.program /\ x.box = q.box
      /\ x.answer = answer /\ x.late = q.late /\ x.skill = q.skill
  <2>1. x = [q EXCEPT !.answer = answer]
    BY InvIs
  <2> QED BY <1>1, <2>1 DEF CallType
<1>3. cloud'[q.box] = t /\ ran' = IF t = "running" /\ Waits THEN ran \cup {q.box} ELSE ran
  <2>1. q.box \in Calls /\ cloud \in [Calls -> States]
    BY InvIs
  <2> QED BY <2>1 DEF Becomes
<1>4. OutcomeGoes(q.at, cloud[q.box], answer, t)
  OBVIOUS
<1>5. /\ q.at \in Steps /\ q.at \notin {"idle", "done", "failed", "missing", "client"}
      /\ q.at \in StepsOf(q.program) /\ q.late # "make" /\ answer # None
  BY <1>1, StepsAre, NoneIs DEF Shape
<1>6. q.at = "make" => q.op = "create" /\ q.program = "create"
  BY <1>1, <1>5, StepsAre DEF StepsOf, CallType, Shape
<1> HIDE DEF q
<1>7. Shape(c, calls[c])'
  BY <1>1, <1>2, <1>4, <1>5, SameAdapter DEF Shape, StepsOf, OutcomeGoes
<1>8. BoxThere(calls[c])'
  <2>1. SUFFICES ASSUME adapter # "cloudflare"
                 PROVE  /\ NotMade(calls[c])' => t = "none"
                        /\ Made(calls[c])' \/ q.op # "create" => t # "none"
    BY <1>2, <1>3 DEF BoxThere
  <2>2. NotMade(calls[c])' =>
          q.op = "create" /\ ((q.program = "create" /\ q.at \in Before) \/ (q.at = "make" /\ answer = "402"))
    BY <1>2, <1>5, SameAdapter DEF NotMade
  <2>3. Made(calls[c])' => q.op = "create" /\ ((q.at = "make" /\ answer \in Bodies) \/ Made(q))
    BY <1>2, <1>5, SameAdapter DEF Made
  <2>4. q.at \in Before => q.at # "make"
    BY <1>1, StepsAre
  <2>5. NotMade(calls[c])' => cloud[q.box] = "none"
    BY <1>1, <2>1, <2>2 DEF BoxThere, NotMade
  <2>6. Made(q) \/ q.op # "create" => cloud[q.box] # "none"
    BY <1>1, <2>1 DEF BoxThere
  <2> QED BY <1>4, <2>1, <2>2, <2>3, <2>4, <2>5, <2>6 DEF OutcomeGoes
<1>9. AnswerTrue(calls[c])' /\ FailedWhere(calls[c])' /\ ToldTrue(calls[c])'
  <2>1. AnswerTrue(calls[c])'
    BY <1>2, <1>3, <1>4 DEF AnswerTrue, OutcomeGoes
  <2>2. FailedWhere(calls[c])' /\ ToldTrue(calls[c])'
    BY <1>2, <1>5 DEF FailedWhere, ToldTrue, TellsGone
  <2> QED BY <2>1, <2>2
<1>10. HasRun(calls[c])'
  <2>1. SUFFICES ASSUME Waits, Shows(calls[c])' \/ Past(calls[c])' PROVE q.box \in ran'
    BY <1>2, SameAdapter DEF HasRun
  <2>2. CASE Shows(calls[c])'
    <3>1. t = "running"
      BY <1>2, <1>4, <2>1, <2>2, SameAdapter DEF Shows, OutcomeGoes
    <3> QED BY <1>3, <2>1, <3>1
  <2>3. CASE Past(calls[c])'
    <3>1. Past(q)
      BY <1>2, <2>3, SameAdapter DEF Past
    <3> QED BY <1>1, <1>3, <2>1, <3>1 DEF HasRun
  <2> QED BY <2>1, <2>2, <2>3
<1> QED BY <1>7, <1>8, <1>9, <1>10 DEF CallInv

(* A request is answered. *)
LEMMA PerformKeeps ==
  ASSUME Inv, NEW c \in Calls, Perform(c), UNCHANGED <<adapter, known, client, skill>>
  PROVE  Inv'
<1> DEFINE q == calls[c]
<1>1. /\ adapter \in Kinds /\ q \in CallType /\ q.box \in Calls /\ cloud[q.box] \in States
      /\ Shape(c, q) /\ BoxThere(q) /\ calls \in [Calls -> CallType]
  BY InvIs DEF CallInv
<1>2. PICK o \in Outcomes(q.at, cloud[q.box], q.paid, q.program) :
        /\ calls' = [calls EXCEPT ![c].answer = o[1]]
        /\ Becomes(q.box, o[2])
  BY DEF Perform
<1>3. q.at \in Requests /\ q.answer = None
  BY DEF Perform
<1>4. q.at \in Steps /\ q.at \in StepsOf(q.program) /\ q.late # "make"
  BY <1>1, <1>3, StepsAre, NoneIs DEF Shape
<1>5. q.at = "look" => adapter # "cloudflare"
  BY <1>1, <1>4 DEF StepsOf, CallType, CreateSteps, DestroySteps, GetSteps, Commands, Daytona
<1>6. OutcomeGoes(q.at, cloud[q.box], o[1], o[2])
  BY <1>1, <1>3, <1>5, OutcomeIs
<1>7. o[1] \in Answers /\ o[2] \in States
  BY <1>6 DEF OutcomeGoes
<1>8. CallInv(c, calls[c])'
  BY <1>2, <1>3, <1>6, <1>7, Performed
<1>9. calls' \in [Calls -> CallType]
  <2>1. [q EXCEPT !.answer = o[1]] \in CallType
    BY <1>1, <1>7 DEF CallType
  <2>2. calls' = [calls EXCEPT ![c] = [q EXCEPT !.answer = o[1]]]
    BY <1>2
  <2> QED BY <1>1, <2>1, <2>2
<1>10. ASSUME NEW d \in Calls, d # c PROVE CallInv(d, calls[d])'
  <2>1. calls'[d] = calls[d]
    BY <1>1, <1>2, <1>10
  <2>2. q.op = "create" => q.box # d
    BY <1>1, <1>10 DEF Shape
  <2>3. CASE adapter = "cloudflare"
    <3>1. q.op # "create" => q.at = "delete"
      BY <1>1, <1>4, <2>3, StepsAre DEF StepsOf, CallType, Shape
    <3>2. q.at = "make" => q.op = "create"
      BY <3>1
    <3>3. q.op # "create" /\ o[2] \in Alive => cloud[q.box] \in Alive
      BY <1>6, <3>1 DEF OutcomeGoes
    <3> QED BY <1>1, <1>2, <1>7, <2>1, <2>2, <2>3, <3>3, Others
  <2>4. CASE adapter # "cloudflare" /\ q.at = "make"
    <3>1. q.op = "create"
      BY <1>1, <1>4, <2>4, StepsAre DEF StepsOf, CallType, Shape
    <3>2. cloud[q.box] = "none"
      BY <1>1, <1>3, <2>4, <3>1 DEF BoxThere, NotMade
    <3> QED BY <1>1, <1>2, <1>7, <2>1, <2>2, <2>4, <3>1, <3>2, Others
  <2>5. CASE adapter # "cloudflare" /\ q.at # "make"
    <3>1. (o[2] \in Alive => cloud[q.box] \in Alive) /\ (o[2] = "none" <=> cloud[q.box] = "none")
      BY <1>6, <2>5 DEF OutcomeGoes
    <3> QED BY <1>1, <1>2, <1>7, <2>1, <2>5, <3>1, Others
  <2> QED BY <2>3, <2>4, <2>5
<1>11. \A d \in Calls : CallInv(d, calls[d])'
  BY <1>8, <1>10
<1> QED BY <1>1, <1>2, <1>7, <1>9, <1>11, OneBox

(* A request that nobody waits for any more takes effect. *)
LEMMA PerformLateKeeps ==
  ASSUME Inv, NEW c \in Calls, PerformLate(c), UNCHANGED <<adapter, known, client, skill>>
  PROVE  Inv'
<1> DEFINE q == calls[c]
           x == [q EXCEPT !.late = None]
<1>1. /\ adapter \in Kinds /\ q \in CallType /\ q.box \in Calls /\ cloud[q.box] \in States
      /\ Shape(c, q) /\ BoxThere(q) /\ AnswerTrue(q) /\ FailedWhere(q) /\ ToldTrue(q) /\ HasRun(q)
      /\ calls \in [Calls -> CallType] /\ cloud \in [Calls -> States]
  BY InvIs DEF CallInv
<1>2. PICK o \in Outcomes(q.late, cloud[q.box], FALSE, q.program) : Becomes(q.box, o[2])
  BY DEF PerformLate
<1>3. q.late # None /\ q.late \in Requests /\ adapter \in {"e2b", "db9"}
  BY <1>1 DEF PerformLate, Shape, CallType
<1>4. OutcomeGoes(q.late, cloud[q.box], o[1], o[2])
  BY <1>1, <1>3, OutcomeIs
<1>5. o[2] \in States
  BY <1>4 DEF OutcomeGoes
<1>6. calls' = [calls EXCEPT ![c] = x]
  BY <1>1 DEF PerformLate
<1>7. /\ x \in CallType /\ x.at = q.at /\ x.op = q.op /\ x.program = q.program /\ x.box = q.box
      /\ x.skill = q.skill
      /\ x.answer = q.answer /\ x.fault = q.fault /\ x.late = None
  BY <1>1 DEF CallType
<1>8. q.late = "make" => /\ q.op = "create" /\ q.box = c
                         /\ \/ q.at = "make" /\ q.answer = "error"
                            \/ q.at = "failed" /\ q.fault \in {"make", "skill"}
  BY <1>1 DEF Shape
<1> HIDE DEF q, x
<1>9. CallInv(c, x)
  <2>1. Shape(c, x) /\ AnswerTrue(x) /\ FailedWhere(x)
    BY <1>1, <1>7, NoneIs DEF Shape, AnswerTrue, FailedWhere
  <2>2. ToldTrue(x) /\ HasRun(x)
    BY <1>1, <1>7 DEF ToldTrue, Mistaken, Complains, HasRun, Shows, Past
  <2>3. BoxThere(x)
    <3>1. NotMade(x) => NotMade(q)
      BY <1>7, NoneIs DEF NotMade
    <3>2. Made(x) => Made(q)
      BY <1>7 DEF Made
    <3> QED BY <1>1, <1>7, <3>1, <3>2 DEF BoxThere
  <2> QED BY <2>1, <2>2, <2>3 DEF CallInv
<1>10. CASE q.late # "make"
  <2>1. (o[2] \in Alive => cloud[q.box] \in Alive) /\ (o[2] = "none" <=> cloud[q.box] = "none")
    BY <1>3, <1>4, <1>10 DEF OutcomeGoes
  <2>2. CallInv(c, calls[c])'
    <3>1. cloud'[q.box] = o[2] /\ ran \subseteq ran' /\ calls'[c] = x
      BY <1>1, <1>2, <1>6 DEF Becomes
    <3> QED BY <1>3, <1>7, <1>9, <2>1, <3>1, Keeps
  <2>3. ASSUME NEW d \in Calls, d # c PROVE CallInv(d, calls[d])'
    <3>1. calls'[d] = calls[d]
      BY <1>1, <1>6, <2>3
    <3> QED BY <1>1, <1>2, <1>3, <1>5, <2>1, <3>1, Others
  <2>4. calls' \in [Calls -> CallType] /\ \A d \in Calls : CallInv(d, calls[d])'
    BY <1>1, <1>6, <1>7, <2>2, <2>3
  <2> QED BY <1>1, <1>2, <1>5, <2>4, OneBox
<1>11. CASE q.late = "make"
  <2>1. cloud[c] = "none"
    BY <1>1, <1>3, <1>8, <1>11 DEF BoxThere, NotMade
  <2>2. ASSUME NEW d \in Calls, d # c PROVE CallInv(d, calls[d])'
    <3>1. calls'[d] = calls[d] /\ q.box = c
      BY <1>1, <1>6, <1>8, <1>11, <2>2
    <3> QED BY <1>1, <1>2, <1>3, <1>5, <2>1, <2>2, <3>1, Others
  <2>3. CallInv(c, calls[c])'
    <3>1. calls'[c] = x /\ ran \subseteq ran'
      BY <1>1, <1>2, <1>6 DEF Becomes
    <3>2. Shape(c, x) /\ HasRun(x)
      BY <1>9 DEF CallInv
    <3>3. Shape(c, calls[c])'
      BY <3>1, <3>2, SameAdapter DEF Shape, StepsOf
    <3>4. HasRun(calls[c])'
      BY <3>1, <3>2, SameAdapter DEF HasRun, Shows, Past
    <3>5. Before = {} /\ x.at \notin Later
      BY <1>1, <1>3, <1>7, <1>8, <1>11, StepsAre
    <3>6. /\ x.op = "create" /\ x.program = "create"
          /\ \/ x.at = "make" /\ x.answer = "error"
             \/ x.at = "failed" /\ x.fault \in {"make", "skill"}
      <4>1. CASE q.at = "make"
        <5>1. q.at \in Steps
          BY <4>1 DEF Steps, Requests
        <5>2. q.at \in StepsOf(q.program) /\ q.program \in {"create", "setup", "destroy", "get"}
          BY <1>1, <5>1 DEF Shape, CallType
        <5>3. q.program = "create"
          BY <1>1, <4>1, <5>2, StepsAre DEF StepsOf
        <5> QED BY <1>7, <1>8, <1>11, <4>1, <5>3
      <4>2. CASE q.at = "failed"
        <5>1. q.program = q.op
          BY <1>1, <4>2, StepsAre DEF Shape
        <5> QED BY <1>7, <1>8, <1>11, <4>2, <5>1
      <4> QED BY <1>8, <1>11, <4>1, <4>2
    <3>7. BoxThere(calls[c])'
      <4>1. "error" \notin Bodies \cup {None, "402"} /\ None # "make"
        BY NoneIs, CloudConstants DEF Bodies, Alive, Answers
      <4>2. ~NotMade(calls[c])' /\ ~Made(calls[c])'
        BY <1>7, <3>1, <3>5, <3>6, <4>1, SameAdapter DEF NotMade, Made
      <4> QED BY <3>1, <3>6, <4>2 DEF BoxThere
    <3>8. AnswerTrue(calls[c])' /\ FailedWhere(calls[c])' /\ ToldTrue(calls[c])'
      <4>1. "skill" \in Unguarded /\ "make" \in Unguarded
        BY <1>1, StepsAre
      <4> QED BY <3>1, <3>6, <4>1, SameAdapter DEF AnswerTrue, FailedWhere, ToldTrue, TellsGone
    <3> QED BY <3>3, <3>4, <3>7, <3>8 DEF CallInv
  <2>4. calls' \in [Calls -> CallType] /\ \A d \in Calls : CallInv(d, calls[d])'
    BY <1>1, <1>6, <1>7, <2>2, <2>3
  <2> QED BY <1>1, <1>2, <1>5, <2>4, OneBox
<1> QED BY <1>10, <1>11

(* A box boots, stops or vanishes. *)
LEMMA WorldKeeps == ASSUME Inv, NEW b \in Calls, World(b) PROVE Inv'
<1>1. PICK t \in States : /\ Becomes(b, t) /\ calls' = calls
                          /\ t # "none" /\ cloud[b] # "none" /\ cloud[b] \in Alive
  BY DEF World, Boots, Stops, Vanishes, States, Alive
<1>2. UNCHANGED <<adapter, known, client, skill>>
  BY DEF World
<1>3. ASSUME NEW d \in Calls PROVE CallInv(d, calls[d])'
  <2>1. IF adapter = "cloudflare"
        THEN calls[d].op = "create" /\ t \in Alive /\ cloud[b] \notin Alive => b # d
        ELSE \/ cloud[b] = "none" /\ b # d
             \/ (t \in Alive => cloud[b] \in Alive) /\ (t = "none" <=> cloud[b] = "none")
    BY <1>1
  <2> QED BY <1>1, <1>2, <2>1, Others
<1>4. calls' \in [Calls -> CallType]
  BY <1>1, InvIs
<1> QED BY <1>1, <1>2, <1>3, <1>4, OneBox

-----------------------------------------------------------------------------
(* The theorems *)

LEMMA InvNext == Inv /\ [Next]_vars => Inv'
<1> SUFFICES ASSUME Inv, [Next]_vars PROVE Inv'
  OBVIOUS
<1>1. ASSUME NEW c \in Calls, Create(c) PROVE Inv'
  BY <1>1, CreateKeeps
<1>2. ASSUME NEW c \in Calls, Destroy(c) PROVE Inv'
  BY <1>2, CallKeeps DEF Destroy
<1>3. ASSUME NEW c \in Calls, Get(c) PROVE Inv'
  BY <1>3, CallKeeps DEF Get
<1>4. ASSUME NEW c \in Calls, Resume(c) PROVE Inv'
  BY <1>4, ResumeKeeps
<1>5. ASSUME NEW c \in Calls, Pay(c) PROVE Inv'
  BY <1>5, PayKeeps
<1>6. ASSUME NEW c \in Calls, Abort(c) PROVE Inv'
  BY <1>6, AbortKeeps
<1>7. ASSUME NEW c \in Calls, HaveClient(c) PROVE Inv'
  BY <1>7, HaveClientKeeps
<1>8. ASSUME NEW c \in Calls, Server(c) PROVE Inv'
  BY <1>8, PerformKeeps, PerformLateKeeps DEF Server
<1>9. ASSUME NEW c \in Calls, World(c) PROVE Inv'
  BY <1>9, WorldKeeps
<1>10. ASSUME ClientLoads("ready") \/ ClientLoads("broken") PROVE Inv'
  BY <1>10, ClientLoadsKeeps
<1>11. ASSUME SkillArrives \/ SkillFails PROVE Inv'
  BY <1>11, SkillArrivesKeeps, SkillFailsKeeps
<1>12. ASSUME UNCHANGED vars PROVE Inv'
  <2>1. UNCHANGED <<adapter, calls, cloud, ran, known, client, skill>>
    BY <1>12 DEF vars
  <2>2. calls' \in [Calls -> CallType] /\ \A d \in Calls : CallInv(d, calls[d])'
    BY <2>1, StillKeeps
  <2> QED BY <2>1, <2>2, InvIs, RestKeeps
<1> QED BY <1>1, <1>2, <1>3, <1>4, <1>5, <1>6, <1>7, <1>8, <1>9, <1>10, <1>11, <1>12 DEF Next

LEMMA InvHolds == Spec => []Inv
BY InvInit, InvNext, PTL DEF Spec

(* Every variable keeps its type: a call is at a step that its adapter has, and *)
(* no loop makes more than its attempts.                                        *)
THEOREM TypeCorrect == Spec => []TypeOK
<1>1. Inv => TypeOK
  BY DEF Inv
<1> QED BY <1>1, InvHolds, PTL

(* A create that has failed leaves its box only where the code has no clean-up, *)
(* or where the clean-up failed: whatever the answers, whichever are lost, and  *)
(* whatever the other calls do meanwhile (provider.ts:202-217 and the adapters' *)
(* createSandbox).                                                              *)
THEOREM LeftSafe == Spec => []LeftOnlyWhere
<1>1. Inv => LeftOnlyWhere
  <2> SUFFICES ASSUME Inv, NEW c \in Calls, calls[c].op = "create", calls[c].at = "failed",
                      cloud[c] \in Alive
               PROVE  calls[c].fault \in Unguarded \cup {"cleanup"}
    BY DEF LeftOnlyWhere
  <2>1. /\ adapter \in Kinds /\ calls[c].box = c
        /\ Shape(c, calls[c]) /\ BoxThere(calls[c]) /\ FailedWhere(calls[c])
    BY InvIs DEF CallInv, Shape
  <2>2. calls[c].fault \in Before => cloud[c] = "none"
    BY <2>1, StepsAre DEF BoxThere, NotMade
  <2>3. cloud[c] # "none"
    BY DEF Alive
  <2> QED BY <2>1, <2>2, <2>3 DEF FailedWhere
<1> QED BY <1>1, InvHolds, PTL

(* What a call says of a box is so: when destroy resolves, or get throws        *)
(* SandboxNotFoundError, the box is gone, but for the errors that the adapter   *)
(* takes for that news; and a destroy that is told so itself throws only where  *)
(* the adapter takes that answer for an error.                                  *)
THEOREM GoneSafe == Spec => []GoneIsGone
<1>1. Inv => GoneIsGone
  <2> SUFFICES ASSUME Inv, NEW c \in Calls
               PROVE  /\ TellsGone(calls[c].op, calls[c].at) /\ cloud[calls[c].box] \in Alive
                           => Mistaken(calls[c])
                      /\ calls[c].op = "destroy" /\ calls[c].at = "failed" /\ calls[c].answer \in SaysGone
                           => Complains(calls[c])
    BY DEF GoneIsGone, Mistaken, SaysGone
  <2> QED BY InvIs DEF CallInv, ToldTrue
<1> QED BY <1>1, InvHolds, PTL

(* Destroy is idempotent (core/src/types.ts:19) with every adapter but two: none *)
(* of the others answers a destroy with an error because the box is gone.       *)
THEOREM IdempotentElsewhere ==
  Spec => [](adapter \notin {"microsandbox", "db9"} => DestroyIdempotent)
<1>1. Inv => (adapter \notin {"microsandbox", "db9"} => DestroyIdempotent)
  <2> SUFFICES ASSUME Inv, adapter \notin {"microsandbox", "db9"}, NEW d \in Calls,
                      calls[d].op = "destroy", calls[d].at = "failed", calls[d].answer = "absent"
               PROVE  FALSE
    BY DEF DestroyIdempotent
  <2>1. ToldTrue(calls[d])
    BY InvIs DEF CallInv
  <2> QED BY <2>1 DEF ToldTrue, SaysGone, Complains
<1> QED BY <1>1, InvHolds, PTL

(* What create returns has run, or been ready, where its adapter waits for it.  *)
THEOREM ReadySafe == Spec => []ReadyMeansRan
<1>1. Inv => ReadyMeansRan
  <2> SUFFICES ASSUME Inv, NEW c \in Calls, Created(c), Waits PROVE c \in ran
    BY DEF ReadyMeansRan
  <2>1. HasRun(calls[c]) /\ Shape(c, calls[c])
    BY InvIs DEF CallInv
  <2> QED BY <2>1 DEF HasRun, Past, Created, Shape
<1> QED BY <1>1, InvHolds, PTL

-----------------------------------------------------------------------------
(* The books of BoxLite and Cloudflare *)

(* A create past the step that enters its box, and why it may be missing. *)
Entered(q) ==
  /\ q.op = "create"
  /\ \/ q.at = "done"
     \/ q.program = "setup"
     \/ adapter = "boxlite" /\ q.program = "create" /\ q.at \in {"start", "look"}

Excused(c) ==
  IF adapter = "boxlite" THEN cloud[c] \notin Alive
  ELSE \E d \in Calls : calls[d].op = "destroy" /\ calls[d].box = c /\ calls[d].at = "done"

InBooks(c) ==
  adapter \in {"boxlite", "cloudflare"} /\ Entered(calls[c]) => c \in known \/ Excused(c)

BooksInv == \A c \in Calls : InBooks(c)

(* Steps that leave calls where they are. *)
LEMMA SteadyBooks ==
  ASSUME BooksInv, adapter' = adapter, known' = known,
         \A d \in Calls : /\ calls'[d].op = calls[d].op /\ calls'[d].at = calls[d].at
                          /\ calls'[d].program = calls[d].program /\ calls'[d].box = calls[d].box,
         \A c \in Calls : adapter = "boxlite" /\ Entered(calls[c]) /\ cloud'[c] \in Alive => cloud[c] \in Alive
  PROVE  BooksInv'
<1> SUFFICES ASSUME NEW c \in Calls, adapter \in {"boxlite", "cloudflare"}, Entered(calls[c])'
             PROVE  c \in known \/ Excused(c)'
  BY DEF BooksInv, InBooks
<1>1. Entered(calls[c])
  BY DEF Entered
<1>2. c \in known \/ Excused(c)
  BY <1>1 DEF BooksInv, InBooks
<1>3. Excused(c) => Excused(c)'
  BY <1>1 DEF Excused
<1> QED BY <1>2, <1>3

(* How a call goes on with its books: it enters its box when it is made, and *)
(* does not strike it out before it is through with it.                      *)
LEMMA Enters ==
  ASSUME adapter \in {"boxlite", "cloudflare"}, NEW q \in CallType, NEW next,
         q.op = "create", q.program \in {"create", "setup", "destroy"},
         q.program = "setup" => q.at \in Commands,
         q.program = "create" =>
           \/ CreateGoes(q, next)
           \/ q.at = "idle" /\ next \notin {"start", "look"}
              /\ (next = "returns" => adapter = "cloudflare"),
         Entered(Goes(q, next))
  PROVE  q.box \in Books(q, next) \/ (Entered(q) /\ q.at \notin {"drop", "delete"})
<1> DEFINE x == Goes(q, next)
<1>0. /\ adapter \in Kinds /\ {"idle", "done", "failed"} \cap Steps = {} /\ "returns" \notin Steps
      /\ Commands = {"user", "mkdir", "write"}
  BY DEF Kinds, Steps, Requests, Commands
<1>1. ASSUME NEW step PROVE Ask(q, step).program = q.program /\ Ask(q, step).at = step
  BY DEF Ask, CallType
<1>2. ASSUME NEW fault PROVE ~Entered(Failed(q, fault))
  BY DEF Entered, Failed, Settled, CallType
<1>3. CASE next \in Steps
  <2>1. x.program = q.program /\ x.at = next
    BY <1>1, <1>3 DEF Goes
  <2>2. \/ q.program = "setup"
        \/ adapter = "boxlite" /\ q.program = "create" /\ next \in {"start", "look"}
    BY <1>0, <1>3, <2>1 DEF Entered
  <2>3. CASE q.program = "setup"
    BY <1>0, <2>3 DEF Entered
  <2>4. CASE adapter = "boxlite" /\ q.program = "create" /\ next \in {"start", "look"}
    <3>1. CreateGoes(q, next) /\ Later = {"start", "look", "drop"}
      BY <2>4 DEF Later, Aio
    <3>2. q.at \in {"start", "look"} \/ (q.at = "make" /\ q.answer \in Bodies)
      BY <2>4, <3>1 DEF CreateGoes
    <3>3. q.at = "make" /\ q.answer \in Bodies => q.box \in Books(q, next)
      BY <2>4 DEF Books, PortMaps, BoxLiteRequest
    <3> QED BY <2>4, <3>2, <3>3 DEF Entered
  <2> QED BY <2>2, <2>3, <2>4
<1>4. CASE next \notin Steps
  <2>1. CASE q.program = "create"
    <3>1. next = "returns"
      BY <1>2, <1>4, <2>1 DEF Goes, After
    <3>2. CASE adapter = "cloudflare"
      BY <2>1, <3>1, <3>2 DEF Books, Sandboxes
    <3>3. CASE adapter = "boxlite"
      <4>1. CreateGoes(q, next) /\ Later = {"start", "look", "drop"}
        BY <2>1, <3>1, <3>3 DEF Later, Aio
      <4>2. q.at \in {"start", "look"} \/ (q.at = "make" /\ q.answer \in Bodies)
        BY <3>1, <3>3, <4>1 DEF CreateGoes
      <4>3. q.at = "make" /\ q.answer \in Bodies => q.box \in Books(q, next)
        BY <3>3 DEF Books, PortMaps, BoxLiteRequest
      <4> QED BY <2>1, <3>3, <4>2, <4>3 DEF Entered
    <3> QED BY <3>2, <3>3
  <2>2. CASE q.program = "setup"
    BY <1>0, <2>2 DEF Entered
  <2>3. CASE q.program = "destroy"
    BY <1>2, <1>4, <2>3 DEF Goes, After
  <2> QED BY <2>1, <2>2, <2>3
<1> QED BY <1>3, <1>4

(* What a step of call d does to the books. *)
LEMMA TurnBooks ==
  ASSUME BooksInv, adapter' = adapter, cloud' = cloud, calls \in [Calls -> CallType],
         NEW d \in Calls, NEW q \in CallType, NEW next, NEW x, x = Goes(q, next),
         calls' = [calls EXCEPT ![d] = x], known' = Books(q, next), calls[d].at # "done",
         q.op = "create" => q.box = d /\ (q = calls[d] \/ (q.at = "idle" /\ q.program = "create")),
         q.op = "create" /\ Entered(x) /\ adapter \in {"boxlite", "cloudflare"} =>
           d \in Books(q, next) \/ (Entered(q) /\ q.at \notin {"drop", "delete"}),
         adapter = "boxlite" =>
           /\ q.at = "drop" => q.op = "create"
           /\ q.at = "delete" /\ q.answer \in Bodies => cloud[q.box] \notin Alive,
         adapter = "cloudflare" /\ q.at = "delete" /\ q.op # "create" =>
           x.op = "destroy" /\ x.box = q.box /\ x.at = "done",
         x.op = q.op
  PROVE  BooksInv'
<1> SUFFICES ASSUME NEW c \in Calls, adapter \in {"boxlite", "cloudflare"}, Entered(calls[c])'
             PROVE  c \in known' \/ Excused(c)'
  BY DEF BooksInv, InBooks
<1>1. \A e \in Calls : calls'[e] = IF e = d THEN x ELSE calls[e]
  OBVIOUS
<1>2. Excused(c) => Excused(c)'
  <2>1. CASE adapter = "boxlite"
    BY <2>1 DEF Excused
  <2>2. CASE adapter # "boxlite"
    <3>1. ASSUME NEW e \in Calls, calls[e].op = "destroy", calls[e].box = c, calls[e].at = "done"
          PROVE  calls'[e].op = "destroy" /\ calls'[e].box = c /\ calls'[e].at = "done"
      BY <1>1, <3>1
    <3> QED BY <2>2, <3>1 DEF Excused
  <2> QED BY <2>1, <2>2
<1>3. CASE c = d
  <2>1. Entered(x) /\ q.op = "create" /\ q.box = d
    BY <1>1, <1>3 DEF Entered
  <2>2. CASE d \in Books(q, next)
    BY <1>3, <2>2
  <2>3. CASE Entered(q) /\ q.at \notin {"drop", "delete"}
    <3>1. q = calls[d]
      BY <2>1, <2>3 DEF Entered
    <3>2. d \in known \/ Excused(d)
      BY <2>3, <3>1 DEF BooksInv, InBooks
    <3>3. d \in known => d \in Books(q, next)
      BY <2>3 DEF Books, PortMaps, Sandboxes
    <3> QED BY <1>2, <1>3, <3>2, <3>3
  <2> QED BY <2>1, <2>2, <2>3
<1>4. CASE c # d
  <2>1. Entered(calls[c])
    BY <1>1, <1>4 DEF Entered
  <2>2. c \in known \/ Excused(c)
    BY <2>1 DEF BooksInv, InBooks
  <2>3. CASE c \in known
    <3>1. CASE adapter = "boxlite"
      <4>1. c \in Books(q, next) \/ (c = q.box /\ (q.at = "drop" \/ (q.at = "delete" /\ q.answer \in Bodies)))
        BY <2>3, <3>1 DEF Books, PortMaps, BoxLiteRequest
      <4>2. c = q.box /\ q.at = "delete" /\ q.answer \in Bodies => Excused(c)'
        BY <3>1 DEF Excused
      <4> QED BY <1>4, <3>1, <4>1, <4>2
    <3>2. CASE adapter = "cloudflare"
      <4>1. c \in Books(q, next) \/ (c = q.box /\ q.at = "delete")
        BY <2>3, <3>2 DEF Books, Sandboxes
      <4>2. c = q.box /\ q.at = "delete" => Excused(c)'
        <5>1. SUFFICES ASSUME c = q.box, q.at = "delete" PROVE Excused(c)'
          OBVIOUS
        <5>2. x.op = "destroy" /\ x.box = c /\ x.at = "done"
          BY <1>4, <3>2, <5>1
        <5>3. calls'[d].op = "destroy" /\ calls'[d].box = c /\ calls'[d].at = "done"
          BY <1>1, <5>2
        <5> QED BY <3>2, <5>3 DEF Excused
      <4> QED BY <4>1, <4>2
    <3> QED BY <3>1, <3>2
  <2> QED BY <1>2, <2>2, <2>3
<1> QED BY <1>3, <1>4

LEMMA GoesIs ==
  ASSUME NEW q \in CallType, NEW next
  PROVE  Goes(q, next).op = q.op /\ Goes(q, next).box = q.box
<1>1. ASSUME NEW y \in CallType, NEW step PROVE Ask(y, step).op = y.op /\ Ask(y, step).box = y.box
  BY DEF Ask, CallType
<1>2. ASSUME NEW y \in CallType, NEW how, NEW fault
      PROVE  Settled(y, how, fault).op = y.op /\ Settled(y, how, fault).box = y.box
  BY DEF Settled, CallType
<1>3. ASSUME NEW p \in {"create", "setup", "destroy", "get"}
      PROVE  LET y == [q EXCEPT !.program = p] IN y \in CallType /\ y.op = q.op /\ y.box = q.box
  BY DEF CallType
<1>4. SetUp(q).op = q.op /\ SetUp(q).box = q.box
  <2> DEFINE y == [q EXCEPT !.program = "setup"]
  <2>1. y \in CallType /\ y.op = q.op /\ y.box = q.box
    BY <1>3
  <2>2. SetUp(q) = IF First(y) = "returns" THEN Settled(y, "done", None) ELSE Ask(y, First(y))
    BY DEF SetUp, Done
  <2> HIDE DEF y
  <2> QED BY <1>1, <1>2, <2>1, <2>2
<1>5. Undo(q).op = q.op /\ Undo(q).box = q.box
  <2> DEFINE y == [q EXCEPT !.program = "destroy"]
  <2>1. y \in CallType /\ y.op = q.op /\ y.box = q.box
    BY <1>3
  <2>2. Undo(q) = IF First(y) = "returns" THEN Settled(y, "failed", "cleanup") ELSE Ask(y, First(y))
    BY DEF Undo, Failed
  <2> HIDE DEF y
  <2> QED BY <1>1, <1>2, <2>1, <2>2
<1>6. q.program \in {"create", "setup", "destroy", "get"}
  BY DEF CallType
<1>7. After(q, next).op = q.op /\ After(q, next).box = q.box
  BY <1>2, <1>4, <1>5, <1>6 DEF After, Done, Missing, Failed
<1> QED BY <1>1, <1>7 DEF Goes

LEMMA ResumeBooks == ASSUME Inv, BooksInv, NEW d \in Calls, Resume(d) PROVE BooksInv'
<1> SUFFICES ASSUME adapter \in {"boxlite", "cloudflare"} PROVE BooksInv'
  BY DEF BooksInv, InBooks, Resume
<1> DEFINE q == calls[d]
           next == Following(q)
           x == Goes(q, next)
<1>1. /\ adapter \in Kinds /\ q \in CallType /\ calls \in [Calls -> CallType]
      /\ Shape(d, q) /\ AnswerTrue(q)
  BY InvIs DEF CallInv
<1>2. /\ q.at \in Steps /\ q.answer \in Answers \ {"402"}
      /\ calls' = [calls EXCEPT ![d] = x] /\ known' = Books(q, next)
      /\ UNCHANGED <<adapter, cloud>>
  BY <1>1 DEF Resume, CallType
<1>3. x.op = q.op /\ x.box = q.box
  BY <1>1, GoesIs
<1>4. /\ q.at \in StepsOf(q.program) /\ q.program \in {"create", "setup", "destroy", "get"}
      /\ q.op \in {"create", "destroy", "get"}
      /\ q.op = "create" => q.box = d /\ q.program # "get"
      /\ q.at # "client" /\ q.at # "done"
  <2>1. q.at \in StepsOf(q.program) /\ q.program \in {"create", "setup", "destroy", "get"}
        /\ q.op \in {"create", "destroy", "get"} /\ (q.op = "create" => q.box = d /\ q.program # "get")
    BY <1>1, <1>2 DEF Shape, CallType
  <2>2. "client" \notin CreateSteps \cup Commands \cup DestroySteps \cup GetSteps
    BY DEF CreateSteps, Before, Later, Commands, DestroySteps, GetSteps, Daytona, Aio
  <2>3. q.at # "done"
    BY <1>1, <1>2, StepsAre
  <2> QED BY <2>1, <2>2, <2>3 DEF StepsOf
<1>5. q.program = "create" => CreateGoes(q, next)
  BY <1>1, <1>2, <1>4, CreateFollows DEF StepsOf
<1>6. q.program = "setup" => q.at \in Commands
  BY <1>4 DEF StepsOf
<1>7. q.op = "create" /\ Entered(x) => q.box \in Books(q, next) \/ (Entered(q) /\ q.at \notin {"drop", "delete"})
  <2>1. SUFFICES ASSUME q.op = "create", Entered(x)
                 PROVE  q.box \in Books(q, next) \/ (Entered(q) /\ q.at \notin {"drop", "delete"})
    OBVIOUS
  <2> HIDE DEF q, next
  <2> QED BY <1>1, <1>4, <1>5, <1>6, <2>1, Enters
<1>8. q.at = "drop" => q.op = "create"
  BY <1>1, <1>4, StepsAre DEF StepsOf, Shape
<1>9. adapter = "boxlite" /\ q.at = "delete" /\ q.answer \in Bodies => cloud[q.box] \notin Alive
  BY <1>1 DEF AnswerTrue
<1>10. adapter = "cloudflare" /\ q.at = "delete" /\ q.op # "create" =>
         x.op = "destroy" /\ x.box = q.box /\ x.at = "done"
  <2>1. SUFFICES ASSUME adapter = "cloudflare", q.at = "delete", q.op # "create"
                 PROVE  q.op = "destroy" /\ x.at = "done"
    BY <1>3
  <2>2. q.program = q.op /\ q.op = "destroy"
    BY <1>1, <1>4, <2>1, StepsAre DEF StepsOf, Shape
  <2>3. next = "returns"
    BY <1>1, <1>2, <1>4, <2>1, <2>2, DestroyFollows DEF DestroyGoes, StepsOf
  <2>4. x = Settled(q, "done", None)
    BY <2>2, <2>3 DEF Goes, After, Done, Steps, Requests
  <2>5. None \in Faults
    BY DEF Faults
  <2> QED BY <1>1, <2>2, <2>4, <2>5, SettledIs
<1> HIDE DEF q, next, x
<1> QED BY <1>1, <1>2, <1>3, <1>4, <1>7, <1>8, <1>9, <1>10, TurnBooks DEF q, x

LEMMA BeginBooks ==
  ASSUME Inv, BooksInv, NEW d \in Calls, NEW q \in CallType, Begins(d, q),
         q.program = q.op, q.at = "idle", q.op = "create" => q.box = d,
         q.op \in {"create", "destroy", "get"}
  PROVE  BooksInv'
<1> SUFFICES ASSUME adapter \in {"boxlite", "cloudflare"} PROVE BooksInv'
  BY DEF BooksInv, InBooks, Begins
<1> DEFINE next == First(q)
           x == Goes(q, next)
<1>1. /\ adapter \in Kinds /\ calls \in [Calls -> CallType] /\ calls[d].at # "done"
      /\ calls' = [calls EXCEPT ![d] = x] /\ known' = Books(q, next)
      /\ UNCHANGED <<adapter, cloud>>
  BY InvIs DEF Begins
<1>2. x.op = q.op /\ x.box = q.box
  BY GoesIs
<1>3. q.op = "create" => next \notin {"start", "look"} /\ (next = "returns" => adapter = "cloudflare")
  BY <1>1, FirstIs DEF Before, Daytona, Aio
<1>4. q.op = "create" /\ Entered(x) => q.box \in Books(q, next) \/ (Entered(q) /\ q.at \notin {"drop", "delete"})
  <2>1. SUFFICES ASSUME q.op = "create", Entered(x)
                 PROVE  q.box \in Books(q, next) \/ (Entered(q) /\ q.at \notin {"drop", "delete"})
    OBVIOUS
  <2> HIDE DEF next
  <2> QED BY <1>1, <1>3, <2>1, Enters
<1> HIDE DEF next, x
<1> QED BY <1>1, <1>2, <1>4, TurnBooks DEF x

LEMMA CreateBooks == ASSUME Inv, BooksInv, NEW c \in Calls, Create(c) PROVE BooksInv'
<1>1. PICK wants \in Wants :
        Begins(c, [Idle(c) EXCEPT !.wants = wants,
                                  !.skill = IF adapter = "db9" THEN FetchDb9Skill ELSE "none"])
  BY DEF Create
<1>2. wants \in SUBSET {"setup", "user", "skills"}
  BY DEF Wants, OnlyIf
<1> DEFINE s == IF adapter = "db9" THEN FetchDb9Skill ELSE "none"
           i == Idle(c)
           q == [i EXCEPT !.wants = wants, !.skill = s]
<1>3. s \in {"none", "waiting", "got"} /\ Begins(c, q)
  BY <1>1 DEF FetchDb9Skill
<1>4. i \in CallType /\ i.op = "create" /\ i.program = "create" /\ i.at = "idle" /\ i.box = c
  BY IdleIs
<1> HIDE DEF s, i
<1>5. q \in CallType /\ q.op = "create" /\ q.program = "create" /\ q.at = "idle" /\ q.box = c
  BY <1>2, <1>3, <1>4 DEF CallType
<1> HIDE DEF q
<1> QED BY <1>3, <1>5, BeginBooks

LEMMA CallBooks ==
  ASSUME Inv, BooksInv, NEW c \in Calls, NEW op \in {"destroy", "get"}, Call(c, op)
  PROVE  BooksInv'
<1>1. PICK b \in Calls : Begins(c, [Idle(c) EXCEPT !.op = op, !.program = op, !.box = b])
  BY DEF Call
<1> DEFINE i == Idle(c)
           q == [i EXCEPT !.op = op, !.program = op, !.box = b]
<1>2. i \in CallType /\ i.at = "idle" /\ Begins(c, q)
  BY <1>1, IdleIs
<1> HIDE DEF i
<1>3. q \in CallType /\ q.op = op /\ q.program = op /\ q.at = "idle"
  BY <1>2 DEF CallType
<1> HIDE DEF q
<1> QED BY <1>2, <1>3, BeginBooks

(* A box of BoxLite that is gone stays gone. *)
LEMMA ServerBooks == ASSUME Inv, BooksInv, NEW c \in Calls, Server(c) PROVE BooksInv'
<1> SUFFICES ASSUME adapter \in {"boxlite", "cloudflare"} PROVE BooksInv'
  BY DEF BooksInv, InBooks, Server
<1> DEFINE q == calls[c]
<1>1. /\ adapter \in Kinds /\ q \in CallType /\ q.box \in Calls /\ cloud[q.box] \in States
      /\ Shape(c, q) /\ calls \in [Calls -> CallType] /\ cloud \in [Calls -> States]
  BY InvIs DEF CallInv
<1>2. ~PerformLate(c)
  BY <1>1 DEF PerformLate, Shape
<1>3. Perform(c) /\ UNCHANGED <<adapter, known>>
  BY <1>2 DEF Server
<1>4. PICK o \in Outcomes(q.at, cloud[q.box], q.paid, q.program) :
        /\ calls' = [calls EXCEPT ![c].answer = o[1]]
        /\ Becomes(q.box, o[2])
  BY <1>3 DEF Perform
<1>5. \A d \in Calls : /\ calls'[d].op = calls[d].op /\ calls'[d].at = calls[d].at
                       /\ calls'[d].program = calls[d].program /\ calls'[d].box = calls[d].box
  BY <1>1, <1>4 DEF CallType
<1>6. ASSUME NEW d \in Calls, adapter = "boxlite", Entered(calls[d]), cloud'[d] \in Alive
      PROVE  cloud[d] \in Alive
  <2>1. OutcomeGoes(q.at, cloud[q.box], o[1], o[2])
    BY <1>1, <1>3, <1>4, <1>6, OutcomeIs DEF Perform
  <2>2. cloud'[d] = IF d = q.box THEN o[2] ELSE cloud[d]
    BY <1>1, <1>4 DEF Becomes
  <2>3. q.at = "make" => q.op = "create" /\ q.program = "create"
    <3>1. q.at = "make" => q.at \in StepsOf(q.program) /\ q.program \in {"create", "setup", "destroy", "get"}
      BY <1>1 DEF Shape, Steps, Requests, CallType
    <3> QED BY <1>1, <3>1, StepsAre DEF StepsOf, Shape
  <2>4. q.at = "make" => q.box = c /\ ~Entered(q)
    BY <1>1, <2>3 DEF Shape, Entered
  <2> QED BY <1>6, <2>1, <2>2, <2>4 DEF OutcomeGoes
<1> QED BY <1>3, <1>5, <1>6, SteadyBooks

LEMMA WorldBooks == ASSUME Inv, BooksInv, NEW b \in Calls, World(b) PROVE BooksInv'
<1>1. calls' = calls /\ UNCHANGED <<adapter, known>>
  BY DEF World, Boots, Stops, Vanishes
<1>2. PICK t : cloud' = [cloud EXCEPT ![b] = t] /\ cloud[b] \in Alive
  BY DEF World, Boots, Stops, Vanishes, Becomes, Alive
<1>3. \A d \in Calls : cloud'[d] \in Alive => cloud[d] \in Alive
  BY <1>2, InvIs
<1> QED BY <1>1, <1>3, SteadyBooks

LEMMA PauseBooks ==
  ASSUME Inv, BooksInv, NEW c \in Calls, Pay(c) \/ HaveClient(c)
  PROVE  BooksInv'
<1>1. calls \in [Calls -> CallType] /\ UNCHANGED <<adapter, cloud, known>>
  BY InvIs DEF Pay, HaveClient
<1>2. \A d \in Calls : /\ calls'[d].op = calls[d].op /\ calls'[d].at = calls[d].at
                       /\ calls'[d].program = calls[d].program /\ calls'[d].box = calls[d].box
  <2>1. CASE Pay(c)
    BY <1>1, <2>1 DEF Pay, CallType
  <2>2. CASE HaveClient(c)
    BY <1>1, <2>2 DEF HaveClient, CallType
  <2> QED BY <2>1, <2>2
<1> QED BY <1>1, <1>2, SteadyBooks

LEMMA BooksNext == Inv /\ BooksInv /\ [Next]_vars => BooksInv'
<1> SUFFICES ASSUME Inv, BooksInv, [Next]_vars PROVE BooksInv'
  OBVIOUS
<1>1. ASSUME NEW c \in Calls, Create(c) PROVE BooksInv'
  BY <1>1, CreateBooks
<1>2. ASSUME NEW c \in Calls, Destroy(c) \/ Get(c) PROVE BooksInv'
  BY <1>2, CallBooks DEF Destroy, Get
<1>3. ASSUME NEW c \in Calls, Resume(c) PROVE BooksInv'
  BY <1>3, ResumeBooks
<1>4. ASSUME NEW c \in Calls, Pay(c) \/ HaveClient(c) PROVE BooksInv'
  BY <1>4, PauseBooks
<1>5. ASSUME NEW c \in Calls, Abort(c) PROVE BooksInv'
  BY <1>5 DEF Abort, BooksInv, InBooks
<1>6. ASSUME NEW c \in Calls, Server(c) PROVE BooksInv'
  BY <1>6, ServerBooks
<1>7. ASSUME NEW c \in Calls, World(c) PROVE BooksInv'
  BY <1>7, WorldBooks
<1>8. ASSUME ClientLoads("ready") \/ ClientLoads("broken") \/ UNCHANGED vars PROVE BooksInv'
  <2>1. calls' = calls /\ UNCHANGED <<adapter, cloud, known>>
    BY <1>8 DEF ClientLoads, vars
  <2> QED BY <2>1, SteadyBooks
<1>9. ASSUME SkillArrives \/ SkillFails PROVE BooksInv'
  <2>1. adapter = "db9" /\ adapter' = adapter
    BY <1>9, InvIs DEF SkillArrives, SkillFails
  <2> QED BY <2>1 DEF BooksInv, InBooks
<1> QED BY <1>1, <1>2, <1>3, <1>4, <1>5, <1>6, <1>7, <1>8, <1>9 DEF Next

(* A box that create has returned and that is alive is in its adapter's books,  *)
(* but on Cloudflare after a destroy of it has resolved.                        *)
THEOREM BooksSafe == Spec => []BooksKept
<1>1. Init => BooksInv
  <2> SUFFICES ASSUME Init, NEW c \in Calls PROVE ~Entered(calls[c])
    BY DEF BooksInv, InBooks
  <2>1. calls[c].at = "idle" /\ calls[c].program = "create"
    BY IdleIs DEF Init
  <2> QED BY <2>1 DEF Entered
<1>2. BooksInv => BooksKept
  BY DEF BooksInv, InBooks, BooksKept, Entered, Excused, Created
<1> QED BY <1>1, <1>2, BooksNext, InvHolds, PTL DEF Spec

=============================================================================
