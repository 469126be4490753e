--------------------------- MODULE MailboxProofs ---------------------------
(***************************************************************************)
(* What the queue policy of Mailbox guarantees for every queue and every   *)
(* maxQueueSize.                                                           *)
(***************************************************************************)
EXTENDS Mailbox, FiniteSetTheorems, WellFoundedInduction, TLAPS

(* A nonempty set of numbers has a least one. *)
LEMMA LeastExists ==
  ASSUME NEW T \in SUBSET Nat, T # {}
  PROVE  \E x \in T : \A y \in T : x <= y
<1> DEFINE R == OpToRel(<, Nat)
<1>1. \E x \in T : \A y \in T : ~(<<y, x>> \in R)
  <2> HIDE DEF R
  <2>1. IsWellFoundedOn(R, Nat)
    BY NatLessThanWellFounded DEF R
  <2> QED BY <2>1, WFMin
<1>2. PICK x \in T : \A y \in T : ~(<<y, x>> \in R)
  BY <1>1
<1>3. \A y \in T : x <= y
  <2> TAKE y \in T
  <2>1. x \in Nat /\ y \in Nat  OBVIOUS
  <2>2. ~(y < x)  BY <2>1, <1>2 DEF OpToRel
  <2> QED BY <2>1, <2>2
<1> QED BY <1>3

(* A nonempty set of messages has an oldest one: what findIndex and shift
   look for in a full queue exists. *)
LEMMA OldestExists ==
  ASSUME NEW S \in SUBSET Message, S # {}
  PROVE  \E m \in S : \A k \in S : m.id <= k.id
<1> DEFINE T == {m.id : m \in S}
<1>1. T \subseteq Nat /\ T # {}
  BY DEF Message
<1>2. PICK x \in T : \A y \in T : x <= y
  <2> HIDE DEF T
  <2> QED BY <1>1, LeastExists
<1>3. PICK m \in S : m.id = x  OBVIOUS
<1> QED BY <1>2, <1>3

(* The oldest message of a nonempty set is in the set. *)
LEMMA OldestIn ==
  ASSUME NEW S \in SUBSET Message, S # {}
  PROVE  Oldest(S) \in S /\ \A k \in S : Oldest(S).id <= k.id
BY OldestExists DEF Oldest

(* Something is ahead of everything else in a nonempty queue. *)
LEMMA FirstExists ==
  ASSUME NEW Q \in SUBSET Message, Q # {}, NEW bySteer \in BOOLEAN
  PROVE  \E m \in Q : \A k \in Q : ~Ahead(bySteer, k, m)
<1> DEFINE Steers == {m \in Q : m.priority = "steer"}
<1>1. CASE bySteer /\ Steers # {}
  <2>1. PICK m \in Steers : \A k \in Steers : m.id <= k.id
    BY <1>1, OldestExists
  <2> WITNESS m \in Q
  <2> TAKE k \in Q
  <2>2. m.priority = "steer" /\ k.id \in Nat /\ m.id \in Nat
    BY DEF Message
  <2>3. CASE k \in Steers  BY <2>1, <2>2, <2>3 DEF Ahead
  <2>4. CASE k \notin Steers  BY <2>2, <2>4, <1>1 DEF Ahead
  <2> QED BY <2>3, <2>4
<1>2. CASE ~(bySteer /\ Steers # {})
  <2>1. PICK m \in Q : \A k \in Q : m.id <= k.id
    BY OldestExists
  <2> WITNESS m \in Q
  <2> TAKE k \in Q
  <2>2. k.id \in Nat /\ m.id \in Nat /\ ~(k.id < m.id)
    BY <2>1 DEF Message
  <2>3. ~bySteer \/ k.priority = m.priority
    BY <1>2 DEF Message, Priority
  <2> QED BY <2>2, <2>3 DEF Ahead
<1> QED BY <1>1, <1>2

(* A drain with a positive limit returns nothing only when nothing is
   queued: the test existing.length > 0 of waitForMessages is a test for an
   empty queue. *)
LEMMA BatchEmpty ==
  ASSUME NEW Q \in SUBSET Message, NEW bySteer \in BOOLEAN,
         NEW limit \in Nat \ {0}, Batch(bySteer, Q, limit) = {}
  PROVE  Q = {}
<1> SUFFICES ASSUME Q # {} PROVE FALSE
  OBVIOUS
<1>1. PICK m \in Q : \A k \in Q : ~Ahead(bySteer, k, m)
  BY FirstExists
<1>2. {k \in Q : Ahead(bySteer, k, m)} = {}
  BY <1>1
<1>3. Cardinality({k \in Q : Ahead(bySteer, k, m)}) = 0
  BY <1>2, FS_EmptySet
<1> QED BY <1>3 DEF Batch

(* One message alone is drained whole. *)
LEMMA BatchSingleton ==
  ASSUME NEW m \in Message, NEW bySteer \in BOOLEAN, NEW limit \in Nat \ {0}
  PROVE  Batch(bySteer, {m}, limit) = {m}
<1>1. {k \in {m} : Ahead(bySteer, k, m)} = {}
  BY DEF Ahead, Message
<1>2. Cardinality({k \in {m} : Ahead(bySteer, k, m)}) = 0
  BY <1>1, FS_EmptySet
<1> QED BY <1>2 DEF Batch

(* No message that stays behind in a drain is ahead of one that is drained. *)
LEMMA BatchAhead ==
  ASSUME NEW Q \in SUBSET Message, IsFiniteSet(Q), NEW bySteer \in BOOLEAN,
         NEW limit \in Nat, NEW m \in Batch(bySteer, Q, limit),
         NEW k \in Q \ Batch(bySteer, Q, limit)
  PROVE  ~Ahead(bySteer, k, m)
<1> DEFINE Before(x) == {y \in Q : Ahead(bySteer, y, x)}
<1>1. m \in Q /\ Cardinality(Before(m)) < limit /\ ~(Cardinality(Before(k)) < limit)
  BY DEF Batch
<1> SUFFICES ASSUME Ahead(bySteer, k, m) PROVE FALSE
  OBVIOUS
<1>2. Before(k) \subseteq Before(m)
  <2> SUFFICES ASSUME NEW y \in Q, Ahead(bySteer, y, k)
               PROVE  Ahead(bySteer, y, m)
    OBVIOUS
  <2>1. \A x \in Q : x.id \in Nat /\ x.priority \in Priority
    BY DEF Message
  <2> QED BY <1>1, <2>1 DEF Ahead, Priority
<1>3. IsFiniteSet(Before(m))
  BY FS_Subset
<1>4. Cardinality(Before(k)) <= Cardinality(Before(m))
  BY <1>2, <1>3, FS_Subset
<1>5. Cardinality(Before(k)) \in Nat /\ Cardinality(Before(m)) \in Nat
  BY <1>2, <1>3, FS_Subset, FS_CardinalityType
<1> HIDE DEF Before
<1> QED BY <1>1, <1>4, <1>5

LEMMA TrimmedSubset ==
  ASSUME NEW Q, NEW bySteer \in BOOLEAN
  PROVE  Trimmed(bySteer, Q) \subseteq Q
BY DEF Trimmed

LEMMA TrimmedEmpty ==
  ASSUME NEW bySteer \in BOOLEAN
  PROVE  Trimmed(bySteer, {}) = {}
BY DEF Trimmed

(* What makes room leaves a queue that is not full; in a full one it is the
   oldest normal message of a queue that serves steer messages first, and else
   the oldest of all. *)
LEMMA TrimmedLoses ==
  ASSUME NEW Q \in SUBSET Message, NEW bySteer \in BOOLEAN,
         NEW m \in Q \ Trimmed(bySteer, Q), Cardinality(Q) \in Nat
  PROVE  /\ Cardinality(Q) >= MaxQueue
         /\ Q \ Trimmed(bySteer, Q) = {m}
         /\ \A k \in Q : \/ m.id <= k.id
                         \/ bySteer /\ m.priority = "normal" /\ k.priority = "steer"
         /\ bySteer /\ m.priority = "steer" => \A k \in Q : k.priority = "steer"
<1> DEFINE S == IF bySteer /\ Normals(Q) # {} THEN Normals(Q) ELSE Q
<1>1. /\ ~(Cardinality(Q) < MaxQueue)
      /\ Trimmed(bySteer, Q) = Q \ {Oldest(S)}
  BY DEF Trimmed
<1>2. S \in SUBSET Message /\ S # {} /\ S \subseteq Q
  BY DEF Normals
<1>3. Oldest(S) \in S /\ \A k \in S : Oldest(S).id <= k.id
  <2> HIDE DEF S
  <2> QED BY <1>2, OldestIn
<1>4. m = Oldest(S) /\ Q \ Trimmed(bySteer, Q) = {m}
  BY <1>1, <1>2, <1>3
<1>5. \A k \in Q : k.priority \in {"steer", "normal"}
  BY DEF Message, Priority
<1> HIDE DEF S
<1>6. m \in S /\ \A k \in S : m.id <= k.id
  BY <1>3, <1>4
<1>7. Cardinality(Q) >= MaxQueue
  BY <1>1, MaxQueueAssumption
<1>8. CASE bySteer /\ Normals(Q) # {}
  <2>1. m.priority = "normal"
    BY <1>6, <1>8 DEF S, Normals
  <2>2. \A k \in Q : m.id <= k.id \/ k.priority = "steer"
    BY <1>5, <1>6, <1>8 DEF S, Normals
  <2> QED BY <1>4, <1>7, <1>8, <2>1, <2>2
<1>9. CASE ~(bySteer /\ Normals(Q) # {})
  <2>1. \A k \in Q : m.id <= k.id
    BY <1>6, <1>9 DEF S
  <2>2. bySteer => \A k \in Q : k.priority = "steer"
    BY <1>5, <1>9 DEF Normals
  <2> QED BY <1>4, <1>7, <2>1, <2>2
<1> QED BY <1>8, <1>9

(* After making room, one more message keeps the queue within maxQueueSize. *)
THEOREM RoomForOne ==
  ASSUME NEW Q \in SUBSET Message, IsFiniteSet(Q), Cardinality(Q) <= MaxQueue,
         NEW bySteer \in BOOLEAN, NEW m
  PROVE  /\ IsFiniteSet(Trimmed(bySteer, Q) \cup {m})
         /\ Cardinality(Trimmed(bySteer, Q) \cup {m}) <= MaxQueue
<1> DEFINE T == Trimmed(bySteer, Q)
<1>1. IsFiniteSet(T) /\ Cardinality(T) \in Nat /\ Cardinality(T) + 1 <= MaxQueue
  <2>1. Cardinality(Q) \in Nat
    BY FS_CardinalityType
  <2>2. CASE Cardinality(Q) < MaxQueue
    BY <2>1, <2>2, MaxQueueAssumption DEF Trimmed
  <2>3. CASE ~(Cardinality(Q) < MaxQueue)
    <3>1. Cardinality(Q) = MaxQueue
      BY <2>1, <2>3, MaxQueueAssumption
    <3> DEFINE S == IF bySteer /\ Normals(Q) # {} THEN Normals(Q) ELSE Q
    <3>2. S \in SUBSET Message /\ S # {} /\ S \subseteq Q
      <4>1. Q # {}
        BY <3>1, MaxQueueAssumption, FS_EmptySet
      <4> QED BY <4>1 DEF Normals
    <3>3. Oldest(S) \in Q
      <4> HIDE DEF S
      <4> QED BY <3>2, OldestIn
    <3>4. T = Q \ {Oldest(S)}
      BY <2>3 DEF Trimmed
    <3>5. IsFiniteSet(T) /\ Cardinality(T) = Cardinality(Q) - 1
      <4> HIDE DEF S
      <4> QED BY <3>3, <3>4, FS_RemoveElement
    <3> QED BY <3>1, <3>5, MaxQueueAssumption
  <2> QED BY <2>2, <2>3
<1>2. IsFiniteSet(T \cup {m}) /\ Cardinality(T \cup {m}) <= MaxQueue
  <2> HIDE DEF T
  <2>1. /\ IsFiniteSet(T \cup {m})
        /\ Cardinality(T \cup {m}) = IF m \in T THEN Cardinality(T) ELSE Cardinality(T) + 1
    BY <1>1, FS_AddElement
  <2> QED BY <1>1, <2>1, MaxQueueAssumption
<1> QED BY <1>2
=============================================================================
