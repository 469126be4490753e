------------------------- MODULE MailboxArrayProofs -------------------------
(***************************************************************************)
(* The arrays of the relay's queues implement the queue policy, for every  *)
(* maxQueueSize, any limits of drains and any number of messages.          *)
(***************************************************************************)
EXTENDS MailboxArray, MailboxProofs

-----------------------------------------------------------------------------
(* A queue in the order of the calls: ids grow, those of each priority at least. *)
InOrder(by, s) ==
  \A i, j \in DOMAIN s :
    i < j /\ (by => s[i].priority = s[j].priority) => s[i].id < s[j].id

\* A queue in the order in which it is drained.
Sorted(by, s) == \A i, j \in DOMAIN s : i < j => Ahead(by, s[i], s[j])

(* What a queue is made of. *)
LEMMA SeqParts ==
  ASSUME NEW s \in Seq(Message)
  PROVE  /\ DOMAIN s = 1 .. Len(s) /\ Len(s) \in Nat
         /\ \A i \in DOMAIN s : s[i] \in Message /\ s[i].id \in Nat
                                /\ s[i].priority \in {"steer", "normal"}
<1>1. DOMAIN s = 1 .. Len(s) /\ Len(s) \in Nat /\ \A i \in DOMAIN s : s[i] \in Message
  OBVIOUS
<1> QED BY <1>1 DEF Message, Priority

(* No message is queued twice. *)
LEMMA NoTwice ==
  ASSUME NEW s \in Seq(Message), NEW by \in BOOLEAN, InOrder(by, s),
         NEW i \in DOMAIN s, NEW j \in DOMAIN s, s[i] = s[j]
  PROVE  i = j
BY SeqParts DEF InOrder

LEMMA SortedInOrder ==
  ASSUME NEW s \in Seq(Message), NEW by \in BOOLEAN, Sorted(by, s)
  PROVE  InOrder(by, s)
BY DEF Sorted, InOrder, Ahead

(* A queue without one of its messages. *)
LEMMA Gap ==
  ASSUME NEW a \in Seq(Message), NEW by \in BOOLEAN, InOrder(by, a),
         NEW k \in 1 .. Len(a), NEW b \in Seq(Message), Len(b) = Len(a) - 1,
         \A i \in 1 .. Len(a) - 1 : b[i] = IF i < k THEN a[i] ELSE a[i + 1]
  PROVE  ToSet(b) = ToSet(a) \ {a[k]} /\ InOrder(by, b)
<1>1. /\ DOMAIN a = 1 .. Len(a) /\ Len(a) \in Nat /\ DOMAIN b = 1 .. Len(a) - 1
      /\ k \in Nat
  BY SeqParts
<1> DEFINE At(i) == IF i < k THEN i ELSE i + 1
<1>2. \A i \in DOMAIN b : At(i) \in DOMAIN a \ {k} /\ b[i] = a[At(i)]
  BY <1>1
<1>3. \A i, j \in DOMAIN b : i < j => At(i) < At(j)
  BY <1>1
<1>4. InOrder(by, b)
  BY <1>2, <1>3 DEF InOrder
<1>5. ToSet(b) \subseteq ToSet(a) \ {a[k]}
  BY <1>1, <1>2, NoTwice DEF ToSet
<1>6. ASSUME NEW j \in DOMAIN a, a[j] # a[k] PROVE a[j] \in ToSet(b)
  <2>1. CASE j < k
    <3>1. j \in DOMAIN b /\ At(j) = j
      BY <1>1, <2>1
    <3> QED BY <1>2, <3>1 DEF ToSet
  <2>2. CASE j > k
    <3>1. j - 1 \in DOMAIN b /\ At(j - 1) = j
      BY <1>1, <2>2
    <3> QED BY <1>2, <3>1 DEF ToSet
  <2> QED BY <1>1, <1>6, <2>1, <2>2
<1> QED BY <1>4, <1>5, <1>6 DEF ToSet

LEMMA RemoveAtGap ==
  ASSUME NEW a \in Seq(Message), NEW k \in 1 .. Len(a)
  PROVE  /\ RemoveAt(a, k) \in Seq(Message)
         /\ Len(RemoveAt(a, k)) = Len(a) - 1
         /\ \A i \in 1 .. Len(a) - 1 : RemoveAt(a, k)[i] = IF i < k THEN a[i] ELSE a[i + 1]
<1> DEFINE s == SubSeq(a, 1, k - 1)
           t == SubSeq(a, k + 1, Len(a))
<1>1. Len(a) \in Nat /\ k \in Nat /\ k >= 1 /\ k <= Len(a)
  BY SeqParts
<1>2. s \in Seq(Message) /\ Len(s) = k - 1 /\ \A i \in 1 .. k - 1 : s[i] = a[i]
  BY <1>1
<1>3. /\ t \in Seq(Message) /\ Len(t) = Len(a) - k
      /\ \A i \in 1 .. Len(a) - k : t[i] = a[k + i]
  BY <1>1
<1> HIDE DEF s, t
<1>4. /\ s \o t \in Seq(Message) /\ Len(s \o t) = Len(a) - 1
      /\ \A i \in 1 .. Len(a) - 1 : (s \o t)[i] = IF i <= k - 1 THEN s[i] ELSE t[i - (k - 1)]
  BY <1>1, <1>2, <1>3
<1>5. ASSUME NEW i \in 1 .. Len(a) - 1
      PROVE  (s \o t)[i] = IF i < k THEN a[i] ELSE a[i + 1]
  <2>1. CASE i < k
    BY <1>1, <1>2, <1>4, <2>1
  <2>2. CASE ~(i < k)
    <3>1. i - (k - 1) \in 1 .. Len(a) - k /\ k + (i - (k - 1)) = i + 1 /\ ~(i <= k - 1)
      BY <1>1, <2>2
    <3> QED BY <1>3, <1>4, <2>2, <3>1
  <2> QED BY <2>1, <2>2
<1>6. RemoveAt(a, k) = s \o t
  BY DEF RemoveAt, s, t
<1> QED BY <1>4, <1>5, <1>6

(* splice(k, 1) *)
LEMMA Spliced ==
  ASSUME NEW a \in Seq(Message), NEW by \in BOOLEAN, InOrder(by, a), NEW k \in 1 .. Len(a)
  PROVE  /\ RemoveAt(a, k) \in Seq(Message) /\ Len(RemoveAt(a, k)) = Len(a) - 1
         /\ ToSet(RemoveAt(a, k)) = ToSet(a) \ {a[k]}
         /\ InOrder(by, RemoveAt(a, k))
BY RemoveAtGap, Gap

(* shift() *)
LEMMA Shifted ==
  ASSUME NEW a \in Seq(Message), NEW by \in BOOLEAN, InOrder(by, a), a # <<>>
  PROVE  /\ Tail(a) \in Seq(Message) /\ Len(Tail(a)) = Len(a) - 1
         /\ ToSet(Tail(a)) = ToSet(a) \ {a[1]}
         /\ InOrder(by, Tail(a))
<1>1. /\ 1 \in 1 .. Len(a) /\ Len(a) \in Nat
      /\ Tail(a) \in Seq(Message) /\ Len(Tail(a)) = Len(a) - 1
      /\ \A i \in 1 .. Len(a) - 1 : Tail(a)[i] = a[i + 1]
  OBVIOUS
<1>2. \A i \in 1 .. Len(a) - 1 : Tail(a)[i] = IF i < 1 THEN a[i] ELSE a[i + 1]
  BY <1>1
<1> QED BY <1>1, <1>2, Gap

(* push(m) *)
LEMMA Enqueued ==
  ASSUME NEW a \in Seq(Message), NEW by \in BOOLEAN, InOrder(by, a), NEW m \in Message,
         \A i \in DOMAIN a : a[i].id < m.id
  PROVE  /\ Append(a, m) \in Seq(Message) /\ Len(Append(a, m)) = Len(a) + 1
         /\ ToSet(Append(a, m)) = ToSet(a) \cup {m}
         /\ InOrder(by, Append(a, m))
<1>1. /\ DOMAIN a = 1 .. Len(a) /\ Len(a) \in Nat
      /\ Append(a, m) \in Seq(Message) /\ Len(Append(a, m)) = Len(a) + 1
      /\ DOMAIN Append(a, m) = 1 .. Len(a) + 1
      /\ \A i \in 1 .. Len(a) : Append(a, m)[i] = a[i]
      /\ Append(a, m)[Len(a) + 1] = m
  OBVIOUS
<1>2. DOMAIN Append(a, m) = DOMAIN a \cup {Len(a) + 1}
  BY <1>1
<1>3. ToSet(Append(a, m)) = ToSet(a) \cup {m}
  BY <1>1, <1>2 DEF ToSet
<1>4. ASSUME NEW i \in DOMAIN Append(a, m), NEW j \in DOMAIN Append(a, m), i < j
      PROVE  i \in DOMAIN a /\ (j \in DOMAIN a \/ Append(a, m)[j] = m)
  BY <1>1, <1>4
<1>5. InOrder(by, Append(a, m))
  BY <1>1, <1>4 DEF InOrder
<1> QED BY <1>1, <1>3, <1>5

(* The elements of a queue are as many as its length. *)
LEMMA QueueSize ==
  ASSUME NEW s \in Seq(Message), NEW by \in BOOLEAN, InOrder(by, s)
  PROVE  IsFiniteSet(ToSet(s)) /\ Cardinality(ToSet(s)) = Len(s)
<1>1. DOMAIN s = 1 .. Len(s) /\ Len(s) \in Nat /\ s \in [1 .. Len(s) -> ToSet(s)]
  BY SeqParts DEF ToSet
<1>2. s \in Bijection(1 .. Len(s), ToSet(s))
  BY <1>1, NoTwice DEF Bijection, Injection, Surjection, IsInjective, ToSet
<1>3. ExistsBijection(1 .. Len(s), ToSet(s))
  BY <1>2 DEF ExistsBijection
<1> QED BY <1>1, <1>3, FS_CountingElements, FS_NatBijection

LEMMA ToSetMessages ==
  ASSUME NEW s \in Seq(Message)
  PROVE  ToSet(s) \in SUBSET Message
BY SeqParts DEF ToSet

\* What f says the first k turns of a loop do.
Loop(f, first, step, k) == f[0] = first /\ \A n \in 1 .. k : f[n] = step[n][f[n - 1]]

(* A loop over n elements: there is a recursive function that says what it has
   done after each of them. *)
LEMMA LoopExists ==
  ASSUME NEW N \in Nat, NEW S, NEW first \in S, NEW step \in [1 .. N -> [S -> S]]
  PROVE  \E f \in [0 .. N -> S] : Loop(f, first, step, N)
<1> DEFINE Bad == {k \in 0 .. N : ~ \E f \in [0 .. N -> S] : Loop(f, first, step, k)}
<1>1. ASSUME Bad # {} PROVE FALSE
  <2>1. Bad \subseteq Nat
    OBVIOUS
  <2>2. PICK k \in Bad : \A j \in Bad : k <= j
    <3> HIDE DEF Bad
    <3> QED BY <1>1, <2>1, LeastExists
  <2>3. k # 0
    <3>1. /\ [n \in 0 .. N |-> first] \in [0 .. N -> S]
          /\ Loop([n \in 0 .. N |-> first], first, step, 0)
      BY DEF Loop
    <3> QED BY <3>1
  <2>4. k - 1 \in 0 .. N /\ k \in 1 .. N /\ k - 1 \notin Bad
    <3>1. k \in 0 .. N
      OBVIOUS
    <3> HIDE DEF Bad
    <3> QED BY <2>2, <2>3, <3>1
  <2>5. PICK f \in [0 .. N -> S] : Loop(f, first, step, k - 1)
    BY <2>4
  <2> DEFINE g == [f EXCEPT ![k] = step[k][f[k - 1]]]
  <2>6. g \in [0 .. N -> S] /\ Loop(g, first, step, k)
    <3>1. f[k - 1] \in S /\ step[k] \in [S -> S]
      BY <2>4
    <3>2. step[k][f[k - 1]] \in S
      BY <3>1
    <3>3. /\ g \in [0 .. N -> S] /\ g[k] = step[k][f[k - 1]]
          /\ \A n \in 0 .. N : n # k => g[n] = f[n]
      BY <2>4, <3>2
    <3> HIDE DEF g
    <3>4. g[0] = first
      BY <2>4, <2>5, <3>3 DEF Loop
    <3>5. ASSUME NEW n \in 1 .. k PROVE g[n] = step[n][g[n - 1]]
      <4>1. n - 1 \in 0 .. N /\ n - 1 # k /\ n \in 0 .. N
        BY <2>4
      <4>2. CASE n = k
        BY <3>3, <4>1, <4>2
      <4>3. CASE n # k
        <5>1. n \in 1 .. k - 1
          BY <2>4, <4>3
        <5> QED BY <2>5, <3>3, <4>1, <4>3, <5>1 DEF Loop
      <4> QED BY <4>2, <4>3
    <3> QED BY <3>3, <3>4, <3>5 DEF Loop
  <2> HIDE DEF g
  <2> QED BY <2>2, <2>6
<1>2. N \in 0 .. N
  OBVIOUS
<1>3. N \notin Bad
  <2> HIDE DEF Bad
  <2> QED BY <1>1
<1> QED BY <1>2, <1>3

(* One half of the partition: the messages of that priority, in order. *)
LEMMA HalfOrdered ==
  ASSUME NEW a \in Seq(Message), NEW by \in BOOLEAN, InOrder(by, a),
         NEW p \in {"steer", "normal"}
  PROVE  /\ OfPriority(a, p) \in Seq(Message)
         /\ ToSet(OfPriority(a, p)) = {m \in ToSet(a) : m.priority = p}
         /\ InOrder(FALSE, OfPriority(a, p))
<1> DEFINE Step(s, n) == IF a[n].priority = p THEN Append(s, a[n]) ELSE s
           Good(f) == f = [n \in 0 .. Len(a) |-> IF n = 0 THEN <<>> ELSE Step(f[n - 1], n)]
           pushed == CHOOSE f : Good(f)
<1>1. DOMAIN a = 1 .. Len(a) /\ Len(a) \in Nat /\ \A n \in 1 .. Len(a) : a[n] \in Message
  BY SeqParts
<1>2. \E f : Good(f)
  <2> DEFINE step == [n \in 1 .. Len(a) |-> [s \in Seq(Message) |-> Step(s, n)]]
  <2>1. <<>> \in Seq(Message)
    OBVIOUS
  <2>2. \A n \in 1 .. Len(a), s \in Seq(Message) : Step(s, n) \in Seq(Message)
    BY <1>1
  <2>3. step \in [1 .. Len(a) -> [Seq(Message) -> Seq(Message)]]
    BY <2>2
  <2>4. PICK f \in [0 .. Len(a) -> Seq(Message)] :
          Loop(f, <<>>, step, Len(a))
    <3>1. Len(a) \in Nat
      BY <1>1
    <3> HIDE DEF step
    <3> QED BY <2>1, <2>3, <3>1, LoopExists
  <2>5. \A n \in 0 .. Len(a) : n # 0 => n - 1 \in 0 .. Len(a) /\ n \in 1 .. Len(a)
    BY <1>1
  <2>6. \A n \in 0 .. Len(a) : f[n] = IF n = 0 THEN <<>> ELSE Step(f[n - 1], n)
    <3> TAKE n \in 0 .. Len(a)
    <3>1. CASE n # 0
      <4>1. f[n - 1] \in Seq(Message) /\ n \in 1 .. Len(a)
        BY <2>5, <3>1
      <4>2. step[n][f[n - 1]] = Step(f[n - 1], n)
        <5> HIDE DEF Step
        <5> QED BY <4>1
      <4> QED BY <2>4, <3>1, <4>1, <4>2 DEF Loop
    <3>2. CASE n = 0
      BY <2>4, <3>2 DEF Loop
    <3> QED BY <3>1, <3>2
  <2>7. Good(f)
    <3> HIDE DEF Step
    <3> QED BY <2>6
  <2> QED BY <2>7
<1>3. Good(pushed)
  <2> HIDE DEF Good
  <2> QED BY <1>2
<1>4. OfPriority(a, p) = pushed[Len(a)]
  BY DEF OfPriority
<1> DEFINE Upto(k) == {m \in Message : m.priority = p /\ \E i \in 1 .. k : a[i] = m}
           Right(s, k) == /\ s \in Seq(Message)
                          /\ ToSet(s) = Upto(k)
                          /\ InOrder(FALSE, s)
<1> HIDE DEF pushed
<1>5. pushed[0] = <<>> /\ \A n \in 1 .. Len(a) : pushed[n] = Step(pushed[n - 1], n)
  <2>1. \A n \in 0 .. Len(a) : pushed[n] = IF n = 0 THEN <<>> ELSE Step(pushed[n - 1], n)
    <3> HIDE DEF Step
    <3> QED BY <1>3
  <2> HIDE DEF Step
  <2> QED BY <1>1, <2>1
<1>6. Right(<<>>, 0)
  <2>1. /\ <<>> \in Seq(Message) /\ DOMAIN <<>> = {}
    OBVIOUS
  <2> QED BY <2>1 DEF ToSet, InOrder
<1>7. ASSUME NEW k \in 1 .. Len(a), NEW s, Right(s, k - 1) PROVE Right(Step(s, k), k)
  <2>1. /\ a[k] \in Message /\ k - 1 \in Nat
        /\ Upto(k - 1) \subseteq Upto(k)
        /\ \A i \in 1 .. k : i = k \/ i \in 1 .. k - 1
    BY <1>1
  <2>2. CASE a[k].priority # p
    <3>1. Upto(k) = Upto(k - 1)
      BY <2>1, <2>2
    <3> QED BY <1>7, <2>2, <3>1
  <2>3. CASE a[k].priority = p
    <3>1. Upto(k) = Upto(k - 1) \cup {a[k]}
      BY <2>1, <2>3
    <3>2. s \in Seq(Message) /\ InOrder(FALSE, s) /\ ToSet(s) = Upto(k - 1)
      BY <1>7
    <3>3. \A i \in DOMAIN s : s[i].id < a[k].id
      <4> TAKE i \in DOMAIN s
      <4>1. s[i] \in Upto(k - 1)
        BY <3>2 DEF ToSet
      <4>2. PICK j \in 1 .. k - 1 : a[j] = s[i]
        BY <4>1
      <4>3. j \in DOMAIN a /\ k \in DOMAIN a /\ j < k /\ a[j].priority = a[k].priority
        BY <1>1, <2>3, <4>1, <4>2
      <4> QED BY <4>2, <4>3 DEF InOrder
    <3> HIDE DEF Upto
    <3>4. Right(Append(s, a[k]), k)
      BY <2>1, <3>1, <3>2, <3>3, Enqueued
    <3> QED BY <2>3, <3>4
  <2> QED BY <2>2, <2>3
<1> DEFINE Bad == {k \in 0 .. Len(a) : ~Right(pushed[k], k)}
<1> HIDE DEF Right, Step
<1>8. ASSUME Bad # {} PROVE FALSE
  <2>1. Bad \subseteq Nat
    OBVIOUS
  <2>2. PICK k \in Bad : \A j \in Bad : k <= j
    <3> HIDE DEF Bad
    <3> QED BY <1>8, <2>1, LeastExists
  <2>3. k # 0
    BY <1>5, <1>6
  <2>4. k \in 1 .. Len(a) /\ k - 1 \in 0 .. Len(a) /\ k - 1 \notin Bad
    BY <1>1, <2>2, <2>3
  <2> QED BY <1>5, <1>7, <2>4
<1>9. Right(pushed[Len(a)], Len(a))
  BY <1>1, <1>8
<1>10. Upto(Len(a)) = {m \in ToSet(a) : m.priority = p}
  BY <1>1 DEF ToSet
<1> HIDE DEF Upto
<1> QED BY <1>4, <1>9, <1>10 DEF Right

(* The partition: all messages, steer ones first, each kind in order. *)
LEMMA Partitioned ==
  ASSUME NEW a \in Seq(Message), InOrder(TRUE, a)
  PROVE  /\ SteerFirst(a) \in Seq(Message)
         /\ ToSet(SteerFirst(a)) = ToSet(a)
         /\ Sorted(TRUE, SteerFirst(a))
<1> DEFINE s == OfPriority(a, "steer")
           t == OfPriority(a, "normal")
<1>1. /\ s \in Seq(Message) /\ InOrder(FALSE, s)
      /\ ToSet(s) = {m \in ToSet(a) : m.priority = "steer"}
      /\ t \in Seq(Message) /\ InOrder(FALSE, t)
      /\ ToSet(t) = {m \in ToSet(a) : m.priority = "normal"}
  BY HalfOrdered
<1>2. SteerFirst(a) = s \o t
  BY DEF SteerFirst
<1> HIDE DEF s, t
<1>3. /\ DOMAIN s = 1 .. Len(s) /\ Len(s) \in Nat /\ DOMAIN t = 1 .. Len(t) /\ Len(t) \in Nat
      /\ s \o t \in Seq(Message) /\ DOMAIN (s \o t) = 1 .. Len(s) + Len(t)
      /\ \A i \in 1 .. Len(s) + Len(t) : (s \o t)[i] = IF i <= Len(s) THEN s[i] ELSE t[i - Len(s)]
  BY <1>1
<1>4. /\ \A i \in DOMAIN s : s[i].priority = "steer" /\ i \in DOMAIN (s \o t) /\ (s \o t)[i] = s[i]
      /\ \A i \in DOMAIN t : /\ t[i].priority = "normal"
                             /\ i + Len(s) \in DOMAIN (s \o t) /\ (s \o t)[i + Len(s)] = t[i]
      /\ \A i \in DOMAIN (s \o t) : \/ i \in DOMAIN s
                                    \/ i - Len(s) \in DOMAIN t /\ ~(i <= Len(s))
  <2>1. \A i \in DOMAIN s : s[i].priority = "steer"
    BY <1>1 DEF ToSet
  <2>2. \A i \in DOMAIN t : t[i].priority = "normal"
    BY <1>1 DEF ToSet
  <2>3. \A i \in DOMAIN t : /\ i + Len(s) \in DOMAIN (s \o t)
                             /\ ~(i + Len(s) <= Len(s)) /\ (i + Len(s)) - Len(s) = i
    BY <1>3
  <2>4. \A i \in DOMAIN t : (s \o t)[i + Len(s)] = t[i]
    BY <1>3, <2>3
  <2> QED BY <1>3, <2>1, <2>2, <2>3, <2>4
<1>5. ToSet(s \o t) = ToSet(a)
  <2>1. ToSet(s \o t) = ToSet(s) \cup ToSet(t)
    <3>1. ToSet(s \o t) \subseteq ToSet(s) \cup ToSet(t)
      BY <1>3, <1>4 DEF ToSet
    <3>2. ToSet(s) \subseteq ToSet(s \o t)
      BY <1>4 DEF ToSet
    <3>3. ToSet(t) \subseteq ToSet(s \o t)
      BY <1>4 DEF ToSet
    <3> QED BY <3>1, <3>2, <3>3
  <2>2. \A m \in ToSet(a) : m.priority \in {"steer", "normal"}
    BY SeqParts DEF ToSet
  <2> QED BY <1>1, <2>1, <2>2
<1>6. Sorted(TRUE, s \o t)
  <2> SUFFICES ASSUME NEW i \in DOMAIN (s \o t), NEW j \in DOMAIN (s \o t), i < j
               PROVE  Ahead(TRUE, (s \o t)[i], (s \o t)[j])
    BY DEF Sorted
  <2>1. CASE i \in DOMAIN s /\ j \in DOMAIN s
    BY <1>1, <1>4, <2>1 DEF InOrder, Ahead
  <2>2. CASE i \in DOMAIN s /\ j \notin DOMAIN s
    <3>1. (s \o t)[j].priority = "normal" /\ (s \o t)[i].priority = "steer"
      BY <1>3, <1>4, <2>2
    <3> QED BY <3>1 DEF Ahead
  <2>3. CASE i \notin DOMAIN s
    <3>1. j \notin DOMAIN s
      BY <1>3, <2>3
    <3>2. /\ i - Len(s) \in DOMAIN t /\ j - Len(s) \in DOMAIN t /\ i - Len(s) < j - Len(s)
          /\ (s \o t)[i] = t[i - Len(s)] /\ (s \o t)[j] = t[j - Len(s)]
      BY <1>3, <1>4, <2>3, <3>1
    <3> QED BY <1>1, <1>4, <3>2 DEF InOrder, Ahead
  <2> QED BY <2>1, <2>2, <2>3
<1> QED BY <1>2, <1>3, <1>5, <1>6

(* A message older than the others of a set is its Oldest. *)
LEMMA OldestIs ==
  ASSUME NEW S \in SUBSET Message, NEW m \in S, \A k \in S \ {m} : m.id < k.id
  PROVE  Oldest(S) = m
<1>1. Oldest(S) \in S /\ Oldest(S).id <= m.id
  BY OldestIn
<1>2. m.id \in Nat /\ Oldest(S).id \in Nat
  BY <1>1 DEF Message
<1> QED BY <1>1, <1>2

(* shift() takes the oldest message, of a queue without normal ones at least. *)
LEMMA FirstOldest ==
  ASSUME NEW a \in Seq(Message), NEW by \in BOOLEAN, InOrder(by, a), a # <<>>,
         by => \A i \in DOMAIN a : a[i].priority = "steer"
  PROVE  Oldest(ToSet(a)) = a[1]
<1>1. DOMAIN a = 1 .. Len(a) /\ Len(a) \in Nat /\ 1 \in DOMAIN a
  OBVIOUS
<1>2. \A i \in DOMAIN a : i # 1 => a[1].id < a[i].id
  BY <1>1 DEF InOrder
<1>3. ToSet(a) \in SUBSET Message /\ a[1] \in ToSet(a)
  BY <1>1, ToSetMessages DEF ToSet
<1>4. \A k \in ToSet(a) \ {a[1]} : a[1].id < k.id
  BY <1>2 DEF ToSet
<1> QED BY <1>3, <1>4, OldestIs

(* Room in the queue of a sandbox. *)
LEMMA RoomMade ==
  ASSUME NEW a \in Seq(Message), InOrder(TRUE, a), Len(a) <= MaxQueue
  PROVE  /\ MakeRoom(a) \in Seq(Message) /\ Len(MakeRoom(a)) < MaxQueue
         /\ ToSet(MakeRoom(a)) = Trimmed(TRUE, ToSet(a))
         /\ InOrder(TRUE, MakeRoom(a))
<1>1. /\ DOMAIN a = 1 .. Len(a) /\ Len(a) \in Nat
      /\ \A i \in DOMAIN a : a[i] \in Message /\ a[i].priority \in {"steer", "normal"}
  BY SeqParts
<1>2. Cardinality(ToSet(a)) = Len(a) /\ ToSet(a) \in SUBSET Message
  BY QueueSize, ToSetMessages
<1>3. CASE Len(a) < MaxQueue
  BY <1>2, <1>3 DEF MakeRoom, Trimmed
<1>4. CASE ~(Len(a) < MaxQueue) /\ \E i \in DOMAIN a : IsNormal(a[i])
  <2> DEFINE I == {i \in DOMAIN a : IsNormal(a[i])}
  <2>1. I \in SUBSET Nat /\ I # {}
    BY <1>1, <1>4
  <2>2. PICK k \in I : \A i \in I : k <= i
    <3> HIDE DEF I
    <3> QED BY <2>1, LeastExists
  <2>3. k \in 1 .. Len(a) /\ IsNormal(a[k])
    BY <1>1
  <2>4. SelectInSeq(a, IsNormal) = k
    <3>1. \A i \in 1 .. Len(a) : IsNormal(a[i]) => k <= i
      BY <1>1, <2>2
    <3> QED BY <2>3, <3>1 DEF SelectInSeq, Min
  <2>5. MakeRoom(a) = RemoveAt(a, k)
    BY <1>1, <1>4, <2>4 DEF MakeRoom, RemoveFirstMatch
  <2>6. Oldest(Normals(ToSet(a))) = a[k] /\ Normals(ToSet(a)) # {}
    <3>1. Normals(ToSet(a)) \in SUBSET Message /\ a[k] \in Normals(ToSet(a))
      BY <1>1, <1>2, <2>3 DEF Normals, ToSet, IsNormal
    <3>2. ASSUME NEW m \in Normals(ToSet(a)) \ {a[k]} PROVE a[k].id < m.id
      <4>1. PICK i \in DOMAIN a : a[i] = m /\ i # k
        BY <3>2 DEF Normals, ToSet
      <4>2. IsNormal(a[i]) /\ i \in Nat /\ k \in Nat /\ k < i
        BY <1>1, <2>2, <3>2, <4>1 DEF Normals, IsNormal
      <4> QED BY <1>1, <2>3, <4>1, <4>2 DEF InOrder, IsNormal
    <3> QED BY <3>1, <3>2, OldestIs
  <2>7. Trimmed(TRUE, ToSet(a)) = ToSet(a) \ {a[k]}
    BY <1>2, <1>4, <2>6 DEF Trimmed
  <2>8. Len(a) - 1 < MaxQueue
    BY <1>1, MaxQueueAssumption
  <2> QED BY <2>3, <2>5, <2>7, <2>8, Spliced
<1>5. CASE ~(Len(a) < MaxQueue) /\ \A i \in DOMAIN a : ~IsNormal(a[i])
  <2>1. a # <<>> /\ Len(a) - 1 < MaxQueue
    <3>1. Len(a) # 0 /\ Len(a) - 1 < MaxQueue
      BY <1>1, <1>5, MaxQueueAssumption
    <3> QED BY <3>1
  <2>2. MakeRoom(a) = Tail(a)
    BY <1>5 DEF MakeRoom
  <2>3. Normals(ToSet(a)) = {}
    BY <1>5 DEF Normals, ToSet, IsNormal
  <2>4. Oldest(ToSet(a)) = a[1]
    BY <1>1, <1>5, <2>1, FirstOldest DEF IsNormal
  <2>5. Trimmed(TRUE, ToSet(a)) = ToSet(a) \ {a[1]}
    BY <1>2, <1>5, <2>3, <2>4 DEF Trimmed
  <2> QED BY <2>1, <2>2, <2>5, Shifted
<1> QED BY <1>3, <1>4, <1>5

(* Room in the orchestrator's queue, made after the message was pushed. *)
LEMMA ShiftedLater ==
  ASSUME NEW a \in Seq(Message), InOrder(FALSE, a), Len(a) <= MaxQueue, NEW m \in Message
  PROVE  \E r \in Seq(Message) : /\ ShiftIfTooLong(Append(a, m)) = Append(r, m)
                                 /\ Len(r) < MaxQueue
                                 /\ ToSet(r) = Trimmed(FALSE, ToSet(a))
                                 /\ InOrder(FALSE, r)
<1>1. DOMAIN a = 1 .. Len(a) /\ Len(a) \in Nat /\ Len(Append(a, m)) = Len(a) + 1
  OBVIOUS
<1>2. Cardinality(ToSet(a)) = Len(a)
  BY QueueSize
<1>3. CASE Len(a) < MaxQueue
  <2>1. ShiftIfTooLong(Append(a, m)) = Append(a, m)
    <3>1. ~(Len(a) + 1 > MaxQueue)
      BY <1>1, <1>3, MaxQueueAssumption
    <3> QED BY <1>1, <3>1 DEF ShiftIfTooLong
  <2> QED BY <1>2, <1>3, <2>1 DEF Trimmed
<1>4. CASE ~(Len(a) < MaxQueue)
  <2>1. a # <<>> /\ Len(a) - 1 < MaxQueue /\ Len(a) + 1 > MaxQueue
    <3>1. Len(a) # 0 /\ Len(a) - 1 < MaxQueue /\ Len(a) + 1 > MaxQueue
      BY <1>1, <1>4, MaxQueueAssumption
    <3> QED BY <3>1
  <2>2. ShiftIfTooLong(Append(a, m)) = Append(Tail(a), m)
    <3>1. Tail(Append(a, m)) = Append(Tail(a), m)
      BY <2>1
    <3> QED BY <1>1, <2>1, <3>1 DEF ShiftIfTooLong
  <2>3. Trimmed(FALSE, ToSet(a)) = ToSet(a) \ {a[1]}
    BY <1>2, <1>4, <2>1, FirstOldest DEF Trimmed
  <2> QED BY <2>1, <2>2, <2>3, Shifted
<1> QED BY <1>3, <1>4

(* enqueueMessage and pushToOrchestrator: what they leave is the queue that the
   policy trims, and the message at its end. *)
LEMMA PushTrims ==
  ASSUME bySteer \in BOOLEAN, NEW a \in Seq(Message), InOrder(bySteer, a),
         Len(a) <= MaxQueue, NEW m \in Message
  PROVE  \E r \in Seq(Message) : /\ Push(a, m) = Append(r, m)
                                 /\ Len(r) < MaxQueue
                                 /\ ToSet(r) = Trimmed(bySteer, ToSet(a))
                                 /\ InOrder(bySteer, r)
<1>1. CASE bySteer
  <2>1. bySteer = TRUE /\ Push(a, m) = Append(MakeRoom(a), m)
    BY <1>1 DEF Push
  <2> QED BY <2>1, RoomMade
<1>2. CASE ~bySteer
  <2>1. bySteer = FALSE /\ Push(a, m) = ShiftIfTooLong(Append(a, m))
    BY <1>2 DEF Push
  <2> QED BY <2>1, ShiftedLater
<1> QED BY <1>1, <1>2

(* indexOf and splice take out the message that was pushed last. *)
LEMMA TakenBack ==
  ASSUME NEW r \in Seq(Message), NEW m \in Message, \A i \in DOMAIN r : r[i] # m
  PROVE  RemoveFirst(Append(r, m), m) = r
<1> DEFINE s == Append(r, m)
           k == Len(r) + 1
<1>1. /\ DOMAIN r = 1 .. Len(r) /\ Len(r) \in Nat /\ s \in Seq(Message) /\ Len(s) = k
      /\ \A i \in 1 .. Len(r) : s[i] = r[i]
      /\ s[k] = m /\ k \in 1 .. Len(s)
  OBVIOUS
<1>2. {i \in 1 .. Len(s) : s[i] = m} = {k}
  BY <1>1
<1>3. SelectInSeq(s, LAMBDA v : v = m) = k
  <2> HIDE DEF s
  <2>1. Min({k}) = k
    <3>1. k <= k
      BY <1>1
    <3> QED BY <3>1 DEF Min
  <2> HIDE DEF k
  <2> QED BY <1>2, <2>1 DEF SelectInSeq
<1>4. RemoveFirst(s, m) = RemoveAt(s, k)
  <2>1. \E i \in 1 .. Len(s) : s[i] = m
    BY <1>1
  <2> HIDE DEF s, k
  <2> QED BY <1>3, <2>1 DEF RemoveFirst
<1>5. RemoveAt(s, k) = r
  <2>1. /\ RemoveAt(s, k) \in Seq(Message) /\ Len(RemoveAt(s, k)) = Len(r)
        /\ \A i \in 1 .. Len(r) : RemoveAt(s, k)[i] = r[i]
    <3> HIDE DEF s
    <3>1. /\ RemoveAt(s, k) \in Seq(Message) /\ Len(RemoveAt(s, k)) = Len(s) - 1
          /\ \A i \in 1 .. Len(s) - 1 : RemoveAt(s, k)[i] = IF i < k THEN s[i] ELSE s[i + 1]
      BY <1>1, RemoveAtGap
    <3>2. \A i \in 1 .. Len(r) : i < k
      BY <1>1
    <3> QED BY <1>1, <3>1, <3>2
  <2> HIDE DEF s, k
  <2> QED BY <2>1
<1> QED BY <1>4, <1>5

(* What a drain takes is the batch, and leaves the rest. *)
LEMMA DrainTakesBatch ==
  ASSUME NEW by \in BOOLEAN, NEW d \in Seq(Message), Sorted(by, d), NEW limit \in Nat
  PROVE  LET taken == FirstOnes(d, limit)
             rest  == SubSeq(d, Len(taken) + 1, Len(d))
         IN  /\ taken \in Seq(Message) /\ Sorted(by, taken)
             /\ ToSet(taken) = Batch(by, ToSet(d), limit)
             /\ rest \in Seq(Message) /\ Sorted(by, rest) /\ Len(rest) <= Len(d)
             /\ ToSet(rest) = ToSet(d) \ ToSet(taken)
<1> DEFINE taken == FirstOnes(d, limit)
           rest  == SubSeq(d, Len(taken) + 1, Len(d))
           n     == IF Len(d) <= limit THEN Len(d) ELSE limit
<1>1. /\ DOMAIN d = 1 .. Len(d) /\ Len(d) \in Nat /\ n \in 0 .. Len(d)
      /\ \A i \in DOMAIN d : d[i] \in Message /\ d[i].id \in Nat
                             /\ d[i].priority \in {"steer", "normal"}
  <2>1. n \in 0 .. Len(d)
    OBVIOUS
  <2> QED BY <2>1, SeqParts
<1>2. \A i \in DOMAIN d : i <= n <=> i - 1 < limit
  BY <1>1
<1> HIDE DEF n
<1>3. taken \in Seq(Message) /\ Len(taken) = n /\ \A i \in 1 .. n : taken[i] = d[i]
  BY <1>1 DEF FirstOnes, n
<1> HIDE DEF taken
<1>4. /\ rest \in Seq(Message) /\ Len(rest) = Len(d) - n
      /\ \A i \in 1 .. Len(d) - n : rest[i] = d[n + i]
  <2>1. n \in Nat /\ n <= Len(d) /\ Len(d) \in Nat
    BY <1>1
  <2>2. rest = SubSeq(d, n + 1, Len(d))
    BY <1>3
  <2> HIDE DEF rest
  <2> QED BY <2>1, <2>2
<1> HIDE DEF rest
<1>5. DOMAIN taken = 1 .. n /\ DOMAIN rest = 1 .. Len(d) - n /\ 1 .. n \subseteq DOMAIN d
  BY <1>1, <1>3, <1>4
<1>6. \A i \in DOMAIN rest : n + i \in DOMAIN d /\ n + i \notin 1 .. n
  BY <1>1, <1>5
<1>7. Sorted(by, taken)
  BY <1>3, <1>5 DEF Sorted
<1>8. Sorted(by, rest)
  <2>1. \A i, j \in DOMAIN rest : i < j => n + i < n + j
    BY <1>1, <1>5
  <2> QED BY <1>4, <1>5, <1>6, <2>1 DEF Sorted
<1>9. \A i, j \in DOMAIN d : Ahead(by, d[i], d[j]) <=> i < j
  <2> TAKE i, j \in DOMAIN d
  <2>1. CASE i < j
    BY <2>1 DEF Sorted
  <2>2. CASE i = j
    BY <1>1, <2>2 DEF Ahead
  <2>3. CASE j < i
    <3>1. Ahead(by, d[j], d[i])
      BY <2>3 DEF Sorted
    <3> QED BY <1>1, <2>3, <3>1 DEF Ahead
  <2> QED BY <1>1, <2>1, <2>2, <2>3
<1>10. ASSUME NEW i \in DOMAIN d
       PROVE  Cardinality({k \in ToSet(d) : Ahead(by, k, d[i])}) = i - 1
  <2> DEFINE before == SubSeq(d, 1, i - 1)
  <2>1. /\ before \in Seq(Message) /\ Len(before) = i - 1
        /\ DOMAIN before = 1 .. i - 1 /\ \A j \in 1 .. i - 1 : before[j] = d[j]
    BY <1>1
  <2> HIDE DEF before
  <2>2. Sorted(by, before)
    <3>1. 1 .. i - 1 \subseteq DOMAIN d
      BY <1>1
    <3> QED BY <2>1, <3>1 DEF Sorted
  <2>3. {k \in ToSet(d) : Ahead(by, k, d[i])} = ToSet(before)
    <3>1. \A j \in DOMAIN d : j < i <=> j \in 1 .. i - 1
      BY <1>1
    <3>2. 1 .. i - 1 \subseteq DOMAIN d
      BY <1>1
    <3> QED BY <1>9, <2>1, <3>1, <3>2 DEF ToSet
  <2> QED BY <2>1, <2>2, <2>3, SortedInOrder, QueueSize
<1>11. \A i \in DOMAIN d : d[i] \in Batch(by, ToSet(d), limit) <=> i \in 1 .. n
  <2> TAKE i \in DOMAIN d
  <2>1. d[i] \in ToSet(d)
    BY DEF ToSet
  <2>2. d[i] \in Batch(by, ToSet(d), limit) <=> i - 1 < limit
    BY <1>10, <2>1 DEF Batch
  <2>3. i \in 1 .. n <=> i <= n
    BY <1>1
  <2> QED BY <1>2, <2>2, <2>3
<1>12. ToSet(taken) = Batch(by, ToSet(d), limit)
  <2>1. ToSet(taken) = {d[i] : i \in 1 .. n}
    BY <1>3, <1>5 DEF ToSet
  <2>2. Batch(by, ToSet(d), limit) \subseteq ToSet(d)
    BY DEF Batch
  <2> QED BY <1>5, <1>11, <2>1, <2>2 DEF ToSet
<1>13. ToSet(rest) = ToSet(d) \ ToSet(taken)
  <2>1. \A i \in DOMAIN d : d[i] \in ToSet(taken) <=> i \in 1 .. n
    BY <1>11, <1>12
  <2>2. \A i \in DOMAIN rest : rest[i] \in ToSet(d) \ ToSet(taken)
    BY <1>4, <1>5, <1>6, <2>1 DEF ToSet
  <2>3. ASSUME NEW i \in DOMAIN d, i \notin 1 .. n PROVE d[i] \in ToSet(rest)
    <3>1. i - n \in DOMAIN rest /\ n + (i - n) = i
      BY <1>1, <1>5, <2>3
    <3>2. rest[i - n] = d[i]
      BY <1>4, <1>5, <3>1
    <3> QED BY <3>1, <3>2 DEF ToSet
  <2>4. ToSet(rest) \subseteq ToSet(d) \ ToSet(taken)
    BY <2>2 DEF ToSet
  <2>5. ToSet(d) \ ToSet(taken) \subseteq ToSet(rest)
    BY <2>1, <2>3 DEF ToSet
  <2> QED BY <2>4, <2>5
<1>14. Len(rest) <= Len(d)
  BY <1>1, <1>4
<1> QED BY <1>3, <1>4, <1>7, <1>8, <1>12, <1>13, <1>14 DEF taken, rest

-----------------------------------------------------------------------------
(* The queue keeps what it promises. *)

\* The queue is no longer than maxQueueSize; ids grow, those of each priority if
\* a drain may have reordered them; a reply is in the order of a drain.
ArrayInv ==
  /\ bySteer \in BOOLEAN /\ sent \in Nat
  /\ array \in Seq(Message) /\ Len(array) <= MaxQueue
  /\ \A i \in DOMAIN array : array[i].id <= sent
  /\ InOrder(bySteer, array)
  /\ out \in Seq(Message) /\ Sorted(bySteer, out)

(* The policy of MailboxSpec is that of Mailbox. *)
LEMMA PolicySame ==
  ASSUME NEW by, NEW Q, NEW limit
  PROVE  /\ Abstract!Trimmed(by, Q) = Trimmed(by, Q)
         /\ Abstract!Batch(by, Q, limit) = Batch(by, Q, limit)
<1>1. \A S : Abstract!Cardinality(S) = Cardinality(S)
  BY DEF Cardinality, Abstract!Cardinality
<1>2. \A S : Abstract!Oldest(S) = Oldest(S) /\ Abstract!Normals(S) = Normals(S)
  BY DEF Oldest, Abstract!Oldest, Normals, Abstract!Normals
<1>3. Abstract!Trimmed(by, Q) = Trimmed(by, Q)
  BY <1>1, <1>2 DEF Trimmed, Abstract!Trimmed
<1>4. \A a, b : Abstract!Ahead(by, a, b) = Ahead(by, a, b)
  BY DEF Ahead, Abstract!Ahead
<1>5. Abstract!Batch(by, Q, limit) = Batch(by, Q, limit)
  BY <1>1, <1>4 DEF Batch, Abstract!Batch
<1> QED BY <1>3, <1>5

LEMMA Nothing ==
  /\ <<>> \in Seq(Message) /\ ToSet(<<>>) = {}
  /\ \A by : Sorted(by, <<>>) /\ InOrder(by, <<>>)
<1>1. <<>> \in Seq(Message) /\ DOMAIN <<>> = {}
  OBVIOUS
<1> QED BY <1>1 DEF ToSet, Sorted, InOrder

LEMMA JustOne ==
  ASSUME NEW m \in Message
  PROVE  <<m>> \in Seq(Message) /\ ToSet(<<m>>) = {m} /\ \A by : Sorted(by, <<m>>)
<1>1. <<m>> \in Seq(Message) /\ DOMAIN <<m>> = {1} /\ <<m>>[1] = m
  OBVIOUS
<1> QED BY <1>1 DEF ToSet, Sorted

(* A message is sent: before, the queue was trimmed; after, the message is its last. *)
LEMMA SendStep ==
  ASSUME ArrayInv, NEW p \in {"steer", "normal"}, sent' = sent + 1, bySteer' = bySteer
  PROVE  /\ New(p) \in Message
         /\ \E r \in Seq(Message) :
              /\ Push(array, New(p)) = Append(r, New(p))
              /\ ToSet(r) = Trimmed(bySteer, ToSet(array))
              /\ InOrder(bySteer, r) /\ Len(r) < MaxQueue
              /\ \A i \in DOMAIN r : r[i].id < New(p).id /\ r[i] # New(p)
<1>1. New(p) \in Message /\ New(p).id = sent + 1
  BY DEF New, Message, Priority, ArrayInv
<1>2. PICK r \in Seq(Message) : /\ Push(array, New(p)) = Append(r, New(p))
                                /\ Len(r) < MaxQueue
                                /\ ToSet(r) = Trimmed(bySteer, ToSet(array))
                                /\ InOrder(bySteer, r)
  BY <1>1, PushTrims DEF ArrayInv
<1>3. \A i \in DOMAIN r : r[i].id < New(p).id
  <2> TAKE i \in DOMAIN r
  <2>1. r[i] \in ToSet(array)
    BY <1>2, TrimmedSubset DEF ArrayInv, ToSet
  <2>2. PICK j \in DOMAIN array : array[j] = r[i]
    BY <2>1 DEF ToSet
  <2>3. array[j].id \in Nat /\ array[j].id <= sent /\ sent \in Nat
    BY SeqParts DEF ArrayInv
  <2> QED BY <1>1, <2>2, <2>3
<1>4. \A i \in DOMAIN r : r[i] # New(p)
  <2>1. New(p).id \in Nat
    BY <1>1 DEF Message
  <2> QED BY <1>3, <2>1
<1> QED BY <1>1, <1>2, <1>3, <1>4

(* Every call keeps the invariant and does what the abstract queue may do. *)
LEMMA ArrayStep ==
  ASSUME ArrayInv, Next, bySteer' = bySteer
  PROVE  ArrayInv' /\ Abstract!Next
<1>0. bySteer \in BOOLEAN /\ sent \in Nat
  BY DEF ArrayInv
<1>1. ASSUME NEW p \in {"steer", "normal"}, Queued(p) PROVE ArrayInv' /\ Abstract!Next
  <2>1. sent' = sent + 1 /\ sent < MaxMsgs /\ array' = Push(array, New(p)) /\ out' = <<>>
    BY <1>1 DEF Queued
  <2>2. PICK r \in Seq(Message) : /\ Push(array, New(p)) = Append(r, New(p))
                                  /\ ToSet(r) = Trimmed(bySteer, ToSet(array))
                                  /\ InOrder(bySteer, r) /\ Len(r) < MaxQueue
                                  /\ \A i \in DOMAIN r : r[i].id < New(p).id /\ r[i] # New(p)
    BY <2>1, SendStep
  <2>3. New(p) \in Message /\ New(p).id = sent + 1
    BY <1>0, <2>1, SendStep DEF New
  <2>4. /\ array' \in Seq(Message) /\ Len(array') = Len(r) + 1
        /\ ToSet(array') = ToSet(r) \cup {New(p)} /\ InOrder(bySteer, array')
    BY <1>0, <2>1, <2>2, <2>3, Enqueued
  <2>5. \A m \in ToSet(array') : m.id <= sent + 1
    <3>1. \A i \in DOMAIN r : r[i].id \in Nat
      BY SeqParts
    <3> QED BY <1>0, <2>2, <2>3, <2>4, <3>1 DEF ToSet
  <2>6. \A i \in DOMAIN array' : array'[i].id <= sent'
    BY <2>1, <2>5 DEF ToSet
  <2>7. Len(array') <= MaxQueue /\ sent' \in Nat
    <3>1. Len(r) \in Nat
      OBVIOUS
    <3> QED BY <1>0, <2>1, <2>2, <2>4, <3>1, MaxQueueAssumption
  <2>8. ArrayInv'
    BY <1>0, <2>1, <2>4, <2>6, <2>7, Nothing DEF ArrayInv
  <2>9. Abstract!Queued(p)
    BY <2>1, <2>2, <2>4, Nothing, PolicySame DEF Abstract!Queued, Abstract!New, New
  <2> QED BY <2>8, <2>9 DEF Abstract!Next, Abstract!Priority
<1>2. ASSUME NEW p \in {"steer", "normal"}, Pushed(p) PROVE ArrayInv' /\ Abstract!Next
  <2>1. /\ sent' = sent + 1 /\ sent < MaxMsgs /\ out' = <<New(p)>>
        /\ array' = RemoveFirst(Push(array, New(p)), New(p))
    BY <1>2 DEF Pushed
  <2>2. PICK r \in Seq(Message) : /\ Push(array, New(p)) = Append(r, New(p))
                                  /\ ToSet(r) = Trimmed(bySteer, ToSet(array))
                                  /\ InOrder(bySteer, r) /\ Len(r) < MaxQueue
                                  /\ \A i \in DOMAIN r : r[i].id < New(p).id /\ r[i] # New(p)
    BY <2>1, SendStep
  <2>3. New(p) \in Message /\ New(p).id = sent + 1
    BY <1>0, <2>1, SendStep DEF New
  <2>4. array' = r
    BY <2>1, <2>2, <2>3, TakenBack
  <2>5. /\ \A i \in DOMAIN array' : array'[i].id <= sent'
        /\ Len(array') <= MaxQueue /\ sent' \in Nat
    <3>1. Len(r) \in Nat /\ \A i \in DOMAIN r : r[i].id \in Nat
      BY SeqParts
    <3> QED BY <1>0, <2>1, <2>2, <2>3, <2>4, <3>1, MaxQueueAssumption
  <2>6. ArrayInv'
    BY <1>0, <2>1, <2>2, <2>3, <2>4, <2>5, JustOne DEF ArrayInv
  <2>7. Abstract!Pushed(p)
    BY <2>1, <2>2, <2>3, <2>4, JustOne, PolicySame DEF Abstract!Pushed, Abstract!New, New
  <2> QED BY <2>6, <2>7 DEF Abstract!Next, Abstract!Priority
<1>3. ASSUME NEW limit \in Limits, Drained(limit) PROVE ArrayInv' /\ Abstract!Next
  <2> DEFINE d == DrainOrder(array)
  <2>1. limit \in Nat
    BY LimitsAssumption
  <2>2. d \in Seq(Message) /\ ToSet(d) = ToSet(array) /\ Sorted(bySteer, d)
    <3>1. CASE bySteer
      <4>1. bySteer = TRUE /\ d = SteerFirst(array)
        BY <3>1 DEF DrainOrder
      <4> QED BY <4>1, Partitioned DEF ArrayInv
    <3>2. CASE ~bySteer
      <4>1. bySteer = FALSE /\ d = array
        BY <3>2 DEF DrainOrder
      <4> QED BY <4>1 DEF ArrayInv, InOrder, Sorted, Ahead
    <3> QED BY <3>1, <3>2
  <2>3. out' = FirstOnes(d, limit) /\ array' = SubSeq(d, Len(out') + 1, Len(d)) /\ sent' = sent
    BY <1>3 DEF Drained
  <2>4. Len(d) = Len(array)
    BY <1>0, <2>2, QueueSize, SortedInOrder DEF ArrayInv
  <2> HIDE DEF d
  <2>5. /\ out' \in Seq(Message) /\ Sorted(bySteer, out')
        /\ ToSet(out') = Batch(bySteer, ToSet(array), limit)
        /\ array' \in Seq(Message) /\ Sorted(bySteer, array') /\ Len(array') <= Len(d)
        /\ ToSet(array') = ToSet(array) \ ToSet(out')
    <3> DEFINE taken == FirstOnes(d, limit)
               rest  == SubSeq(d, Len(taken) + 1, Len(d))
    <3>1. /\ taken \in Seq(Message) /\ Sorted(bySteer, taken)
          /\ ToSet(taken) = Batch(bySteer, ToSet(d), limit)
          /\ rest \in Seq(Message) /\ Sorted(bySteer, rest) /\ Len(rest) <= Len(d)
          /\ ToSet(rest) = ToSet(d) \ ToSet(taken)
      BY <1>0, <2>1, <2>2, DrainTakesBatch
    <3>2. out' = taken /\ array' = rest
      BY <2>3
    <3> HIDE DEF taken, rest
    <3> QED BY <2>2, <3>1, <3>2
  <2>6. /\ \A i \in DOMAIN array' : array'[i].id <= sent'
        /\ Len(array') <= MaxQueue
    <3>1. \A m \in ToSet(array) : m.id <= sent
      BY DEF ArrayInv, ToSet
    <3>2. \A i \in DOMAIN array' : array'[i] \in ToSet(array)
      BY <2>5 DEF ToSet
    <3>3. Len(array') <= MaxQueue
      <4>1. Len(array') \in Nat /\ Len(array) \in Nat
        BY <2>5 DEF ArrayInv
      <4> QED BY <2>4, <2>5, <4>1, MaxQueueAssumption DEF ArrayInv
    <3> QED BY <2>3, <3>1, <3>2, <3>3
  <2>7. ArrayInv'
    BY <1>0, <2>3, <2>5, <2>6, SortedInOrder DEF ArrayInv
  <2>8. Abstract!Drained(limit)
    BY <2>3, <2>5, PolicySame DEF Abstract!Drained
  <2> QED BY <2>7, <2>8 DEF Abstract!Next
<1> QED BY <1>1, <1>2, <1>3 DEF Next

LEMMA ArrayInit == Init => ArrayInv /\ Abstract!Init
BY Nothing, MaxQueueAssumption DEF Init, ArrayInv, Abstract!Init

LEMMA ArrayKept == ArrayInv /\ [Next /\ UNCHANGED bySteer]_vars => ArrayInv'
<1>1. CASE UNCHANGED vars
  BY <1>1 DEF vars, ArrayInv
<1> QED BY <1>1, ArrayStep

LEMMA ArrayAlways == Spec => []ArrayInv
BY ArrayInit, ArrayKept, PTL DEF Spec

\* Replies list steer messages before normal ones and keep the order of sending
\* otherwise, however the drains and sends before them followed each other.
THEOREM RepliesOrdered == Spec => []RepliesInOrder
<1>1. ArrayInv => RepliesInOrder
  <2> SUFFICES ASSUME ArrayInv, NEW i \in DOMAIN out, NEW j \in DOMAIN out, i < j
               PROVE  \/ bySteer /\ IsSteer(out[i]) /\ IsNormal(out[j])
                      \/ out[i].id < out[j].id /\ (bySteer => out[i].priority = out[j].priority)
    BY DEF RepliesInOrder
  <2>1. /\ Ahead(bySteer, out[i], out[j])
        /\ out[i].priority \in {"steer", "normal"} /\ out[j].priority \in {"steer", "normal"}
    BY SeqParts DEF ArrayInv, Sorted
  <2> QED BY <2>1 DEF Ahead, IsSteer, IsNormal
<1> QED BY <1>1, ArrayAlways, PTL

\* The arrays implement the abstract queue: every call drops, pushes and drains
\* what the policy says, for any maxQueueSize, any limits and any history.
THEOREM ArraysImplement == Spec => ImplementsMailbox
<1>1. Init => Abstract!Init
  BY ArrayInit
<1>2. ArrayInv /\ [Next /\ UNCHANGED bySteer]_vars
        => [Abstract!Next /\ UNCHANGED bySteer]_<<bySteer, ToSet(array), ToSet(out), sent>>
  <2>1. CASE UNCHANGED vars
    BY <2>1 DEF vars
  <2> QED BY <2>1, ArrayStep
<1> QED BY <1>1, <1>2, ArrayAlways, PTL DEF Spec, ImplementsMailbox, Abstract!Spec

=============================================================================
