-------------------------- MODULE RabbitmqUtilProofs --------------------------
(***************************************************************************)
(* Theorems about RabbitmqUtil, for every set of messages, whichever are   *)
(* poisonous or expire, and every kind of fault.                           *)
(***************************************************************************)
EXTENDS RabbitmqUtil, FiniteSetTheorems, SequenceTheorems, TLAPS

(***************************************************************************)
(* What is acknowledged was processed.                                     *)
(***************************************************************************)

Queued == ready \in Seq(Msgs) /\ flight \in Seq(Msgs)

\* The delivery that will be acknowledged is the head of flight, and processed.
HandlesHead ==
  /\ handling \in {"ack", "nack"} => flight # <<>>
  /\ handling = "ack" => Head(flight) \in processed

AckInv == Queued /\ HandlesHead /\ AckedWasProcessed

LEMMA AckInit == Init => AckInv
BY DEF Init, AckInv, Queued, HandlesHead, AckedWasProcessed

\* One step keeps AckInv: what is pushed goes behind the head, and a break makes
\* the acknowledgement stale before the head changes.
LEMMA AckStep == AckInv /\ [Next]_vars => AckInv'
<1> SUFFICES ASSUME AckInv, [Next]_vars PROVE AckInv'
  OBVIOUS
<1> USE DEF AckInv, Queued, HandlesHead, AckedWasProcessed, queueVars
<1>1. CASE CreateConnection \/ BindConsumer \/ StartConsumer \/ Finished \/ UNCHANGED vars
  BY <1>1 DEF CreateConnection, BindConsumer, StartConsumer, Finished, vars
<1>2. CASE SendStep
  <2> PICK m \in Msgs : Declare(m) \/ Publish(m) \/ Close(m)
    BY <1>2 DEF SendStep
  <2>1. CASE Declare(m)
    BY <2>1 DEF Declare
  <2>2. CASE Publish(m)
    BY <2>2, SMTT(30) DEF Publish
  <2>3. CASE Close(m)
    BY <2>3 DEF Close
  <2> QED
    BY <2>1, <2>2, <2>3
<1>3. CASE Expire
  BY <1>3 DEF Expire
<1>4. CASE Push
  <2> PICK n \in 1 .. Len(ready) : PushSome(n)
    BY <1>4 DEF Push
  <2>1. SubSeq(ready, 1, n) \in Seq(Msgs) /\ SubSeq(ready, n + 1, Len(ready)) \in Seq(Msgs)
    OBVIOUS
  <2>2. Queued'
    BY <2>1 DEF PushSome
  <2>3. HandlesHead'
    <3> SUFFICES ASSUME handling \in {"ack", "nack"}
                 PROVE  flight' # <<>> /\ Head(flight') = Head(flight)
      BY DEF PushSome
    <3>1. flight # <<>> /\ flight \in Seq(Msgs)
      OBVIOUS
    <3>2. flight' = flight \o SubSeq(ready, 1, n)
      BY DEF PushSome
    <3>3. Len(flight) >= 1 /\ Len(flight') >= 1 /\ flight'[1] = flight[1]
      BY <2>1, <3>1, <3>2
    <3> QED
      BY <2>2, <3>1, <3>3
  <2> QED
    BY <2>2, <2>3 DEF PushSome
<1>5. CASE Break
  BY <1>5 DEF Break
<1>6. CASE Consume
  BY <1>6 DEF Consume
<1>7. CASE Acknowledge
  BY <1>7 DEF Acknowledge
<1>8. CASE Requeue
  <2>1. Head(flight) \in Msgs /\ Tail(flight) \in Seq(Msgs)
    BY <1>8 DEF Requeue
  <2>2. <<Head(flight)>> \o ready \in Seq(Msgs)
    BY <2>1
  <2> QED
    BY <1>8, <2>1, <2>2 DEF Requeue
<1>9. CASE StaleEnd
  BY <1>9 DEF StaleEnd
<1> HIDE DEF AckInv, Queued, HandlesHead, AckedWasProcessed
<1> QED
  BY <1>1, <1>2, <1>3, <1>4, <1>5, <1>6, <1>7, <1>8, <1>9 DEF Next, ConsumerStep

\* A message leaves the queue by acknowledgement only after consume returned for
\* it, and to the dead-letter queue only by expiry (RabbitmqUtil.java:177-195).
THEOREM AckOnlyProcessed == Spec => []AckedWasProcessed
<1>1. AckInv => AckedWasProcessed
  BY DEF AckInv
<1> QED
  BY AckInit, AckStep, <1>1, PTL DEF Spec

(***************************************************************************)
(* A message is in one place.                                              *)
(***************************************************************************)

\* How often m occurs in the sequence s.
Count(s, m) == Cardinality({i \in DOMAIN s : s[i] = m})

Bit(m, S) == IF m \in S THEN 1 ELSE 0

LEMMA CountType ==
  ASSUME NEW S, NEW s \in Seq(S), NEW m
  PROVE  IsFiniteSet({i \in DOMAIN s : s[i] = m}) /\ Count(s, m) \in Nat
<1>1. DOMAIN s = 1 .. Len(s) /\ Len(s) \in Nat
  OBVIOUS
<1>2. IsFiniteSet(1 .. Len(s))
  BY <1>1, FS_Interval
<1>3. {i \in DOMAIN s : s[i] = m} \in SUBSET (1 .. Len(s))
  BY <1>1
<1> QED
  BY <1>2, <1>3, FS_Subset, FS_CardinalityType DEF Count

\* The occurrences in two sequences put together are those in both.
LEMMA CountConcat ==
  ASSUME NEW S, NEW s \in Seq(S), NEW t \in Seq(S), NEW m
  PROVE  Count(s \o t, m) = Count(s, m) + Count(t, m)
<1> DEFINE A == {i \in DOMAIN s : s[i] = m}
           B == {i \in DOMAIN t : t[i] = m}
           C == {i \in DOMAIN (s \o t) : (s \o t)[i] = m}
           D == {i \in Len(s) + 1 .. Len(s) + Len(t) : t[i - Len(s)] = m}
           shift == [i \in B |-> i + Len(s)]
<1>1. /\ s \o t \in Seq(S) /\ Len(s) \in Nat /\ Len(t) \in Nat
      /\ DOMAIN s = 1 .. Len(s) /\ DOMAIN t = 1 .. Len(t)
      /\ Len(s \o t) = Len(s) + Len(t)
      /\ DOMAIN (s \o t) = 1 .. Len(s) + Len(t)
  OBVIOUS
<1>2. \A i \in 1 .. Len(s) : (s \o t)[i] = s[i]
  OBVIOUS
<1>3. \A i \in Len(s) + 1 .. Len(s) + Len(t) : (s \o t)[i] = t[i - Len(s)]
  OBVIOUS
<1>4. C = A \cup D /\ A \cap D = {}
  <2> HIDE DEF shift, B
  <2>1. ASSUME NEW i PROVE i \in C <=> i \in A \cup D
    BY <1>1, <1>2, <1>3
  <2>2. A \cap D = {}
    BY <1>1
  <2> QED
    BY <2>1, <2>2
<1>5. IsFiniteSet(A) /\ IsFiniteSet(B) /\ IsFiniteSet(C)
  BY <1>1, CountType
<1>6. IsFiniteSet(D) /\ Cardinality(D) = Cardinality(B)
  <2>1. shift \in [B -> D]
    BY <1>1
  <2>2. \A i, j \in B : shift[i] = shift[j] => i = j
    BY <1>1
  <2>3. \A d \in D : \E i \in B : shift[i] = d
    <3> TAKE d \in D
    <3>1. d - Len(s) \in B /\ (d - Len(s)) + Len(s) = d
      BY <1>1
    <3> QED
      BY <3>1
  <2> HIDE DEF A, B, C, D, shift
  <2>4. shift \in Bijection(B, D)
    BY <2>1, <2>2, <2>3 DEF Bijection, Injection, Surjection, IsInjective
  <2>5. ExistsBijection(B, D)
    BY <2>4 DEF ExistsBijection
  <2> QED
    BY <1>5, <2>5, FS_Bijection
<1> HIDE DEF A, B, C, D, shift
<1>7. Cardinality(C) = Cardinality(A) + Cardinality(D) - Cardinality({})
  BY <1>4, <1>5, <1>6, FS_Union
<1>8. Cardinality({}) = 0 /\ Cardinality(A) \in Nat /\ Cardinality(D) \in Nat
  BY <1>5, <1>6, FS_EmptySet, FS_CardinalityType
<1>9. Cardinality(C) = Cardinality(A) + Cardinality(B)
  BY <1>6, <1>7, <1>8
<1> QED
  BY <1>9 DEF Count, A, B, C

LEMMA CountSingle ==
  ASSUME NEW x, NEW m
  PROVE  Count(<<x>>, m) = IF x = m THEN 1 ELSE 0
<1>1. CASE x = m
  <2>1. {i \in DOMAIN <<x>> : <<x>>[i] = m} = {1}
    BY <1>1
  <2> QED
    BY <1>1, <2>1, FS_Singleton DEF Count
<1>2. CASE x # m
  <2>1. {i \in DOMAIN <<x>> : <<x>>[i] = m} = {}
    BY <1>2
  <2> QED
    BY <1>2, <2>1, FS_EmptySet DEF Count
<1> QED
  BY <1>1, <1>2

\* One element more, at either end.
LEMMA CountAdd ==
  ASSUME NEW S, NEW s \in Seq(S), NEW x \in S, NEW m
  PROVE  /\ Count(<<x>> \o s, m) = (IF x = m THEN 1 ELSE 0) + Count(s, m)
         /\ Count(s \o <<x>>, m) = Count(s, m) + (IF x = m THEN 1 ELSE 0)
<1>1. <<x>> \in Seq(S)
  OBVIOUS
<1>2. Count(<<x>> \o s, m) = Count(<<x>>, m) + Count(s, m)
  BY <1>1, CountConcat
<1>3. Count(s \o <<x>>, m) = Count(s, m) + Count(<<x>>, m)
  BY <1>1, CountConcat
<1> QED
  BY <1>2, <1>3, CountSingle

LEMMA CountEmpty == ASSUME NEW m PROVE Count(<<>>, m) = 0
<1>1. {i \in DOMAIN <<>> : <<>>[i] = m} = {}
  OBVIOUS
<1> QED
  BY <1>1, FS_EmptySet DEF Count

\* A sequence is its head and its tail.
LEMMA CountTail ==
  ASSUME NEW S, NEW s \in Seq(S), s # <<>>, NEW m
  PROVE  Count(s, m) = (IF Head(s) = m THEN 1 ELSE 0) + Count(Tail(s), m)
<1>1. /\ Head(s) \in S /\ Tail(s) \in Seq(S) /\ <<Head(s)>> \in Seq(S)
      /\ s = <<Head(s)>> \o Tail(s)
  OBVIOUS
<1>2. Count(<<Head(s)>> \o Tail(s), m) = Count(<<Head(s)>>, m) + Count(Tail(s), m)
  BY <1>1, CountConcat
<1> QED
  BY <1>1, <1>2, CountSingle

\* Splitting a sequence splits its occurrences.
LEMMA CountSplit ==
  ASSUME NEW S, NEW s \in Seq(S), NEW n \in 0 .. Len(s), NEW m
  PROVE  Count(s, m) = Count(SubSeq(s, 1, n), m) + Count(SubSeq(s, n + 1, Len(s)), m)
<1> DEFINE u == SubSeq(s, 1, n)
           v == SubSeq(s, n + 1, Len(s))
<1>1. Len(s) \in Nat /\ n \in Int
  OBVIOUS
<1>2. u \in Seq(S) /\ v \in Seq(S)
  OBVIOUS
<1>3. u \o v = SubSeq(s, 1, Len(s))
  <2>1. 1 \in 1 .. Len(s) + 1 /\ n \in 1 - 1 .. Len(s) /\ Len(s) \in n .. Len(s)
    BY <1>1
  <2> QED
    BY <2>1, ConcatAdjacentSubSeq
<1>4. u \o v = s
  BY <1>3, SubSeqFull
<1> HIDE DEF u, v
<1>5. Count(u \o v, m) = Count(u, m) + Count(v, m)
  BY <1>2, CountConcat
<1> QED
  BY <1>4, <1>5 DEF u, v

LEMMA BitAdd ==
  ASSUME NEW S, NEW x, NEW m
  PROVE  /\ Bit(m, S) \in {0, 1}
         /\ x \notin S => Bit(m, S \cup {x}) = Bit(m, S) + (IF x = m THEN 1 ELSE 0)
BY DEF Bit

\* The three sets of Places, counted one by one.
LEMMA CountFlags ==
  ASSUME NEW A, NEW D, NEW L, NEW m
  PROVE  Cardinality({s \in {<<"acked", A>>, <<"dead", D>>, <<"lost", L>>} : m \in s[2]})
           = Bit(m, A) + Bit(m, D) + Bit(m, L)
<1> DEFINE a == <<"acked", A>>
           d == <<"dead", D>>
           l == <<"lost", L>>
           X == {s \in {a} : m \in A}
           Y == {s \in {d} : m \in D}
           Z == {s \in {l} : m \in L}
<1>1. {s \in {a, d, l} : m \in s[2]} = X \cup (Y \cup Z)
  OBVIOUS
<1>2. Y \cap Z = {} /\ X \cap (Y \cup Z) = {}
  OBVIOUS
<1>3. /\ X = IF m \in A THEN {a} ELSE {}
      /\ Y = IF m \in D THEN {d} ELSE {}
      /\ Z = IF m \in L THEN {l} ELSE {}
  OBVIOUS
<1> HIDE DEF a, d, l
<1>4a. /\ IsFiniteSet({}) /\ Cardinality({}) = 0
        /\ \A x : IsFiniteSet({x}) /\ Cardinality({x}) = 1
  BY FS_EmptySet, FS_Singleton
<1> HIDE DEF X, Y, Z
<1>4. IsFiniteSet(X) /\ Cardinality(X) = Bit(m, A)
  BY <1>3, <1>4a DEF Bit
<1>5. IsFiniteSet(Y) /\ Cardinality(Y) = Bit(m, D)
  BY <1>3, <1>4a DEF Bit
<1>6. IsFiniteSet(Z) /\ Cardinality(Z) = Bit(m, L)
  BY <1>3, <1>4a DEF Bit
<1>7. IsFiniteSet(Y \cup Z) /\ Cardinality(Y \cup Z) = Bit(m, D) + Bit(m, L)
  BY <1>2, <1>5, <1>6, FS_Union, FS_EmptySet DEF Bit
<1>8. Cardinality(X \cup (Y \cup Z)) = Bit(m, A) + (Bit(m, D) + Bit(m, L))
  BY <1>2, <1>4, <1>7, FS_Union, FS_EmptySet DEF Bit
<1> QED
  BY <1>1, <1>8 DEF Bit, X, Y, Z, a, d, l

\* What Places counts.
LEMMA PlacesCounts ==
  ASSUME NEW m
  PROVE  /\ Places(m) = Count(ready, m) + Count(flight, m)
                          + (Bit(m, acked) + Bit(m, dead) + Bit(m, lost))
         /\ Places(m)' = Count(ready', m) + Count(flight', m)
                          + (Bit(m, acked') + Bit(m, dead') + Bit(m, lost'))
BY CountFlags DEF Places, Count

SendStates == {"no", "bound", "published", "sent", "failed"}

\* Before it is published a message is nowhere, and then in one place for good.
OnePlace ==
  \A m \in Msgs :
    /\ sending[m] \in SendStates
    /\ Places(m) \in {0, 1}
    /\ sending[m] \in {"no", "bound"} => Places(m) = 0
    /\ Offered(m) => Places(m) = 1

PlaceInv == AckInv /\ sending \in [Msgs -> SendStates] /\ OnePlace

LEMMA PlaceInit == Init => PlaceInv
<1> SUFFICES ASSUME Init PROVE PlaceInv
  OBVIOUS
<1>1. ASSUME NEW m \in Msgs PROVE Places(m) = 0
  BY PlacesCounts, CountEmpty DEF Init, Bit
<1> QED
  BY <1>1, AckInit DEF Init, PlaceInv, OnePlace, Offered, SendStates

\* A step that leaves the queues alone and publishes nothing.
LEMMA PlaceSame ==
  ASSUME OnePlace, UNCHANGED <<queueVars, sending>>
  PROVE  OnePlace'
<1>1. UNCHANGED <<ready, flight, acked, dead, lost>>
  BY DEF queueVars
<1>2. \A m \in Msgs : Places(m)' = Places(m)
  BY <1>1, PlacesCounts
<1> QED
  BY <1>2 DEF OnePlace, Offered, SendStates

\* A step that only moves messages.
LEMMA PlaceMoved ==
  ASSUME OnePlace, UNCHANGED sending, \A m \in Msgs : Places(m)' = Places(m)
  PROVE  OnePlace'
BY DEF OnePlace, Offered, SendStates

\* Every step keeps each message in one place: sends, pushes, requeues, breaks,
\* expiries and acknowledgements.
LEMMA PlaceStep == PlaceInv /\ [Next]_vars => PlaceInv'
<1> SUFFICES ASSUME PlaceInv, [Next]_vars PROVE PlaceInv'
  OBVIOUS
<1>a. AckInv' /\ Queued /\ Queued' /\ OnePlace /\ sending \in [Msgs -> SendStates]
  BY AckStep DEF PlaceInv, AckInv
<1>b. \A m : /\ Count(ready, m) \in Nat /\ Count(flight, m) \in Nat
             /\ Count(ready', m) \in Nat /\ Count(flight', m) \in Nat
  BY <1>a, CountType DEF Queued
<1>1. CASE CreateConnection \/ BindConsumer \/ StartConsumer \/ Finished \/ Consume
           \/ StaleEnd \/ UNCHANGED vars
  <2>1. UNCHANGED <<queueVars, sending>>
    BY <1>1 DEF CreateConnection, BindConsumer, StartConsumer, Finished, Consume,
                StaleEnd, vars, queueVars
  <2> QED
    BY <1>a, <2>1, PlaceSame DEF PlaceInv
<1>2. CASE \E k \in Msgs : Declare(k) \/ Close(k)
  <2> PICK k \in Msgs : Declare(k) \/ Close(k)
    BY <1>2
  <2>1. UNCHANGED <<ready, flight, acked, dead, lost>>
    BY DEF Declare, Close, queueVars
  <2>2. \A m : Places(m)' = Places(m)
    BY <2>1, PlacesCounts
  <2>3. CASE Declare(k)
    <3>1. \E v \in {"bound", "failed"} : sending' = [sending EXCEPT ![k] = v]
      BY <2>3 DEF Declare
    <3>2. sending[k] = "no"
      BY <2>3 DEF Declare
    <3> QED
      BY <1>a, <2>2, <3>1, <3>2 DEF PlaceInv, OnePlace, Offered, SendStates
  <2>4. CASE Close(k)
    <3>1. \E v \in {"sent", "failed"} : sending' = [sending EXCEPT ![k] = v]
      BY <2>4 DEF Close
    <3>2. sending[k] = "published"
      BY <2>4 DEF Close
    <3> QED
      BY <1>a, <2>2, <3>1, <3>2 DEF PlaceInv, OnePlace, Offered, SendStates
  <2> QED
    BY <2>3, <2>4
<1>3. CASE \E k \in Msgs : Publish(k)
  <2> PICK k \in Msgs : Publish(k)
    BY <1>3
  <2>1. /\ sending[k] = "bound" /\ Places(k) = 0
        /\ sending' = [sending EXCEPT ![k] = "published"]
        /\ UNCHANGED <<flight, acked, dead>>
    BY <1>a DEF Publish, OnePlace
  <2>2. /\ Places(k)' = 1
        /\ \A m \in Msgs \ {k} : Places(m)' = Places(m)
    <3>1. CASE ready' = Append(ready, k) /\ UNCHANGED lost
      <4>1. ready \in Seq(Msgs) /\ k \in Msgs
        BY <1>a DEF Queued
      <4>2. \A m : Count(ready', m) = Count(ready, m) + (IF k = m THEN 1 ELSE 0)
        <5>1. ready' = ready \o <<k>>
          BY <3>1, <4>1
        <5> QED
          BY <4>1, <5>1, CountAdd
      <4>3. ASSUME NEW m \in Msgs
            PROVE  Places(m)' = Places(m) + (IF k = m THEN 1 ELSE 0)
        <5>1. Count(ready, m) \in Nat /\ Count(flight, m) \in Nat /\ Count(ready', m) \in Nat
          BY <1>b
        <5>2. Bit(m, acked) \in {0, 1} /\ Bit(m, dead) \in {0, 1} /\ Bit(m, lost) \in {0, 1}
          BY BitAdd
        <5>3. Count(ready', m) = Count(ready, m) + (IF k = m THEN 1 ELSE 0)
          BY <4>2
        <5>4. /\ Count(flight', m) = Count(flight, m) /\ Bit(m, acked') = Bit(m, acked)
              /\ Bit(m, dead') = Bit(m, dead) /\ Bit(m, lost') = Bit(m, lost)
          BY <2>1, <3>1
        <5>5. /\ Places(m) = Count(ready, m) + Count(flight, m)
                               + (Bit(m, acked) + Bit(m, dead) + Bit(m, lost))
              /\ Places(m)' = Count(ready', m) + Count(flight', m)
                               + (Bit(m, acked') + Bit(m, dead') + Bit(m, lost'))
          BY PlacesCounts
        <5> QED
          BY <5>1, <5>2, <5>3, <5>4, <5>5
      <4>4. \A m \in Msgs : Places(m) \in {0, 1}
        BY <1>a DEF OnePlace
      <4> QED
        BY <2>1, <4>3, <4>4
    <3>2. CASE lost' = lost \cup {k} /\ UNCHANGED ready
      BY <1>b, <2>1, <3>2, PlacesCounts DEF Bit
    <3> QED
      BY <3>1, <3>2 DEF Publish
  <2> QED
    BY <1>a, <2>1, <2>2 DEF PlaceInv, OnePlace, Offered, SendStates
<1>4. CASE Expire
  <2> DEFINE h == Head(ready)
  <2>1. /\ ready # <<>> /\ ready \in Seq(Msgs) /\ h \in Msgs /\ ready' = Tail(ready)
        /\ UNCHANGED <<flight, acked, sending>>
    BY <1>4, <1>a DEF Expire, Queued
  <2>2. \A m : Count(ready, m) = (IF h = m THEN 1 ELSE 0) + Count(ready', m)
    BY <2>1, CountTail
  <2>3. Places(h) \in {0, 1}
    BY <1>a, <2>1 DEF OnePlace
  <2>4. \/ dead' = dead \cup {h} /\ UNCHANGED lost
        \/ lost' = lost \cup {h} /\ UNCHANGED dead
    BY <1>4 DEF Expire
  <2> HIDE DEF h
  <2>5. h \notin dead /\ h \notin lost
    BY <1>b, <2>2, <2>3, PlacesCounts DEF Bit
  <2>6. ASSUME NEW m \in Msgs PROVE Places(m)' = Places(m)
    <3>1. /\ Count(ready, m) \in Nat /\ Count(flight, m) \in Nat
          /\ Count(ready', m) \in Nat /\ Count(flight', m) \in Nat
      BY <1>b
    <3>2. /\ Bit(m, acked) \in {0, 1} /\ Bit(m, dead) \in {0, 1} /\ Bit(m, lost) \in {0, 1}
          /\ Bit(m, dead') \in {0, 1} /\ Bit(m, lost') \in {0, 1}
      BY BitAdd
    <3>3. Count(ready, m) = (IF h = m THEN 1 ELSE 0) + Count(ready', m)
      BY <2>2
    <3>4. Count(flight', m) = Count(flight, m) /\ Bit(m, acked') = Bit(m, acked)
      BY <2>1
    <3>5. Bit(m, dead') + Bit(m, lost') = Bit(m, dead) + Bit(m, lost) + (IF h = m THEN 1 ELSE 0)
      BY <2>4, <2>5 DEF Bit
    <3>6. Count(ready', m) + Count(flight', m) + (Bit(m, acked') + Bit(m, dead') + Bit(m, lost'))
             = Count(ready, m) + Count(flight, m) + (Bit(m, acked) + Bit(m, dead) + Bit(m, lost))
      BY <3>1, <3>2, <3>3, <3>4, <3>5
    <3> QED
      BY <3>6, PlacesCounts
  <2> QED
    BY <1>a, <2>1, <2>6, PlaceMoved DEF PlaceInv
<1>5. CASE Push
  <2> PICK n \in 1 .. Len(ready) : PushSome(n)
    BY <1>5 DEF Push
  <2>1. /\ ready \in Seq(Msgs) /\ flight \in Seq(Msgs) /\ n \in 0 .. Len(ready)
        /\ SubSeq(ready, 1, n) \in Seq(Msgs)
    BY <1>a DEF Queued
  <2>2. /\ flight' = flight \o SubSeq(ready, 1, n)
        /\ ready' = SubSeq(ready, n + 1, Len(ready))
        /\ UNCHANGED <<acked, dead, lost, sending>>
    BY DEF PushSome
  <2>3. \A m : Count(SubSeq(ready, 1, n), m) \in Nat
    BY <2>1, CountType
  <2>4. \A m : Count(ready, m) = Count(SubSeq(ready, 1, n), m) + Count(ready', m)
    BY <2>1, <2>2, CountSplit
  <2>5. \A m : Count(flight', m) = Count(flight, m) + Count(SubSeq(ready, 1, n), m)
    BY <2>1, <2>2, CountConcat
  <2>6. ASSUME NEW m \in Msgs PROVE Places(m)' = Places(m)
    <3>1. /\ Count(ready, m) \in Nat /\ Count(flight, m) \in Nat
          /\ Count(ready', m) \in Nat /\ Count(flight', m) \in Nat
      BY <1>b
    <3>2. Count(ready', m) + Count(flight', m) + (Bit(m, acked') + Bit(m, dead') + Bit(m, lost'))
             = Count(ready, m) + Count(flight, m) + (Bit(m, acked) + Bit(m, dead) + Bit(m, lost))
      BY <3>1, <2>2, <2>3, <2>4, <2>5, SMTT(30) DEF Bit
    <3> QED
      BY <3>2, PlacesCounts
  <2> QED
    BY <1>a, <2>2, <2>6, PlaceMoved DEF PlaceInv
<1>6. CASE Break
  <2>1. /\ ready' = flight \o ready /\ flight' = <<>>
        /\ ready \in Seq(Msgs) /\ flight \in Seq(Msgs)
        /\ UNCHANGED <<acked, dead, lost, sending>>
    BY <1>6, <1>a DEF Break, Queued
  <2>2. \A m : Count(ready', m) = Count(flight, m) + Count(ready, m) /\ Count(flight', m) = 0
    BY <2>1, CountConcat, CountEmpty
  <2>3. \A m \in Msgs : Places(m)' = Places(m)
    BY <1>b, <2>1, <2>2, PlacesCounts DEF Bit
  <2> QED
    BY <1>a, <2>1, <2>3, PlaceMoved DEF PlaceInv
<1>7. CASE Acknowledge \/ Requeue
  <2> DEFINE h == Head(flight)
  <2>1. flight # <<>> /\ flight \in Seq(Msgs) /\ ready \in Seq(Msgs)
    BY <1>7, <1>a DEF PlaceInv, AckInv, HandlesHead, Queued, Acknowledge, Requeue
  <2>2. h \in Msgs /\ flight' = Tail(flight) /\ UNCHANGED <<dead, lost, sending>>
    BY <1>7, <2>1 DEF Acknowledge, Requeue
  <2>3. \A m : Count(flight, m) = (IF h = m THEN 1 ELSE 0) + Count(flight', m)
    BY <2>1, <2>2, CountTail
  <2>4. Places(h) \in {0, 1}
    BY <1>a, <2>2 DEF OnePlace
  <2>5. CASE Acknowledge
    <3>1. acked' = acked \cup {h} /\ UNCHANGED ready
      BY <2>5 DEF Acknowledge
    <3> HIDE DEF h
    <3>2. h \notin acked
      BY <1>b, <2>3, <2>4, PlacesCounts DEF Bit
    <3>3. ASSUME NEW m \in Msgs PROVE Places(m)' = Places(m)
      <4>1. /\ Count(ready, m) \in Nat /\ Count(flight, m) \in Nat
            /\ Count(ready', m) \in Nat /\ Count(flight', m) \in Nat
        BY <1>b
      <4>2. Bit(m, acked) \in {0, 1} /\ Bit(m, dead) \in {0, 1} /\ Bit(m, lost) \in {0, 1}
        BY BitAdd
      <4>3. Count(flight, m) = (IF h = m THEN 1 ELSE 0) + Count(flight', m)
        BY <2>3
      <4>4. /\ Count(ready', m) = Count(ready, m) /\ Bit(m, dead') = Bit(m, dead)
            /\ Bit(m, lost') = Bit(m, lost)
        BY <2>2, <3>1
      <4>5. Bit(m, acked') = Bit(m, acked) + (IF h = m THEN 1 ELSE 0)
        BY <3>1, <3>2 DEF Bit
      <4>6. Count(ready', m) + Count(flight', m) + (Bit(m, acked') + Bit(m, dead') + Bit(m, lost'))
               = Count(ready, m) + Count(flight, m) + (Bit(m, acked) + Bit(m, dead) + Bit(m, lost))
        BY <4>1, <4>2, <4>3, <4>4, <4>5
      <4> QED
        BY <4>6, PlacesCounts
    <3> QED
      BY <1>a, <2>2, <3>3, PlaceMoved DEF PlaceInv
  <2>6. CASE Requeue
    <3>1. ready' = <<h>> \o ready /\ UNCHANGED acked
      BY <2>6 DEF Requeue
    <3> HIDE DEF h
    <3>2. \A m : Count(ready', m) = (IF h = m THEN 1 ELSE 0) + Count(ready, m)
      BY <2>1, <2>2, <3>1, CountAdd
    <3>3. ASSUME NEW m \in Msgs PROVE Places(m)' = Places(m)
      <4>1. /\ Count(ready, m) \in Nat /\ Count(flight, m) \in Nat
            /\ Count(ready', m) \in Nat /\ Count(flight', m) \in Nat
        BY <1>b
      <4>2. Bit(m, acked) \in {0, 1} /\ Bit(m, dead) \in {0, 1} /\ Bit(m, lost) \in {0, 1}
        BY BitAdd
      <4>3. Count(flight, m) = (IF h = m THEN 1 ELSE 0) + Count(flight', m)
        BY <2>3
      <4>4. Count(ready', m) = (IF h = m THEN 1 ELSE 0) + Count(ready, m)
        BY <3>2
      <4>5. /\ Bit(m, acked') = Bit(m, acked) /\ Bit(m, dead') = Bit(m, dead)
            /\ Bit(m, lost') = Bit(m, lost)
        BY <2>2, <3>1
      <4>6. Count(ready', m) + Count(flight', m) + (Bit(m, acked') + Bit(m, dead') + Bit(m, lost'))
               = Count(ready, m) + Count(flight, m) + (Bit(m, acked) + Bit(m, dead) + Bit(m, lost))
        BY <4>1, <4>2, <4>3, <4>4, <4>5
      <4> QED
        BY <4>6, PlacesCounts
    <3> QED
      BY <1>a, <2>2, <3>3, PlaceMoved DEF PlaceInv
  <2> QED
    BY <1>7, <2>5, <2>6
<1> QED
  BY <1>1, <1>2, <1>3, <1>4, <1>5, <1>6, <1>7 DEF Next, SendStep, ConsumerStep

\* No order of pushes, requeues, breaks and expiries loses or doubles a message
\* whose publication the sender saw (RabbitmqUtil.java:132, 177-187).
THEOREM OnePlaceEach == Spec => []NeverLostOrDoubled
<1>1. PlaceInv => NeverLostOrDoubled
  BY DEF PlaceInv, OnePlace, NeverLostOrDoubled
<1> QED
  BY PlaceInit, PlaceStep, <1>1, PTL DEF Spec

(***************************************************************************)
(* The queues are no longer than the number of messages.                   *)
(***************************************************************************)

\* A sequence that has each of finitely many values once at most is short.
LEMMA OnceIsShort ==
  ASSUME NEW S, IsFiniteSet(S), NEW s \in Seq(S), \A m \in S : Count(s, m) <= 1
  PROVE  s \in BoundedSeq(S, Cardinality(S))
<1>1. DOMAIN s = 1 .. Len(s) /\ Len(s) \in Nat /\ s \in [1 .. Len(s) -> S]
  OBVIOUS
<1>2. ASSUME NEW i \in 1 .. Len(s), NEW j \in 1 .. Len(s), s[i] = s[j], i # j
      PROVE  FALSE
  <2> DEFINE All == {k \in DOMAIN s : s[k] = s[i]}
  <2>1. s[i] \in S /\ {i} \cup {j} \in SUBSET All
    BY <1>1, <1>2
  <2>2. IsFiniteSet(All) /\ Cardinality(All) <= 1 /\ Cardinality(All) \in Nat
    BY <2>1, CountType DEF Count
  <2>3. IsFiniteSet({i}) /\ Cardinality({i}) = 1 /\ j \notin {i}
    BY <1>2, FS_Singleton
  <2> HIDE DEF All
  <2> DEFINE Both == {i} \cup {j}
  <2>4. Cardinality(Both) = 2
    <3>1. Cardinality(Both) = Cardinality({i}) + 1
      BY <2>3, FS_AddElement
    <3> HIDE DEF Both
    <3> QED
      BY <2>3, <3>1
  <2>5. Cardinality(Both) <= Cardinality(All)
    BY <2>1, <2>2, FS_Subset
  <2> HIDE DEF Both
  <2> QED
    BY <2>2, <2>4, <2>5
<1>3. s \in Injection(1 .. Len(s), S)
  BY <1>1, <1>2 DEF Injection, IsInjective
<1>4. Cardinality(1 .. Len(s)) <= Cardinality(S) /\ Cardinality(1 .. Len(s)) = Len(s)
  BY <1>1, <1>3, FS_Injection, FS_Interval
<1>5. Len(s) \in 0 .. Cardinality(S)
  BY <1>1, <1>4, FS_CardinalityType
<1> QED
  BY <1>1, <1>5 DEF BoundedSeq, SeqOf

\* What the steps neither count nor order.
Plain ==
  /\ connection \in BOOLEAN /\ dlxBound \in BOOLEAN
  /\ args \in {"absent", "plain", "dlx"}
  /\ dead \subseteq Msgs /\ acked \subseteq Msgs /\ lost \subseteq Msgs
  /\ processed \subseteq Msgs
  /\ consumer \in {"off", "bound", "on", "failed"}
  /\ handling \in {"none", "ack", "nack", "stale"}

LEMMA PlainStep == AckInv /\ Plain /\ [Next]_vars => Plain'
<1> SUFFICES ASSUME AckInv, Plain, [Next]_vars PROVE Plain'
  OBVIOUS
<1> USE DEF Plain, queueVars
<1>1. ready # <<>> => Head(ready) \in Msgs
  BY DEF AckInv, Queued
<1>2. flight # <<>> => Head(flight) \in Msgs
  BY DEF AckInv, Queued
<1>3. CASE SendStep
  BY <1>3 DEF SendStep, Declare, Publish, Close, ArgsOf
<1>4. CASE Expire
  BY <1>1, <1>4 DEF Expire
<1>5. CASE CreateConnection \/ Push \/ Break \/ BindConsumer \/ StartConsumer
           \/ Finished \/ UNCHANGED vars
  BY <1>5 DEF CreateConnection, Push, PushSome, Break, BindConsumer, StartConsumer,
              Finished, vars
<1>6. CASE Consume \/ Requeue \/ StaleEnd
  BY <1>2, <1>6 DEF Consume, Requeue, StaleEnd
<1>7. CASE Acknowledge
  BY <1>2, <1>7 DEF Acknowledge, AckInv, HandlesHead
<1> QED
  BY <1>3, <1>4, <1>5, <1>6, <1>7 DEF Next, ConsumerStep

\* Neither queue ever holds more than was sent: a push, a requeue and a break put
\* back what was there before; nothing else leaves its type.
THEOREM QueuesTyped == Spec => []TypeOK
<1>1. ASSUME PlaceInv, Plain PROVE TypeOK
  <2>1. ready \in Seq(Msgs) /\ flight \in Seq(Msgs)
    BY <1>1 DEF PlaceInv, AckInv, Queued
  <2>2. ASSUME NEW m \in Msgs PROVE Count(ready, m) <= 1 /\ Count(flight, m) <= 1
    <3>1. Places(m) \in {0, 1}
      BY <1>1 DEF PlaceInv, OnePlace
    <3>2. Count(ready, m) \in Nat /\ Count(flight, m) \in Nat
      BY <2>1, CountType
    <3>3. Bit(m, acked) \in {0, 1} /\ Bit(m, dead) \in {0, 1} /\ Bit(m, lost) \in {0, 1}
      BY BitAdd
    <3>4. Places(m) = Count(ready, m) + Count(flight, m)
                        + (Bit(m, acked) + Bit(m, dead) + Bit(m, lost))
      BY PlacesCounts
    <3> QED
      BY <3>1, <3>2, <3>3, <3>4
  <2>3. /\ ready \in BoundedSeq(Msgs, Cardinality(Msgs))
        /\ flight \in BoundedSeq(Msgs, Cardinality(Msgs))
    BY <2>1, <2>2, OnceIsShort, FiniteMsgs
  <2> QED
    BY <1>1, <2>3 DEF PlaceInv, SendStates, Plain, TypeOK
<1>2. Init => PlaceInv /\ Plain
  <2>1. Init => Plain
    BY DEF Init, Plain
  <2> QED
    BY <2>1, PlaceInit
<1>3. PlaceInv /\ Plain /\ [Next]_vars => PlaceInv' /\ Plain'
  BY PlaceStep, PlainStep DEF PlaceInv
<1> QED
  BY <1>1, <1>2, <1>3, PTL DEF Spec
=============================================================================
