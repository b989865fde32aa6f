------------------------ MODULE MQConnectionPoolProofs ------------------------
(***************************************************************************)
(* Theorems about MQConnectionPool, for any clients, any number of         *)
(* connections and any faults: channels are exclusive, and a client that   *)
(* has to wait is never served.                                            *)
(***************************************************************************)
EXTENDS MQConnectionPool, SequenceTheorems, TLAPS

\* Whoever is inside getChannelStream or getConnectionStream owns the monitor.
Owned == \A c \in Clients : pc[c] \in {"poll", "open", "sleep"} => monitor = c

\* A client looking for a connection to open a channel on saw no idle channel,
\* and none was released since; a sleeper saw every connection taken.
Dry ==
  \A c \in Clients :
    /\ pc[c] \in {"poll", "sleep"} /\ goal[c] = "channel" => idle = <<>>
    /\ pc[c] = "sleep" => taken = MinConn

\* A client that works with a connection or channel holds one.
Holding == \A c \in Clients : pc[c] \in {"open", "use", "give"} => item[c] \in Conns

PoolInv == TypeOK /\ Owned /\ Dry /\ Holding

-----------------------------------------------------------------------------
\* Init establishes the invariant.
LEMMA InitPoolInv == Init => PoolInv
<1> SUFFICES ASSUME Init PROVE PoolInv
  OBVIOUS
<1>1. alive \subseteq Conns
  BY DEF Init
<1>2. TypeOK
  BY <1>1, PoolSize, CallsBound DEF Init, TypeOK, Conns
<1> QED
  BY <1>2, NobodyIsNoClient DEF Init, PoolInv, Owned, Dry, Holding

\* Giving a client a connection, a channel or nothing keeps the type of item.
LEMMA ItemType ==
  ASSUME TypeOK, NEW c \in Clients, NEW n \in 0 .. MinConn,
         item' = [item EXCEPT ![c] = n]
  PROVE  item' \in [Clients -> 0 .. MinConn]
BY DEF TypeOK

\* Every step of a client keeps the types: one case per action.
LEMMA StepType == ASSUME PoolInv, NEW c \in Clients, Step(c) PROVE TypeOK'
<1> USE PoolSize, CallsBound, NobodyIsNoClient DEF PoolInv, TypeOK, Go, poolVars
<1>1. CASE EnterSend(c)
  BY <1>1 DEF EnterSend
<1>2. CASE EnterUse(c)
  BY <1>2 DEF EnterUse
<1>3. CASE GetStream(c)
  <2>1. CASE goal[c] = "channel" /\ idle # <<>> /\ monitor' = monitor
    <3>1. Head(idle) \in Conns /\ Tail(idle) \in Seq(Conns)
      BY <2>1
    <3>2. /\ idle' = Tail(idle) /\ item' = [item EXCEPT ![c] = Head(idle)]
          /\ useQty' = [useQty EXCEPT ![Head(idle)] = @ + 1]
          /\ Go(c, "use")
          /\ UNCHANGED <<alive, taken, closed, monitor, classLock, goal, left>>
      BY <1>3, <2>1 DEF GetStream
    <3>3. Head(idle) \in 0 .. MinConn
      BY <3>1 DEF Conns
    <3>4. item' \in [Clients -> 0 .. MinConn]
      BY <3>2, <3>3
    <3>5. useQty' \in [Conns -> Int]
      BY <3>1, <3>2
    <3> QED
      BY <3>1, <3>2, <3>4, <3>5
  <2>2. CASE monitor' = c /\ Go(c, "poll") /\ UNCHANGED <<idle, useQty, item>>
    BY <1>3, <2>2 DEF GetStream
  <2> QED
    BY <1>3, <2>1, <2>2 DEF GetStream
<1>4. CASE PollConnection(c)
  <2>1. taken' \in 0 .. MinConn
    BY <1>4 DEF PollConnection
  <2>2. item' = item \/ (taken < MinConn /\ item' = [item EXCEPT ![c] = taken + 1])
    BY <1>4 DEF PollConnection
  <2>3. item' \in [Clients -> 0 .. MinConn]
    <3>1. CASE item' = item
      BY <3>1
    <3>2. CASE taken < MinConn /\ item' = [item EXCEPT ![c] = taken + 1]
      <4>1. taken + 1 \in 0 .. MinConn
        BY <3>2
      <4> QED
        BY <3>2, <4>1, ItemType
    <3> QED
      BY <2>2, <3>1, <3>2
  <2>4. \E p \in {"open", "use", "sleep"} : pc' = [pc EXCEPT ![c] = p]
    BY <1>4 DEF PollConnection
  <2>5. monitor' \in {monitor, NoClient}
    BY <1>4 DEF PollConnection
  <2> QED
    BY <1>4, <2>1, <2>3, <2>4, <2>5 DEF PollConnection
<1>5. CASE Wake(c)
  BY <1>5 DEF Wake
<1>6. CASE OpenChannel(c)
  <2>1. item[c] \in Conns
    BY <1>6 DEF OpenChannel, Holding
  <2>2. useQty' \in [Conns -> Int]
    BY <1>6, <2>1 DEF OpenChannel
  <2>3. item' \in [Clients -> 0 .. MinConn]
    BY <1>6 DEF OpenChannel
  <2> QED
    BY <1>6, <2>2, <2>3 DEF OpenChannel
<1>7. CASE Work(c)
  <2>1. item' = item \/ item' = [item EXCEPT ![c] = 0]
    BY <1>7 DEF Work
  <2>2. 0 \in 0 .. MinConn
    OBVIOUS
  <2>3. item' \in [Clients -> 0 .. MinConn]
    <3>1. CASE item' = item
      BY <3>1
    <3>2. CASE item' = [item EXCEPT ![c] = 0]
      BY <3>2, <2>2, ItemType
    <3> QED
      BY <2>1, <3>1, <3>2
  <2> QED
    BY <1>7, <2>3 DEF Work
<1>8. CASE ReleaseChannel(c)
  <2>1. item[c] \in Conns
    BY <1>8 DEF ReleaseChannel, Holding
  <2>2. useQty' \in [Conns -> Int]
    BY <1>8, <2>1 DEF ReleaseChannel
  <2>3. idle' \in Seq(Conns)
    BY <1>8, <2>1 DEF ReleaseChannel
  <2>4. item' \in [Clients -> 0 .. MinConn]
    BY <1>8 DEF ReleaseChannel
  <2> QED
    BY <1>8, <2>2, <2>3, <2>4 DEF ReleaseChannel
<1>9. CASE RemoveConnection(c)
  <2>1. item[c] \in Conns
    BY <1>9 DEF RemoveConnection, Holding
  <2> QED
    BY <1>9, <2>1 DEF RemoveConnection
<1>10. CASE Leave(c)
  BY <1>10 DEF Leave
<1> QED
  BY <1>1, <1>2, <1>3, <1>4, <1>5, <1>6, <1>7, <1>8, <1>9, <1>10 DEF Step

\* The pool's content changes only with the monitor free or by its owner, so
\* what a client saw under the monitor stays true while it holds it.
LEMMA StepPool ==
  ASSUME PoolInv, NEW c \in Clients, Step(c)
  PROVE  Owned' /\ Dry' /\ Holding'
<1> USE PoolSize, NobodyIsNoClient DEF PoolInv, TypeOK, Owned, Dry, Holding, Go,
        poolVars, Conns
<1>1. CASE EnterSend(c)
  BY <1>1 DEF EnterSend
<1>2. CASE EnterUse(c)
  BY <1>2 DEF EnterUse
<1>3. CASE GetStream(c)
  <2>1. \A d \in Clients : pc[d] \notin {"poll", "open", "sleep"}
    BY <1>3 DEF GetStream
  <2>2. CASE Go(c, "use")
    <3>1. item' = [item EXCEPT ![c] = Head(idle)] /\ Head(idle) \in Conns
      BY <1>3, <2>2 DEF GetStream
    <3> QED
      BY <1>3, <2>1, <2>2, <3>1 DEF GetStream
  <2>3. CASE Go(c, "poll")
    BY <1>3, <2>1, <2>3 DEF GetStream
  <2> QED
    BY <1>3, <2>2, <2>3 DEF GetStream
<1>4. CASE PollConnection(c)
  <2>1. \A d \in Clients \ {c} : pc[d] \notin {"poll", "open", "sleep"}
    BY <1>4 DEF PollConnection
  <2>2. CASE taken < MinConn
    <3>1. item' = [item EXCEPT ![c] = taken + 1] /\ taken + 1 \in Conns
      BY <1>4, <2>2 DEF PollConnection
    <3>2. CASE goal[c] = "channel"
      BY <1>4, <2>1, <2>2, <3>1, <3>2 DEF PollConnection
    <3>3. CASE goal[c] = "connection"
      BY <1>4, <2>1, <2>2, <3>1, <3>3 DEF PollConnection
    <3> QED
      BY <1>4, <2>2, <3>2, <3>3 DEF PollConnection
  <2>3. CASE taken = MinConn
    BY <1>4, <2>1, <2>3 DEF PollConnection
  <2> QED
    BY <1>4, <2>2, <2>3 DEF PollConnection
<1>5. CASE Wake(c)
  BY <1>5 DEF Wake
<1>6. CASE OpenChannel(c)
  BY <1>6 DEF OpenChannel
<1>7. CASE Work(c)
  BY <1>7 DEF Work
<1>8. CASE ReleaseChannel(c)
  BY <1>8 DEF ReleaseChannel
<1>9. CASE RemoveConnection(c)
  BY <1>9 DEF RemoveConnection
<1>10. CASE Leave(c)
  BY <1>10 DEF Leave
<1> QED
  BY <1>1, <1>2, <1>3, <1>4, <1>5, <1>6, <1>7, <1>8, <1>9, <1>10 DEF Step

LEMMA NextPoolInv == PoolInv /\ [Next]_vars => PoolInv'
<1> SUFFICES ASSUME PoolInv, [Next]_vars PROVE PoolInv'
  OBVIOUS
<1>1. ASSUME NEW c \in Clients, Step(c) PROVE PoolInv'
  BY <1>1, StepType, StepPool DEF PoolInv
<1>2. CASE UNCHANGED vars
  BY <1>2 DEF vars, PoolInv, TypeOK, Owned, Dry, Holding
<1> QED
  BY <1>1, <1>2 DEF Next, Finished

\* The invariant of the pool holds in every reachable state.
THEOREM PoolInvariant == Spec => []PoolInv
  BY InitPoolInv, NextPoolInv, PTL DEF Spec

\* Every variable keeps its type.
THEOREM PoolTypeCorrect == Spec => []TypeOK
<1>1. PoolInv => TypeOK
  BY DEF PoolInv
<1> QED
  BY <1>1, PoolInvariant, PTL

-----------------------------------------------------------------------------
(* Channels are exclusive.                                                 *)

\* The idle channels are distinct, taken and unused.
IdleApart ==
  /\ \A i, j \in DOMAIN idle : idle[i] = idle[j] => i = j
  /\ \A i \in DOMAIN idle : idle[i] <= taken /\ useQty[idle[i]] = 0

\* What a client holds has been taken, is not idle and is held by no other.
HeldApart ==
  \A c \in Clients :
    /\ item[c] <= taken
    /\ item[c] # 0 => (\A i \in DOMAIN idle : idle[i] # item[c])
    /\ item[c] # 0 => (\A d \in Clients \ {c} : item[d] # item[c])

\* Only a client inside its work holds something, a channel counted once.
HeldInUse ==
  \A c \in Clients :
    /\ pc[c] \in {"out", "ask", "poll", "sleep", "leave"} => item[c] = 0
    /\ pc[c] \in {"use", "give"} /\ goal[c] = "channel" => useQty[item[c]] = 1

ApartInv == IdleApart /\ HeldApart /\ HeldInUse

\* Taking the head of a non-empty sequence moves every other place up by one.
LEMMA Popped ==
  ASSUME NEW S, NEW q \in Seq(S), q # <<>>
  PROVE  /\ Head(q) = q[1] /\ 1 \in DOMAIN q /\ Head(q) \in S
         /\ \A i \in DOMAIN Tail(q) :
              /\ i \in Nat /\ i + 1 \in DOMAIN q /\ i + 1 # 1
              /\ Tail(q)[i] = q[i + 1]
<1>1. Head(q) = q[1] /\ 1 \in DOMAIN q /\ Head(q) \in S
  BY EmptySeq, LenProperties, HeadTailProperties
<1>2. Tail(q) \in Seq(S) /\ DOMAIN Tail(q) = 1 .. Len(q) - 1 /\ Len(q) \in Nat
  BY LenProperties, HeadTailProperties
<1>3. \A i \in DOMAIN Tail(q) : Tail(q)[i] = q[i + 1]
  BY <1>2, HeadTailProperties, LenProperties
<1> QED
  BY <1>1, <1>2, <1>3, LenProperties

\* Appending keeps every place and adds one.
LEMMA Pushed ==
  ASSUME NEW S, NEW q \in Seq(S), NEW n \in S, NEW r, r = Append(q, n)
  PROVE  \A i \in DOMAIN r :
           \/ i \in DOMAIN q /\ r[i] = q[i]
           \/ i = Len(q) + 1 /\ r[i] = n
BY AppendProperties, LenProperties

\* A step that only takes things out of hands, or changes nobody's.
LEMMA HandsOnly ==
  ASSUME PoolInv, ApartInv, NEW c \in Clients, NEW p \in {"ask", "poll", "sleep", "leave", "out", "give"},
         UNCHANGED <<idle, useQty, taken>>, pc' = [pc EXCEPT ![c] = p],
         \/ /\ UNCHANGED <<item, goal>>
            /\ \/ pc[c] = "use" /\ p = "give"
               \/ pc[c] \notin {"open", "use", "give"} /\ p # "give"
         \/ UNCHANGED goal /\ item' = [item EXCEPT ![c] = 0] /\ p = "leave"
         \/ UNCHANGED item /\ pc[c] = "out" /\ p = "ask"
             /\ \A d \in Clients \ {c} : goal'[d] = goal[d]
  PROVE  ApartInv'
<1> USE DEF PoolInv, TypeOK
<1>1. IdleApart'
  BY DEF ApartInv, IdleApart
<1>2. HeldApart'
  <2>1. taken \in Nat
    BY PoolSize
  <2>2. \A d \in Clients : item'[d] \in {item[d], 0}
    OBVIOUS
  <2> QED
    BY <2>1, <2>2 DEF ApartInv, HeldApart
<1>3. HeldInUse'
  BY DEF ApartInv, HeldInUse
<1> QED
  BY <1>1, <1>2, <1>3 DEF ApartInv

\* A channel taken from the idle ones goes into one client's hands.
LEMMA PopApart ==
  ASSUME PoolInv, ApartInv, NEW c \in Clients, idle # <<>>,
         pc' = [pc EXCEPT ![c] = "use"], UNCHANGED <<goal, taken>>,
         idle' = Tail(idle), item' = [item EXCEPT ![c] = Head(idle)],
         useQty' = [useQty EXCEPT ![Head(idle)] = @ + 1]
  PROVE  ApartInv'
<1> DEFINE h == Head(idle)
<1>1. /\ h = idle[1] /\ 1 \in DOMAIN idle /\ h \in Conns
      /\ \A i \in DOMAIN idle' :
           i \in Nat /\ i + 1 \in DOMAIN idle /\ i + 1 # 1 /\ idle'[i] = idle[i + 1]
  BY Popped DEF PoolInv, TypeOK
<1>2. h <= taken /\ useQty[h] = 0 /\ h # 0
  BY <1>1 DEF ApartInv, IdleApart, Conns
<1>3. /\ \A d \in Clients : item'[d] = IF d = c THEN h ELSE item[d]
      /\ \A d \in Clients : pc'[d] = IF d = c THEN "use" ELSE pc[d]
      /\ \A n \in Conns : useQty'[n] = IF n = h THEN useQty[h] + 1 ELSE useQty[n]
  BY <1>1 DEF PoolInv, TypeOK
<1>4. \A i \in DOMAIN idle' : idle'[i] # h /\ idle'[i] \in Conns
  BY <1>1, LenProperties, ElementOfSeq DEF PoolInv, TypeOK, ApartInv, IdleApart
<1> HIDE DEF h
<1>5. IdleApart'
  <2>1. \A i, j \in DOMAIN idle' : idle'[i] = idle'[j] => i = j
    BY <1>1 DEF ApartInv, IdleApart
  <2>2. \A i \in DOMAIN idle' : idle'[i] <= taken' /\ useQty'[idle'[i]] = 0
    BY <1>1, <1>3, <1>4 DEF ApartInv, IdleApart
  <2> QED
    BY <2>1, <2>2 DEF IdleApart
<1>6. HeldApart'
  BY <1>1, <1>2, <1>3, <1>4 DEF ApartInv, HeldApart
<1>7. \A d \in Clients \ {c} : pc[d] \in {"use", "give"} => item[d] \in Conns /\ item[d] # h
  BY <1>1 DEF PoolInv, Holding, ApartInv, HeldApart, Conns
<1>8. HeldInUse'
  BY <1>1, <1>2, <1>3, <1>7 DEF ApartInv, HeldInUse
<1> QED
  BY <1>5, <1>6, <1>8 DEF ApartInv

\* A channel given back is idle in one place and in nobody's hands.
LEMMA PushApart ==
  ASSUME PoolInv, ApartInv, NEW c \in Clients, pc[c] = "give", goal[c] = "channel",
         pc' = [pc EXCEPT ![c] = "leave"], UNCHANGED <<goal, taken>>,
         idle' = Append(idle, item[c]), item' = [item EXCEPT ![c] = 0],
         useQty' = [useQty EXCEPT ![item[c]] = @ - 1]
  PROVE  ApartInv'
<1> DEFINE h == item[c]
<1>1. h \in Conns /\ h # 0 /\ h <= taken /\ useQty[h] = 1
  BY DEF PoolInv, Holding, Conns, ApartInv, HeldApart, HeldInUse
<1>2. \A i \in DOMAIN idle' :
        \/ i \in DOMAIN idle /\ idle'[i] = idle[i]
        \/ i = Len(idle) + 1 /\ idle'[i] = h
  <2>1. idle \in Seq(Conns) /\ item[c] \in Conns
    BY <1>1 DEF PoolInv, TypeOK
  <2>2. idle' = Append(idle, item[c])
    OBVIOUS
  <2> QED
    BY <2>1, <2>2, Pushed
<1>3. \A i \in DOMAIN idle : idle[i] # h /\ idle[i] \in Conns
  BY <1>1, LenProperties, ElementOfSeq DEF PoolInv, TypeOK, ApartInv, HeldApart
<1>4. /\ \A d \in Clients : item'[d] = IF d = c THEN 0 ELSE item[d]
      /\ \A d \in Clients : pc'[d] = IF d = c THEN "leave" ELSE pc[d]
      /\ \A n \in Conns : useQty'[n] = IF n = h THEN useQty[h] - 1 ELSE useQty[n]
  BY <1>1 DEF PoolInv, TypeOK
<1>5. \A d \in Clients \ {c} : item[d] # h
  BY <1>1 DEF ApartInv, HeldApart
<1>6. 0 <= taken /\ taken \in Nat
  BY PoolSize DEF PoolInv, TypeOK
<1> HIDE DEF h
<1>7. IdleApart'
  BY <1>1, <1>2, <1>3, <1>4 DEF ApartInv, IdleApart
<1>8. HeldApart'
  BY <1>2, <1>4, <1>5, <1>6 DEF ApartInv, HeldApart
<1>9. \A d \in Clients \ {c} : pc[d] \in {"use", "give"} => item[d] \in Conns
  BY DEF PoolInv, Holding
<1>10. HeldInUse'
  BY <1>4, <1>5, <1>9 DEF ApartInv, HeldInUse
<1> QED
  BY <1>7, <1>8, <1>10 DEF ApartInv

\* A connection newly taken is beyond everything idle or held.
LEMMA TakeApart ==
  ASSUME PoolInv, ApartInv, NEW c \in Clients, pc[c] = "poll",
         NEW p \in {"open", "use"}, p = "use" => goal[c] = "connection",
         pc' = [pc EXCEPT ![c] = p], UNCHANGED <<goal, idle, useQty>>,
         taken' = taken + 1, item' = [item EXCEPT ![c] = taken + 1]
  PROVE  ApartInv'
<1>1. taken \in Nat /\ (\A d \in Clients : item[d] \in Nat)
  BY PoolSize DEF PoolInv, TypeOK
<1>2. \A i \in DOMAIN idle : idle[i] \in Nat
  <2>1. Conns \subseteq Nat
    BY DEF Conns
  <2> QED
    BY <2>1, LenProperties, ElementOfSeq DEF PoolInv, TypeOK
<1>3. /\ \A d \in Clients : item'[d] = IF d = c THEN taken + 1 ELSE item[d]
      /\ \A d \in Clients : pc'[d] = IF d = c THEN p ELSE pc[d]
  BY DEF PoolInv, TypeOK
<1>4. IdleApart'
  BY <1>1, <1>2 DEF ApartInv, IdleApart
<1>5. HeldApart'
  BY <1>1, <1>2, <1>3 DEF ApartInv, IdleApart, HeldApart
<1>6. HeldInUse'
  BY <1>3 DEF ApartInv, HeldInUse
<1> QED
  BY <1>4, <1>5, <1>6 DEF ApartInv

\* A connection with its channel opened is in the same hands as before.
LEMMA OpenApart ==
  ASSUME PoolInv, ApartInv, NEW c \in Clients, pc[c] = "open",
         pc' = [pc EXCEPT ![c] = "use"], UNCHANGED <<goal, idle, taken, item>>,
         useQty' = [useQty EXCEPT ![item[c]] = 1]
  PROVE  ApartInv'
<1>1. item[c] \in Conns /\ item[c] # 0
  BY DEF PoolInv, Holding, Conns
<1>2. /\ \A d \in Clients : pc'[d] = IF d = c THEN "use" ELSE pc[d]
      /\ \A n \in Conns : useQty'[n] = IF n = item[c] THEN 1 ELSE useQty[n]
  BY <1>1 DEF PoolInv, TypeOK
<1>3. \A i \in DOMAIN idle : idle[i] \in Conns /\ idle[i] # item[c]
  BY <1>1, LenProperties, ElementOfSeq DEF PoolInv, TypeOK, ApartInv, HeldApart
<1>4. IdleApart'
  BY <1>2, <1>3 DEF ApartInv, IdleApart
<1>5. HeldApart'
  BY DEF ApartInv, HeldApart
<1>6. \A d \in Clients \ {c} : pc[d] \in {"use", "give"} => item[d] \in Conns /\ item[d] # item[c]
  BY <1>1 DEF PoolInv, Holding, ApartInv, HeldApart
<1>7. HeldInUse'
  BY <1>1, <1>2, <1>6 DEF ApartInv, HeldInUse
<1> QED
  BY <1>4, <1>5, <1>7 DEF ApartInv

\* Every step keeps holders and idle channels apart: one case per action.
LEMMA StepApart ==
  ASSUME PoolInv, ApartInv, NEW c \in Clients, Step(c)
  PROVE  ApartInv'
<1> USE DEF Go, poolVars
<1>1. CASE EnterSend(c)
  BY <1>1, HandsOnly DEF EnterSend
<1>2. CASE EnterUse(c)
  <2>1. \A d \in Clients \ {c} : goal'[d] = goal[d]
    BY <1>2 DEF EnterUse, PoolInv, TypeOK
  <2> QED
    BY <1>2, <2>1, HandsOnly DEF EnterUse
<1>3. CASE GetStream(c)
  <2>1. CASE Go(c, "poll")
    BY <1>3, <2>1, HandsOnly DEF GetStream, PoolInv, TypeOK
  <2>2. CASE Go(c, "use")
    BY <1>3, <2>2, PopApart DEF GetStream, PoolInv, TypeOK
  <2> QED
    BY <1>3, <2>1, <2>2 DEF GetStream
<1>4. CASE PollConnection(c)
  <2>1. CASE Go(c, "sleep")
    <3>1. UNCHANGED <<idle, useQty, taken, item, goal>>
      BY <1>4, <2>1 DEF PollConnection, PoolInv, TypeOK
    <3> QED
      BY <1>4, <2>1, <3>1, HandsOnly DEF PollConnection
  <2>2. CASE Go(c, "open") \/ Go(c, "use")
    BY <1>4, <2>2, TakeApart DEF PollConnection, PoolInv, TypeOK
  <2> QED
    BY <1>4, <2>1, <2>2 DEF PollConnection
<1>5. CASE Wake(c)
  BY <1>5, HandsOnly DEF Wake
<1>6. CASE OpenChannel(c)
  <2>1. CASE Go(c, "use")
    BY <1>6, <2>1, OpenApart DEF OpenChannel, PoolInv, TypeOK
  <2>2. CASE Go(c, "leave")
    BY <1>6, <2>2, HandsOnly DEF OpenChannel, PoolInv, TypeOK
  <2> QED
    BY <1>6, <2>1, <2>2 DEF OpenChannel
<1>7. CASE Work(c)
  BY <1>7, HandsOnly DEF Work
<1>8. CASE ReleaseChannel(c)
  BY <1>8, PushApart DEF ReleaseChannel
<1>9. CASE RemoveConnection(c)
  BY <1>9, HandsOnly DEF RemoveConnection
<1>10. CASE Leave(c)
  BY <1>10, HandsOnly DEF Leave
<1> QED
  BY <1>1, <1>2, <1>3, <1>4, <1>5, <1>6, <1>7, <1>8, <1>9, <1>10 DEF Step

\* A channel is idle once or with one client, never both (lines 63-92).
THEOREM ChannelsApart == Spec => []ChannelsExclusive
<1>1. Init => ApartInv
  BY PoolSize DEF Init, ApartInv, IdleApart, HeldApart, HeldInUse
<1>2. PoolInv /\ ApartInv /\ [Next]_vars => ApartInv'
  <2> SUFFICES ASSUME PoolInv, ApartInv, [Next]_vars PROVE ApartInv'
    OBVIOUS
  <2>1. CASE UNCHANGED vars
    BY <2>1 DEF vars, ApartInv, IdleApart, HeldApart, HeldInUse
  <2> QED
    BY <2>1, StepApart DEF Next, Finished
<1>3. PoolInv /\ ApartInv => ChannelsExclusive
  <2> SUFFICES ASSUME PoolInv, ApartInv PROVE ChannelsExclusive
    OBVIOUS
  <2>1. \A c \in Clients : pc[c] \in {"use", "give"} => item[c] # 0
    BY DEF PoolInv, Holding, Conns
  <2> QED
    BY <2>1 DEF ApartInv, IdleApart, HeldApart, HeldInUse, ChannelsExclusive
<1> QED
  BY <1>1, <1>2, <1>3, PoolInvariant, PTL DEF Spec

\* A client waits for a connection only as the owner of the monitor and with
\* nothing in the pool (lines 42-60 and 77-81).
THEOREM WaitIsDry == Spec => []WaitsOnlyWhenDry
<1>1. PoolInv => WaitsOnlyWhenDry
  BY DEF PoolInv, Owned, Dry, WaitsOnlyWhenDry, Waiting
<1> QED
  BY <1>1, PoolInvariant, PTL

\* While a client waits no step of anybody changes the pool: every release and
\* every other request needs the monitor it keeps (lines 33, 42, 63, 77).
LEMMA WaitingStep ==
  ASSUME PoolInv, NEW w \in Clients, Waiting(w), NEW c \in Clients, Step(c)
  PROVE  UNCHANGED poolVars /\ (Waiting(w)' \/ pc'[w] = "leave")
<1> USE PoolSize, NobodyIsNoClient DEF PoolInv, TypeOK, Owned, Waiting, Go, poolVars
<1>1. monitor = w /\ monitor # NoClient
  OBVIOUS
<1>2. CASE EnterSend(c) \/ EnterUse(c) \/ Work(c) \/ Leave(c)
  BY <1>2 DEF EnterSend, EnterUse, Work, Leave
<1>3. CASE GetStream(c) \/ ReleaseChannel(c) \/ RemoveConnection(c)
  BY <1>1, <1>3 DEF GetStream, ReleaseChannel, RemoveConnection
<1>4. CASE PollConnection(c)
  BY <1>1, <1>4 DEF PollConnection
<1>5. CASE Wake(c)
  BY <1>1, <1>5 DEF Wake
<1>6. CASE OpenChannel(c)
  BY <1>1, <1>6 DEF OpenChannel
<1> QED
  BY <1>2, <1>3, <1>4, <1>5, <1>6 DEF Step

\* A client that has to wait for a connection is never served.
THEOREM WaitIsForever == Spec => NeverServed
<1>1. PoolInv /\ [Next]_vars =>
        [\A c \in Clients : Waiting(c) => Waiting(c)' \/ pc'[c] = "leave"]_vars
  BY WaitingStep DEF Next, Finished
<1> QED
  BY <1>1, PoolInvariant, PTL DEF Spec, NeverServed

\* One waiting client freezes the whole pool.
THEOREM WaitFreezes == Spec => WaitingFreezesPool
<1>1. PoolInv /\ [Next]_vars =>
        [(\E c \in Clients : Waiting(c)) => UNCHANGED poolVars]_vars
  BY WaitingStep DEF Next, Finished
<1> QED
  BY <1>1, PoolInvariant, PTL DEF Spec, WaitingFreezesPool
=============================================================================
