------------------------- MODULE BackgroundTasksProofs -------------------------
(***************************************************************************)
(* Theorems about BackgroundTasks, for every size of the common pool and   *)
(* any number of messages, crashes and failing commands.                   *)
(***************************************************************************)
EXTENDS BackgroundTasks, FiniteSetTheorems, TLAPS

(***************************************************************************)
(* The inductive invariant, by parts.                                      *)
(***************************************************************************)

PoolTypes ==
  /\ parallelism \in Parallelisms /\ prod \in BOOLEAN
  /\ jvm \in {"down", "starting", "up"}
  /\ submitted \in [Threads -> Seq(Tasks)]
  /\ pc \in [Tasks -> {"off", "queued", "ask", "work", "sleep", "bind", "serve", "ended"}]
  /\ faults \in 0 .. MaxFaults

QueueTypes ==
  /\ list \in [Queues -> Seq(Messages)]
  /\ delayed \in Seq(Messages)
  /\ delivered \in [Queues -> Seq(Messages)]
  /\ blank \subseteq Messages
  /\ holding \in [Queues -> 0 .. MaxMessages]
  /\ lost \in [Queues -> SUBSET Messages]

\* Room for the calls of offerAsync that are on their way.
Room ==
  /\ inflight \in 0 .. MaxMessages
  /\ stored \in [Queues -> 0 .. MaxMessages]
  /\ stored["delay"] + inflight <= MaxMessages

\* What waits in a submission queue waits there once, and has not begun.
WaitsOnce ==
  \A h \in Threads :
    /\ \A i \in DOMAIN submitted[h] :
         pc[submitted[h][i]] = "queued" /\ Submitter(submitted[h][i]) = h
    /\ \A i, j \in DOMAIN submitted[h] : i # j => submitted[h][i] # submitted[h][j]

\* A consumer holds a message exactly while it works on it.
HoldsWorking == \A q \in Queues : holding[q] # 0 <=> pc[Consumer(q)] = "work"

PoolBound == Cardinality(Running) <= Capacity

TaskInv == PoolTypes /\ QueueTypes /\ Room /\ WaitsOnce /\ HoldsWorking

LEMMA ConsumerTask ==
  /\ Consumer("mq") = "redismq" /\ Consumer("delay") = "take"
  /\ \A q \in Queues : Consumer(q) \in Tasks
BY DEF Consumer, Queues, Tasks

LEMMA HeadTail ==
  ASSUME NEW S, NEW s \in Seq(S), s # <<>>
  PROVE  Head(s) \in S /\ Tail(s) \in Seq(S)
OBVIOUS

LEMMA AppendBehind ==
  ASSUME NEW S, NEW s \in Seq(S), NEW t \in Seq(S), NEW x \in S
  PROVE  s \o Append(t, x) = Append(s \o t, x)
OBVIOUS

LEMMA HeadMoves ==
  ASSUME NEW S, NEW s \in Seq(S), NEW t \in Seq(S), t # <<>>
  PROVE  Append(s, Head(t)) \o Tail(t) = s \o t
OBVIOUS

LEMMA HeadBehind ==
  ASSUME NEW S, NEW s \in Seq(S), NEW t \in Seq(S), s # <<>>
  PROVE  /\ s \o t # <<>> /\ Head(s \o t) = Head(s)
         /\ Tail(s \o t) = Tail(s) \o t
OBVIOUS

LEMMA SeqGrows ==
  ASSUME NEW S, NEW T, S \subseteq T, NEW s \in Seq(S)
  PROVE  s \in Seq(T)
OBVIOUS

LEMMA TaskInit == Init => TaskInv
BY BoundAssumption, ConsumerTask
   DEF Init, TaskInv, PoolTypes, QueueTypes, Room, WaitsOnce, HoldsWorking, Tasks, Queues, Threads

\* Every step of application, pool, consumers, producers and faults keeps it.
LEMMA TaskStep == TaskInv /\ [Next]_vars => TaskInv'
<1> SUFFICES ASSUME TaskInv, [Next]_vars PROVE TaskInv'
  OBVIOUS
<1> USE BoundAssumption, ConsumerTask DEF Go, config, data, Messages
<1>1. CASE \E t \in Tasks : Submit(t)
  <2>1. PoolTypes'
    BY <1>1 DEF Submit, Submitter, TaskInv, PoolTypes, Tasks, Threads
  <2>2. QueueTypes'
    BY <1>1 DEF Submit, Submitter, TaskInv, QueueTypes, Room, Queues
  <2>3. Room'
    BY <1>1 DEF Submit, Submitter, TaskInv, Room, Queues
  <2>4. WaitsOnce'
    BY <1>1 DEF Submit, Submitter, TaskInv, PoolTypes, WaitsOnce, Tasks, Threads
  <2>5. HoldsWorking'
    BY <1>1 DEF Submit, Submitter, TaskInv, PoolTypes, QueueTypes, Room, HoldsWorking, WaitsOnce, Tasks, Queues
  <2> QED
    BY <2>1, <2>2, <2>3, <2>4, <2>5 DEF TaskInv
<1>2. CASE \E t \in Tasks : Bind(t)
  <2>1. PoolTypes'
    BY <1>2 DEF Bind, Fault, TaskInv, PoolTypes, Tasks, Threads
  <2>2. QueueTypes'
    BY <1>2 DEF Bind, Fault, TaskInv, QueueTypes, Room, Queues
  <2>3. Room'
    BY <1>2 DEF Bind, Fault, TaskInv, Room, Queues
  <2>4. WaitsOnce'
    BY <1>2, SMTT(30) DEF Bind, Fault, TaskInv, PoolTypes, WaitsOnce, Tasks, Threads
  <2>5. HoldsWorking'
    BY <1>2 DEF Bind, Fault, TaskInv, PoolTypes, QueueTypes, Room, HoldsWorking, WaitsOnce, Tasks, Queues
  <2> QED
    BY <2>1, <2>2, <2>3, <2>4, <2>5 DEF TaskInv
<1>3. CASE \E h \in Threads : Start(h)
  <2>1. PoolTypes'
    BY <1>3 DEF Start, TaskInv, PoolTypes, Tasks, Threads
  <2>2. QueueTypes'
    BY <1>3 DEF Start, TaskInv, QueueTypes, Room, Queues
  <2>3. Room'
    BY <1>3 DEF Start, TaskInv, Room, Queues
  <2>4. WaitsOnce'
    BY <1>3 DEF Start, TaskInv, PoolTypes, WaitsOnce, Tasks, Threads
  <2>5. HoldsWorking'
    BY <1>3 DEF Start, TaskInv, PoolTypes, QueueTypes, Room, HoldsWorking, WaitsOnce, Tasks, Queues
  <2> QED
    BY <2>1, <2>2, <2>3, <2>4, <2>5 DEF TaskInv
<1>4. CASE Push
  <2>1. PoolTypes'
    BY <1>4 DEF Push, TaskInv, PoolTypes, Tasks, Threads
  <2>2. QueueTypes'
    BY <1>4, SMTT(30) DEF Push, TaskInv, QueueTypes, Room, Queues
  <2>3. Room'
    BY <1>4 DEF Push, TaskInv, Room, Queues
  <2>4. WaitsOnce'
    BY <1>4 DEF Push, TaskInv, PoolTypes, WaitsOnce, Tasks, Threads
  <2>5. HoldsWorking'
    BY <1>4 DEF Push, TaskInv, PoolTypes, QueueTypes, Room, HoldsWorking, WaitsOnce, Tasks, Queues
  <2> QED
    BY <2>1, <2>2, <2>3, <2>4, <2>5 DEF TaskInv
<1>5. CASE Pop
  <2>1. PoolTypes'
    BY <1>5 DEF Pop, Remove, TaskInv, PoolTypes, Tasks, Threads
  <2>2. QueueTypes'
    <3>1. CASE Remove("mq")
      <4>1. list["mq"] # <<>> /\ list["mq"] \in Seq(1 .. MaxMessages)
        BY <3>1 DEF Remove, TaskInv, QueueTypes, Queues
      <4>2. Head(list["mq"]) \in 1 .. MaxMessages /\ Tail(list["mq"]) \in Seq(1 .. MaxMessages)
        BY <4>1, HeadTail
      <4> QED
        BY <1>5, <3>1, <4>2, SMTT(30) DEF Pop, Remove, TaskInv, QueueTypes, Queues
    <3>2. CASE UNCHANGED <<list, holding>>
      BY <1>5, <3>2 DEF Pop, TaskInv, QueueTypes
    <3> QED
      BY <1>5, <3>1, <3>2 DEF Pop
  <2>3. Room'
    BY <1>5 DEF Pop, Remove, TaskInv, Room, Queues
  <2>4. WaitsOnce'
    BY <1>5, SMTT(30) DEF Pop, Remove, TaskInv, PoolTypes, WaitsOnce, Tasks, Threads
  <2>5. HoldsWorking'
    <3>1. CASE Remove("mq")
      <4>1. list["mq"] # <<>> /\ list["mq"] \in Seq(1 .. MaxMessages)
        BY <3>1 DEF Remove, TaskInv, QueueTypes, Queues
      <4>2. Head(list["mq"]) # 0
        BY <4>1, HeadTail
      <4> QED
        BY <1>5, <3>1, <4>2 DEF Pop, Remove, TaskInv, PoolTypes, QueueTypes, HoldsWorking, Tasks, Queues
    <3>2. CASE list["mq"] = <<>>
      BY <1>5, <3>2 DEF Pop, Remove, TaskInv, PoolTypes, QueueTypes, HoldsWorking, Tasks, Queues
    <3> QED
      BY <1>5, <3>1, <3>2 DEF Pop
  <2> QED
    BY <2>1, <2>2, <2>3, <2>4, <2>5 DEF TaskInv
<1>6. CASE Consume
  <2>1. PoolTypes'
    BY <1>6 DEF Consume, Process, TaskInv, PoolTypes, Tasks, Threads
  <2>2. QueueTypes'
    <3>1. holding["mq"] \in 1 .. MaxMessages
      BY <1>6 DEF Consume, TaskInv, QueueTypes, HoldsWorking, Queues
    <3>2. Append(delivered["mq"], holding["mq"]) \in Seq(1 .. MaxMessages)
      BY <3>1 DEF TaskInv, QueueTypes, Queues
    <3> QED
      BY <1>6, <3>2 DEF Consume, Process, TaskInv, QueueTypes, Queues
  <2>3. Room'
    BY <1>6 DEF Consume, Process, TaskInv, Room, Queues
  <2>4. WaitsOnce'
    BY <1>6 DEF Consume, Process, TaskInv, PoolTypes, WaitsOnce, Tasks, Threads
  <2>5. HoldsWorking'
    BY <1>6 DEF Consume, Process, TaskInv, PoolTypes, QueueTypes, Room, HoldsWorking, WaitsOnce, Tasks, Queues
  <2> QED
    BY <2>1, <2>2, <2>3, <2>4, <2>5 DEF TaskInv
<1>7. CASE Wake
  <2>1. PoolTypes'
    BY <1>7 DEF Wake, TaskInv, PoolTypes, Tasks, Threads
  <2>2. QueueTypes'
    BY <1>7 DEF Wake, TaskInv, QueueTypes, Room, Queues
  <2>3. Room'
    BY <1>7 DEF Wake, TaskInv, Room, Queues
  <2>4. WaitsOnce'
    BY <1>7 DEF Wake, TaskInv, PoolTypes, WaitsOnce, Tasks, Threads
  <2>5. HoldsWorking'
    BY <1>7 DEF Wake, TaskInv, PoolTypes, QueueTypes, Room, HoldsWorking, WaitsOnce, Tasks, Queues
  <2> QED
    BY <2>1, <2>2, <2>3, <2>4, <2>5 DEF TaskInv
<1>8. CASE Offer
  <2>1. PoolTypes'
    BY <1>8 DEF Offer, TaskInv, PoolTypes, Tasks, Threads
  <2>2. QueueTypes'
    BY <1>8 DEF Offer, TaskInv, QueueTypes, Room, Queues
  <2>3. Room'
    BY <1>8 DEF Offer, TaskInv, Room, Queues
  <2>4. WaitsOnce'
    BY <1>8 DEF Offer, TaskInv, PoolTypes, WaitsOnce, Tasks, Threads
  <2>5. HoldsWorking'
    BY <1>8 DEF Offer, TaskInv, PoolTypes, QueueTypes, Room, HoldsWorking, WaitsOnce, Tasks, Queues
  <2> QED
    BY <2>1, <2>2, <2>3, <2>4, <2>5 DEF TaskInv
<1>9. CASE Arrive
  <2>1. PoolTypes'
    BY <1>9 DEF Arrive, TaskInv, PoolTypes, Tasks, Threads
  <2>2. QueueTypes'
    BY <1>9, SMTT(30) DEF Arrive, TaskInv, QueueTypes, Room, Queues
  <2>3. Room'
    BY <1>9 DEF Arrive, TaskInv, Room, Queues
  <2>4. WaitsOnce'
    BY <1>9 DEF Arrive, TaskInv, PoolTypes, WaitsOnce, Tasks, Threads
  <2>5. HoldsWorking'
    BY <1>9 DEF Arrive, TaskInv, PoolTypes, QueueTypes, Room, HoldsWorking, WaitsOnce, Tasks, Queues
  <2> QED
    BY <2>1, <2>2, <2>3, <2>4, <2>5 DEF TaskInv
<1>10. CASE Transfer
  <2>1. PoolTypes'
    BY <1>10 DEF Transfer, TaskInv, PoolTypes, Tasks, Threads
  <2>2. QueueTypes'
    <3>1. /\ delayed # <<>> /\ delayed \in Seq(1 .. MaxMessages)
          /\ list["delay"] \in Seq(1 .. MaxMessages)
      BY <1>10 DEF Transfer, TaskInv, QueueTypes, Queues
    <3>2. /\ Tail(delayed) \in Seq(1 .. MaxMessages)
          /\ Append(list["delay"], Head(delayed)) \in Seq(1 .. MaxMessages)
      BY <3>1, HeadTail
    <3> QED
      BY <1>10, <3>2 DEF Transfer, TaskInv, QueueTypes, Queues
  <2>3. Room'
    BY <1>10 DEF Transfer, TaskInv, Room, Queues
  <2>4. WaitsOnce'
    BY <1>10 DEF Transfer, TaskInv, PoolTypes, WaitsOnce, Tasks, Threads
  <2>5. HoldsWorking'
    BY <1>10 DEF Transfer, TaskInv, PoolTypes, QueueTypes, Room, HoldsWorking, WaitsOnce, Tasks, Queues
  <2> QED
    BY <2>1, <2>2, <2>3, <2>4, <2>5 DEF TaskInv
<1>11. CASE Take
  <2>1. PoolTypes'
    BY <1>11 DEF Take, Remove, TaskInv, PoolTypes, Tasks, Threads
  <2>2. QueueTypes'
    <3>1. list["delay"] # <<>> /\ list["delay"] \in Seq(1 .. MaxMessages)
      BY <1>11 DEF Take, Remove, TaskInv, QueueTypes, Queues
    <3>2. Head(list["delay"]) \in 1 .. MaxMessages /\ Tail(list["delay"]) \in Seq(1 .. MaxMessages)
      BY <3>1, HeadTail
    <3> QED
      BY <1>11, <3>2, SMTT(30) DEF Take, Remove, TaskInv, QueueTypes, Queues
  <2>3. Room'
    BY <1>11 DEF Take, Remove, TaskInv, Room, Queues
  <2>4. WaitsOnce'
    BY <1>11 DEF Take, Remove, TaskInv, PoolTypes, WaitsOnce, Tasks, Threads
  <2>5. HoldsWorking'
    BY <1>11, SMTT(30) DEF Take, Remove, TaskInv, PoolTypes, QueueTypes, Room, HoldsWorking, WaitsOnce, Tasks, Queues
  <2> QED
    BY <2>1, <2>2, <2>3, <2>4, <2>5 DEF TaskInv
<1>12. CASE Work
  <2>1. PoolTypes'
    BY <1>12 DEF Work, Process, TaskInv, PoolTypes, Tasks, Threads
  <2>2. QueueTypes'
    <3>1. holding["delay"] \in 1 .. MaxMessages
      BY <1>12 DEF Work, TaskInv, QueueTypes, HoldsWorking, Queues
    <3>2. Append(delivered["delay"], holding["delay"]) \in Seq(1 .. MaxMessages)
      BY <3>1 DEF TaskInv, QueueTypes, Queues
    <3> QED
      BY <1>12, <3>2 DEF Work, Process, TaskInv, QueueTypes, Queues
  <2>3. Room'
    BY <1>12 DEF Work, Process, TaskInv, Room, Queues
  <2>4. WaitsOnce'
    BY <1>12 DEF Work, Process, TaskInv, PoolTypes, WaitsOnce, Tasks, Threads
  <2>5. HoldsWorking'
    BY <1>12 DEF Work, Process, TaskInv, PoolTypes, QueueTypes, Room, HoldsWorking, WaitsOnce, Tasks, Queues
  <2> QED
    BY <2>1, <2>2, <2>3, <2>4, <2>5 DEF TaskInv
<1>13. CASE \E q \in Queues : AskFails(q)
  <2>1. PoolTypes'
    BY <1>13 DEF AskFails, LoseAnswer, Fault, TaskInv, PoolTypes, Tasks, Threads
  <2>2. QueueTypes'
    <3> PICK q \in Queues : AskFails(q)
      BY <1>13
    <3>1. /\ UNCHANGED <<delayed, delivered, blank, holding>>
          /\ \/ UNCHANGED <<list, lost>>
             \/ /\ list[q] # <<>> /\ list' = [list EXCEPT ![q] = Tail(@)]
                /\ lost' = [lost EXCEPT ![q] = @ \cup {Head(list[q])}]
      BY DEF AskFails, LoseAnswer
    <3>2. list[q] # <<>> =>
            Tail(list[q]) \in Seq(1 .. MaxMessages) /\ Head(list[q]) \in 1 .. MaxMessages
      BY DEF TaskInv, QueueTypes
    <3> QED
      BY <3>1, <3>2, ZenonT(40) DEF TaskInv, QueueTypes
  <2>3. Room'
    BY <1>13 DEF AskFails, LoseAnswer, Fault, TaskInv, Room, Queues
  <2>4. WaitsOnce'
    BY <1>13, SMTT(30) DEF AskFails, LoseAnswer, Fault, TaskInv, PoolTypes, WaitsOnce, Tasks, Threads
  <2>5. HoldsWorking'
    BY <1>13, SMTT(30) DEF AskFails, LoseAnswer, Fault, TaskInv, PoolTypes, QueueTypes, Room, HoldsWorking, WaitsOnce, Tasks, Queues
  <2> QED
    BY <2>1, <2>2, <2>3, <2>4, <2>5 DEF TaskInv
<1>14. CASE OfferFails
  <2>1. PoolTypes'
    BY <1>14 DEF OfferFails, Fault, TaskInv, PoolTypes, Tasks, Threads
  <2>2. QueueTypes'
    BY <1>14 DEF OfferFails, Fault, TaskInv, QueueTypes, Room, Queues
  <2>3. Room'
    BY <1>14 DEF OfferFails, Fault, TaskInv, Room, Queues
  <2>4. WaitsOnce'
    BY <1>14 DEF OfferFails, Fault, TaskInv, PoolTypes, WaitsOnce, Tasks, Threads
  <2>5. HoldsWorking'
    BY <1>14 DEF OfferFails, Fault, TaskInv, PoolTypes, QueueTypes, Room, HoldsWorking, WaitsOnce, Tasks, Queues
  <2> QED
    BY <2>1, <2>2, <2>3, <2>4, <2>5 DEF TaskInv
<1>15. CASE Crash
  <2>1. PoolTypes'
    BY <1>15 DEF Crash, Fault, TaskInv, PoolTypes, Tasks, Threads
  <2>2. QueueTypes'
    BY <1>15 DEF Crash, Fault, TaskInv, QueueTypes, Room, Queues
  <2>3. Room'
    BY <1>15 DEF Crash, Fault, TaskInv, Room, Queues
  <2>4. WaitsOnce'
    BY <1>15 DEF Crash, Fault, TaskInv, PoolTypes, WaitsOnce, Tasks, Threads
  <2>5. HoldsWorking'
    BY <1>15 DEF Crash, Fault, TaskInv, PoolTypes, QueueTypes, Room, HoldsWorking, WaitsOnce, Tasks, Queues
  <2> QED
    BY <2>1, <2>2, <2>3, <2>4, <2>5 DEF TaskInv
<1>16. CASE Restart
  <2>1. PoolTypes'
    BY <1>16 DEF Restart, TaskInv, PoolTypes, Tasks, Threads
  <2>2. QueueTypes'
    BY <1>16 DEF Restart, TaskInv, QueueTypes, Room, Queues
  <2>3. Room'
    BY <1>16 DEF Restart, TaskInv, Room, Queues
  <2>4. WaitsOnce'
    BY <1>16 DEF Restart, TaskInv, PoolTypes, WaitsOnce, Tasks, Threads
  <2>5. HoldsWorking'
    BY <1>16 DEF Restart, TaskInv, PoolTypes, QueueTypes, Room, HoldsWorking, WaitsOnce, Tasks, Queues
  <2> QED
    BY <2>1, <2>2, <2>3, <2>4, <2>5 DEF TaskInv
<1>17. CASE UNCHANGED vars
  <2>1. PoolTypes'
    BY <1>17 DEF vars, TaskInv, PoolTypes, Tasks, Threads
  <2>2. QueueTypes'
    BY <1>17 DEF vars, TaskInv, QueueTypes, Room, Queues
  <2>3. Room'
    BY <1>17 DEF vars, TaskInv, Room, Queues
  <2>4. WaitsOnce'
    BY <1>17 DEF vars, TaskInv, PoolTypes, WaitsOnce, Tasks, Threads
  <2>5. HoldsWorking'
    BY <1>17 DEF vars, TaskInv, PoolTypes, QueueTypes, Room, HoldsWorking, WaitsOnce, Tasks, Queues
  <2> QED
    BY <2>1, <2>2, <2>3, <2>4, <2>5 DEF TaskInv
<1> QED
  BY <1>1, <1>2, <1>3, <1>4, <1>5, <1>6, <1>7, <1>8, <1>9, <1>10, <1>11, <1>12, <1>13, <1>14, <1>15, <1>16, <1>17
     DEF Next, ThriftServer, ThriftServerProxy, Redismq, TakeTask, Tasks

(***************************************************************************)
(* The pool never runs more tasks than it has workers.                     *)
(***************************************************************************)

LEMMA TasksFinite == IsFiniteSet(Tasks) /\ Cardinality(Tasks) \in Nat
<1>1. Tasks = ((({} \cup {"thrift"}) \cup {"take"}) \cup {"redismq"}) \cup {"proxy"}
  BY DEF Tasks
<1> QED
  BY <1>1, FS_EmptySet, FS_AddElement, FS_CardinalityType

LEMMA RunningFinite ==
  /\ IsFiniteSet(Running) /\ Cardinality(Running) \in Nat
  /\ \A t : Cardinality(Running \cup {t}) <= Cardinality(Running) + 1
<1>1. IsFiniteSet(Tasks)
  BY TasksFinite
<1>2. Running \in SUBSET Tasks
  BY DEF Running
<1>3. IsFiniteSet(Running) /\ Cardinality(Running) \in Nat
  BY <1>1, <1>2, FS_Subset, FS_CardinalityType
<1>4. ASSUME NEW t PROVE Cardinality(Running \cup {t}) <= Cardinality(Running) + 1
  <2>1. Cardinality(Running \cup {t})
          = IF t \in Running THEN Cardinality(Running) ELSE Cardinality(Running) + 1
    BY <1>3, FS_AddElement
  <2> QED
    BY <1>3, <2>1
<1> QED
  BY <1>3, <1>4

\* A task that begins was not running; every other step ends or keeps tasks.
LEMMA PoolStep == TaskInv /\ PoolBound /\ [Next]_vars => PoolBound'
<1> SUFFICES ASSUME TaskInv, PoolBound, [Next]_vars PROVE PoolBound'
  OBVIOUS
<1>1. Capacity' = Capacity /\ Capacity \in Nat
  <2>1. UNCHANGED parallelism
    BY DEF Next, Submit, ThriftServer, ThriftServerProxy, Bind, Start, Push, Redismq, Pop,
           Consume, Wake, Offer, Arrive, Transfer, TakeTask, Take, Work, AskFails,
           OfferFails, Crash, Restart, vars, config
  <2>2. parallelism \in Nat
    BY PoolAssumption DEF TaskInv, PoolTypes
  <2> QED
    BY <2>1, <2>2, TasksFinite DEF Capacity
<1>2. CASE \E h \in Threads : Start(h)
  <2> PICK h \in Threads : Start(h)
    BY <1>2
  <2> DEFINE t == Head(submitted[h])
  <2>1. Cardinality(Running) < Capacity
    BY DEF Start
  <2>2. Running' \subseteq Running \cup {t}
    BY DEF Start, Go, Running, TaskInv, PoolTypes
  <2>3. Cardinality(Running \cup {t}) <= Cardinality(Running) + 1
        /\ IsFiniteSet(Running \cup {t}) /\ Cardinality(Running \cup {t}) \in Nat
    BY RunningFinite, FS_AddElement, FS_CardinalityType
  <2>4. Cardinality(Running') <= Cardinality(Running \cup {t}) /\ Cardinality(Running') \in Nat
    BY <2>2, <2>3, FS_Subset, FS_CardinalityType
  <2> HIDE DEF t
  <2> QED
    BY <1>1, <2>1, <2>3, <2>4, RunningFinite DEF PoolBound
<1>3. CASE ~ \E h \in Threads : Start(h)
  <2>1. Running' \subseteq Running
    BY <1>3 DEF Next, Submit, ThriftServer, ThriftServerProxy, Bind, Push, Redismq, Pop,
                Consume, Wake, Offer, Arrive, Transfer, TakeTask, Take, Work, AskFails,
                OfferFails, Crash, Restart, vars, Remove, Go, Running, Consumer, Queues,
                data, TaskInv, PoolTypes
  <2>2. Cardinality(Running') <= Cardinality(Running) /\ Cardinality(Running') \in Nat
    BY <2>1, RunningFinite, FS_Subset, FS_CardinalityType
  <2> QED
    BY <1>1, <2>2, RunningFinite DEF PoolBound
<1> QED
  BY <1>2, <1>3

\* Every queue, flag and counter has its type, a consumer holds a message exactly
\* while it works, and the pool runs no more tasks than it has workers.
THEOREM TypeCorrect == Spec => []TypeOK
<1>1. Init => TaskInv /\ PoolBound
  <2>1. Init => Running = {}
    BY DEF Init, Running
  <2>2. Init => Capacity \in Nat
    BY TasksFinite, PoolAssumption DEF Init, Capacity
  <2> QED
    BY <2>1, <2>2, TaskInit, FS_EmptySet DEF PoolBound
<1>2. TaskInv /\ PoolBound /\ [Next]_vars => TaskInv' /\ PoolBound'
  BY TaskStep, PoolStep
<1>3. TaskInv /\ PoolBound => TypeOK
  BY DEF TaskInv, PoolTypes, QueueTypes, Room, HoldsWorking, PoolBound, TypeOK
<1> QED
  BY <1>1, <1>2, <1>3, PTL DEF Spec

(***************************************************************************)
(* Both queues implement QueuePromise.                                     *)
(***************************************************************************)

\* What waits in Redis, oldest first.
Rest(q) == IF q = "mq" THEN list["mq"] ELSE list["delay"] \o delayed

\* What a step can do to the queue q.
Calm == faults' = faults
Fails == faults' = faults + 1

Stores(q) ==
  /\ stored'[q] = stored[q] + 1 /\ Rest(q)' = Append(Rest(q), stored'[q])
  /\ holding'[q] = holding[q] /\ delivered'[q] = delivered[q]
  /\ lost'[q] = lost[q] /\ Calm

Removes(q) ==
  /\ Rest(q) # <<>> /\ Rest(q)' = Tail(Rest(q))
  /\ holding[q] = 0 /\ holding'[q] = Head(Rest(q)) /\ holding'[q] # 0
  /\ stored'[q] = stored[q] /\ delivered'[q] = delivered[q]
  /\ lost'[q] = lost[q] /\ Calm

Delivers(q) ==
  /\ holding[q] # 0 /\ holding'[q] = 0 /\ delivered'[q] = Append(delivered[q], holding[q])
  /\ stored'[q] = stored[q] /\ Rest(q)' = Rest(q)
  /\ lost'[q] = lost[q] /\ Calm

\* The message a failing command has removed, or that was in memory at a crash.
Drops(q) ==
  /\ \/ /\ Rest(q) # <<>> /\ Rest(q)' = Tail(Rest(q)) /\ holding[q] = 0 /\ holding'[q] = 0
        /\ lost'[q] = lost[q] \cup {Head(Rest(q))}
     \/ /\ holding[q] # 0 /\ holding'[q] = 0 /\ Rest(q)' = Rest(q)
        /\ lost'[q] = lost[q] \cup {holding[q]}
  /\ stored'[q] = stored[q] /\ delivered'[q] = delivered[q] /\ Fails

Stays(q) ==
  /\ Rest(q)' = Rest(q) /\ holding'[q] = holding[q]
  /\ stored'[q] = stored[q] /\ delivered'[q] = delivered[q]
  /\ lost'[q] = lost[q] /\ (Calm \/ Fails)

Acts(q) == Stores(q) \/ Removes(q) \/ Delivers(q) \/ Drops(q) \/ Stays(q)

LEMMA QueueActs == TaskInv /\ [Next]_vars => \A q \in Queues : Acts(q)
<1> SUFFICES ASSUME TaskInv, [Next]_vars PROVE Acts("mq") /\ Acts("delay")
  BY DEF Queues
<1> USE ConsumerTask DEF data, Calm, Fails
<1>0. /\ list["mq"] \in Seq(Messages) /\ list["delay"] \in Seq(Messages)
      /\ delayed \in Seq(Messages)
      /\ holding["mq"] # 0 <=> pc["redismq"] = "work"
      /\ holding["delay"] # 0 <=> pc["take"] = "work"
      /\ 0 \notin Messages
  BY DEF TaskInv, QueueTypes, HoldsWorking, Queues, Messages
<1>1. CASE UNCHANGED data /\ (Calm \/ Fails)
  BY <1>1 DEF Acts, Stays, Rest
<1>2. CASE Push
  <2>1. Stores("mq")
    BY <1>2 DEF Push, Stores, Rest, TaskInv, QueueTypes, Room, Queues
  <2>2. Stays("delay")
    BY <1>2 DEF Push, Stays, Rest, TaskInv, QueueTypes, Room, Queues
  <2> QED
    BY <2>1, <2>2 DEF Acts
<1>3. CASE Arrive
  <2>1. stored'["delay"] = stored["delay"] + 1 /\ stored'["mq"] = stored["mq"]
        /\ delayed' = Append(delayed, stored'["delay"])
        /\ UNCHANGED <<list, holding, delivered, lost, faults>>
    BY <1>3 DEF Arrive, TaskInv, Room, Queues
  <2>2. list["delay"] \o Append(delayed, stored'["delay"])
          = Append(list["delay"] \o delayed, stored'["delay"])
    <3>1. stored'["delay"] \in Messages
      BY <1>3, <2>1, BoundAssumption DEF Arrive, TaskInv, Room, Queues, Messages
    <3> DEFINE l == list["delay"]
               x == stored'["delay"]
    <3>2. l \in Seq(Messages) /\ delayed \in Seq(Messages) /\ x \in Messages
      BY <1>0, <3>1
    <3> HIDE DEF l, x
    <3>3. l \o Append(delayed, x) = Append(l \o delayed, x)
      BY <3>2
    <3> QED
      BY <3>3 DEF l, x
  <2>3. Stores("delay")
    BY <2>1, <2>2 DEF Stores, Rest
  <2>4. Stays("mq")
    BY <2>1 DEF Stays, Rest
  <2> QED
    BY <2>3, <2>4 DEF Acts
<1>4. CASE Transfer
  <2>1. /\ delayed # <<>> /\ delayed' = Tail(delayed)
        /\ list'["delay"] = Append(list["delay"], Head(delayed)) /\ list'["mq"] = list["mq"]
        /\ UNCHANGED <<stored, holding, delivered, lost, faults>>
    BY <1>4 DEF Transfer, TaskInv, QueueTypes, Queues
  <2>2. Append(list["delay"], Head(delayed)) \o Tail(delayed) = list["delay"] \o delayed
    BY <1>0, <2>1, HeadMoves
  <2>3. Stays("mq") /\ Stays("delay")
    BY <2>1, <2>2 DEF Stays, Rest
  <2> QED
    BY <2>3 DEF Acts
<1>5. CASE Pop
  <2>1. CASE Remove("mq")
    <3>1. /\ list["mq"] # <<>> /\ list'["mq"] = Tail(list["mq"]) /\ list'["delay"] = list["delay"]
          /\ holding'["mq"] = Head(list["mq"]) /\ holding'["delay"] = holding["delay"]
          /\ holding["mq"] = 0
          /\ UNCHANGED <<delayed, stored, delivered, lost, faults>>
      BY <1>5, <2>1, <1>0 DEF Pop, Remove, TaskInv, QueueTypes, Queues
    <3>2. Head(list["mq"]) # 0
      BY <1>0, <3>1, HeadTail
    <3>3. Removes("mq") /\ Stays("delay")
      BY <3>1, <3>2 DEF Removes, Stays, Rest
    <3> QED
      BY <3>3 DEF Acts
  <2>2. CASE UNCHANGED <<list, holding>>
    BY <1>5, <2>2 DEF Pop, Acts, Stays, Rest
  <2> QED
    BY <1>5, <2>1, <2>2 DEF Pop
<1>6. CASE Take
  <2>1. /\ list["delay"] # <<>> /\ list'["delay"] = Tail(list["delay"]) /\ list'["mq"] = list["mq"]
        /\ holding'["delay"] = Head(list["delay"]) /\ holding'["mq"] = holding["mq"]
        /\ holding["delay"] = 0
        /\ UNCHANGED <<delayed, stored, delivered, lost, faults>>
    BY <1>6, <1>0 DEF Take, Remove, TaskInv, QueueTypes, Queues
  <2>2. Head(list["delay"]) # 0
    BY <1>0, <2>1, HeadTail
  <2>3. /\ list["delay"] \o delayed # <<>>
        /\ Head(list["delay"] \o delayed) = Head(list["delay"])
        /\ Tail(list["delay"] \o delayed) = Tail(list["delay"]) \o delayed
    BY <1>0, <2>1, HeadBehind
  <2>4. Removes("delay") /\ Stays("mq")
    BY <2>1, <2>2, <2>3 DEF Removes, Stays, Rest
  <2> QED
    BY <2>4 DEF Acts
<1>7. CASE Consume
  <2>1. Delivers("mq") /\ Stays("delay")
    BY <1>7, <1>0 DEF Consume, Process, Delivers, Stays, Rest, TaskInv, QueueTypes, Queues
  <2> QED
    BY <2>1 DEF Acts
<1>8. CASE Work
  <2>1. Delivers("delay") /\ Stays("mq")
    BY <1>8, <1>0 DEF Work, Process, Delivers, Stays, Rest, TaskInv, QueueTypes, Queues
  <2> QED
    BY <2>1 DEF Acts
<1>9. CASE AskFails("mq")
  <2>1. /\ holding["mq"] = 0
        /\ UNCHANGED <<delayed, stored, delivered, holding>>
        /\ faults' = faults + 1
        /\ \/ UNCHANGED <<list, lost>>
           \/ LoseAnswer("mq")
    BY <1>9, <1>0 DEF AskFails, Fault
  <2>2. CASE UNCHANGED <<list, lost>>
    BY <2>1, <2>2 DEF Acts, Stays, Rest
  <2>3. CASE LoseAnswer("mq")
    <3>1. Drops("mq") /\ Stays("delay")
      BY <2>1, <2>3 DEF LoseAnswer, Drops, Stays, Rest, TaskInv, QueueTypes, Queues
    <3> QED
      BY <3>1 DEF Acts
  <2> QED
    BY <2>1, <2>2, <2>3
<1>10. CASE AskFails("delay")
  <2>1. /\ holding["delay"] = 0
        /\ UNCHANGED <<delayed, stored, delivered, holding>>
        /\ faults' = faults + 1
        /\ \/ UNCHANGED <<list, lost>>
           \/ LoseAnswer("delay")
    BY <1>10, <1>0 DEF AskFails, Fault
  <2>2. CASE UNCHANGED <<list, lost>>
    BY <2>1, <2>2 DEF Acts, Stays, Rest
  <2>3. CASE LoseAnswer("delay")
    <3>1. /\ list["delay"] # <<>> /\ list'["delay"] = Tail(list["delay"])
          /\ list'["mq"] = list["mq"]
          /\ lost'["delay"] = lost["delay"] \cup {Head(list["delay"])}
          /\ lost'["mq"] = lost["mq"]
      BY <2>3 DEF LoseAnswer, TaskInv, QueueTypes, Queues
    <3>2. /\ list["delay"] \o delayed # <<>>
          /\ Head(list["delay"] \o delayed) = Head(list["delay"])
          /\ Tail(list["delay"] \o delayed) = Tail(list["delay"]) \o delayed
      <4>1. list["delay"] # <<>>
        BY <3>1
      <4> QED
        BY <1>0, <4>1, HeadBehind
    <3>3. Drops("delay") /\ Stays("mq")
      BY <2>1, <3>1, <3>2 DEF Drops, Stays, Rest
    <3> QED
      BY <3>3 DEF Acts
  <2> QED
    BY <2>1, <2>2, <2>3
<1>11. CASE Crash
  <2>1. /\ holding'["mq"] = 0 /\ holding'["delay"] = 0
        /\ UNCHANGED <<list, delayed, stored, delivered>> /\ Fails
        /\ lost'["mq"] = lost["mq"] \cup ({holding["mq"]} \ {0})
        /\ lost'["delay"] = lost["delay"] \cup ({holding["delay"]} \ {0})
    BY <1>11 DEF Crash, Fault, Queues
  <2>2. holding["mq"] = 0 => lost'["mq"] = lost["mq"]
    BY <2>1
  <2>3. holding["delay"] = 0 => lost'["delay"] = lost["delay"]
    BY <2>1
  <2>4. holding["mq"] # 0 => lost'["mq"] = lost["mq"] \cup {holding["mq"]}
    BY <2>1
  <2>5. holding["delay"] # 0 => lost'["delay"] = lost["delay"] \cup {holding["delay"]}
    BY <2>1
  <2> QED
    BY <2>1, <2>2, <2>3, <2>4, <2>5 DEF Acts, Drops, Stays, Rest
<1>12. CASE Offer \/ OfferFails
  BY <1>12 DEF Offer, OfferFails, Fault, Acts, Stays, Rest
<1> QED
  BY <1>1, <1>2, <1>3, <1>4, <1>5, <1>6, <1>7, <1>8, <1>9, <1>10, <1>11, <1>12
     DEF Next, Submit, ThriftServer, ThriftServerProxy, Bind, Fault, Start, Redismq, TakeTask,
         Wake, Restart, vars, Queues

\* What those actions are for QueuePromise: storing, delivering, losing or nothing.
LEMMA PromiseActs ==
  ASSUME NEW q, Rest(q) \in Seq(Nat), holding[q] \in Nat, stored[q] \in Nat, Acts(q)
  PROVE  \/ /\ stored'[q] = stored[q] + 1
            /\ (Held(q) \o Rest(q))' = Append(Held(q) \o Rest(q), stored'[q])
            /\ delivered'[q] = delivered[q] /\ lost'[q] = lost[q] /\ faults' = faults
         \/ /\ Held(q) \o Rest(q) # <<>>
            /\ (Held(q) \o Rest(q))' = Tail(Held(q) \o Rest(q))
            /\ \/ /\ delivered'[q] = delivered[q] /\ faults' = faults + 1
                  /\ lost'[q] = lost[q] \cup {Head(Held(q) \o Rest(q))}
               \/ /\ delivered'[q] = Append(delivered[q], Head(Held(q) \o Rest(q)))
                  /\ lost'[q] = lost[q] /\ faults' = faults
            /\ stored'[q] = stored[q]
         \/ /\ (Held(q) \o Rest(q))' = Held(q) \o Rest(q)
            /\ stored'[q] = stored[q] /\ delivered'[q] = delivered[q] /\ lost'[q] = lost[q]
            /\ faults' = faults \/ faults' = faults + 1
<1> USE DEF Calm, Fails
<1>1. CASE Stores(q)
  <2>1. Held(q) \in Seq(Nat) /\ stored'[q] \in Nat /\ Held(q)' = Held(q)
    BY <1>1 DEF Stores, Held
  <2>2. Held(q) \o Append(Rest(q), stored'[q]) = Append(Held(q) \o Rest(q), stored'[q])
    BY <2>1, AppendBehind, SMTT(30)
  <2> QED
    BY <1>1, <2>1, <2>2 DEF Stores
<1>2. CASE Removes(q)
  BY <1>2 DEF Removes, Held
<1>3. CASE Delivers(q)
  <2>1. Held(q) = <<holding[q]>> /\ Held(q)' = << >>
    BY <1>3 DEF Delivers, Held
  <2>2. /\ Held(q) \o Rest(q) # <<>> /\ Head(Held(q) \o Rest(q)) = holding[q]
        /\ Tail(Held(q) \o Rest(q)) = Rest(q) /\ << >> \o Rest(q) = Rest(q)
    BY <2>1
  <2> QED
    BY <1>3, <2>1, <2>2 DEF Delivers
<1>4. CASE Drops(q)
  <2>1. CASE holding[q] = 0
    BY <1>4, <2>1 DEF Drops, Held
  <2>2. CASE holding[q] # 0
    BY <1>4, <2>2, SMTT(30) DEF Drops, Held
  <2> QED
    BY <2>1, <2>2
<1>5. CASE Stays(q)
  BY <1>5 DEF Stays, Held
<1> QED
  BY <1>1, <1>2, <1>3, <1>4, <1>5 DEF Acts

LEMMA RestTypes ==
  TaskInv => \A q \in Queues :
    Rest(q) \in Seq(Nat) /\ holding[q] \in Nat /\ stored[q] \in Nat
<1> SUFFICES ASSUME TaskInv, NEW q \in Queues
             PROVE  Rest(q) \in Seq(Nat) /\ holding[q] \in Nat /\ stored[q] \in Nat
  OBVIOUS
<1>1. Messages \subseteq Nat
  BY DEF Messages
<1>2. /\ list["mq"] \in Seq(Nat) /\ list["delay"] \in Seq(Nat) /\ delayed \in Seq(Nat)
  <2>1. /\ list["mq"] \in Seq(Messages) /\ list["delay"] \in Seq(Messages)
        /\ delayed \in Seq(Messages)
    BY DEF TaskInv, QueueTypes, Queues
  <2> QED
    BY <1>1, <2>1, SeqGrows
<1> QED
  BY <1>2, BoundAssumption DEF TaskInv, QueueTypes, Room, Rest

\* Both ways to read what is pending in the delayed queue.
LEMMA DelayPending ==
  TaskInv => Held("delay") \o list["delay"] \o delayed = Held("delay") \o Rest("delay")
<1> SUFFICES ASSUME TaskInv
             PROVE  Held("delay") \o list["delay"] \o delayed = Held("delay") \o Rest("delay")
  OBVIOUS
<1>1. Messages \subseteq Nat
  BY DEF Messages
<1>2. /\ list["delay"] \in Seq(Messages) /\ delayed \in Seq(Messages)
      /\ holding["delay"] \in Nat
  BY DEF TaskInv, QueueTypes, Queues
<1>3. list["delay"] \in Seq(Nat) /\ delayed \in Seq(Nat)
  BY <1>1, <1>2, SeqGrows
<1>4. Held("delay") \in Seq(Nat)
  BY <1>2 DEF Held
<1>5. Rest("delay") = list["delay"] \o delayed
  BY DEF Rest
<1> DEFINE h == Held("delay")
           l == list["delay"]
<1> HIDE DEF h, l
<1>6. h \o l \o delayed = h \o (l \o delayed)
  <2>1. h \in Seq(Nat) /\ l \in Seq(Nat)
    BY <1>3, <1>4 DEF h, l
  <2> QED
    BY <1>3, <2>1
<1> QED
  BY <1>5, <1>6 DEF h, l

\* Every step of the program is a step of the promise, or none, for both queues.
LEMMA PromiseStep == TaskInv /\ [Next]_vars => [Mq!Next]_Mq!vars /\ [Delay!Next]_Delay!vars
<1> SUFFICES ASSUME TaskInv, [Next]_vars
             PROVE  [Mq!Next]_Mq!vars /\ [Delay!Next]_Delay!vars
  OBVIOUS
<1>1. Acts("mq") /\ Acts("delay")
  BY QueueActs DEF Queues
<1>2. /\ Rest("mq") \in Seq(Nat) /\ holding["mq"] \in Nat /\ stored["mq"] \in Nat
      /\ Rest("delay") \in Seq(Nat) /\ holding["delay"] \in Nat /\ stored["delay"] \in Nat
  BY RestTypes DEF Queues
<1>3. [Mq!Next]_Mq!vars
  <2>1. Held("mq") \o list["mq"] = Held("mq") \o Rest("mq")
    BY DEF Rest
  <2>2. (Held("mq") \o list["mq"])' = (Held("mq") \o Rest("mq"))'
    BY DEF Rest
  <2> QED
    BY <1>1, <1>2, <2>1, <2>2, PromiseActs
       DEF Mq!Next, Mq!vars, Mq!Store, Mq!Deliver, Mq!Lose, Mq!Fail
<1>4. [Delay!Next]_Delay!vars
  <2>1. Held("delay") \o list["delay"] \o delayed = Held("delay") \o Rest("delay")
    BY DelayPending
  <2>2. TaskInv'
    BY TaskStep
  <2>3. (Held("delay") \o list["delay"] \o delayed)' = (Held("delay") \o Rest("delay"))'
    <3>1. (TaskInv => Held("delay") \o list["delay"] \o delayed = Held("delay") \o Rest("delay"))'
      BY DelayPending, PTL
    <3> QED
      BY <2>2, <3>1
  <2> QED
    BY <1>1, <1>2, <2>1, <2>3, PromiseActs
       DEF Delay!Next, Delay!vars, Delay!Store, Delay!Deliver, Delay!Lose, Delay!Fail
<1> QED
  BY <1>3, <1>4

\* Both queues are first in first out and deliver at most once, whatever crashes or
\* fails: their histories are those of QueuePromise (RedismqController.java, TakeTask.java).
THEOREM QueuesImplement == Spec => QueuesKeepPromise
<1>1. Init => TaskInv
  BY TaskInit
<1>2. TaskInv /\ [Next]_vars => TaskInv'
  BY TaskStep
<1>3. Init => Mq!Init /\ Delay!Init
  BY DEF Init, Mq!Init, Delay!Init, Held, Queues
<1>4. TaskInv /\ [Next]_vars => [Mq!Next]_Mq!vars /\ [Delay!Next]_Delay!vars
  BY PromiseStep
<1> QED
  BY <1>1, <1>2, <1>3, <1>4, PTL
     DEF Spec, QueuesKeepPromise, MqKeepsPromise, DelayKeepsPromise, Mq!Spec, Delay!Spec
================================================================================
