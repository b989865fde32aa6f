--------------------------- MODULE BackgroundTasks ---------------------------
(***************************************************************************)
(* The four tasks the application starts in the background and never ends: *)
(*   thrift   ThriftServer.start, from ThriftServerStartListener           *)
(*   take     TakeTask.initTake, the consumer of the delayed queue (prod)  *)
(*   redismq  RedismqController.initMq, the consumer of the list "mq"      *)
(*   proxy    ThriftServerProxy.start, from ThriftServerProxyListener      *)
(* All go through CompletableFuture.runAsync and so share the JVM's common *)
(* pool.  The module has the start of the application, the pool, both      *)
(* Redis queues with their producers, the crash and restart of the JVM and *)
(* failing Redis commands.  Redis itself keeps its data.                   *)
(***************************************************************************)
EXTENDS Naturals, Sequences, FiniteSets

CONSTANTS
  Parallelisms, \* values of the common pool's parallelism to look at
  MaxMessages,  \* bound: messages stored in each queue
  MaxFaults     \* bound: crashes, failing commands and ports taken by others

ASSUME PoolAssumption == Parallelisms \subseteq Nat \ {0}
ASSUME BoundAssumption == MaxMessages \in Nat /\ MaxFaults \in Nat

Tasks == {"thrift", "take", "redismq", "proxy"}
Queues == {"mq", "delay"}
Threads == {"main", "tomcat"}  \* the threads that submit tasks

VARIABLES
  parallelism, \* of the common pool, fixed at start
  prod,        \* is the profile prod active?
  jvm,         \* "down", "starting", "up"
  submitted,   \* the pool's submission queues, one per submitting thread
  pc,          \* where each task is
  list,        \* the messages in Redis, oldest first, of each queue
  delayed,     \* messages whose five seconds are not over, oldest first
  inflight,    \* how many calls of offerAsync Redis has not answered
  stored,      \* how many messages reached each queue
  blank,       \* messages pushed to mq as the empty string
  holding,     \* the message a consumer has removed from Redis, or 0
  delivered,   \* the messages processed, in order
  lost,        \* history: the messages a fault has lost
  faults       \* how many faults have happened

config == <<parallelism, prod>>
data == <<list, delayed, inflight, stored, blank, holding, delivered, lost>>
vars == <<config, jvm, submitted, pc, data, faults>>

Messages == 1 .. MaxMessages

\* @Profile("prod") on TakeTask, RedisQueueConfig and RedisController.
Enabled == IF prod THEN Tasks ELSE Tasks \ {"take"}

Consumer(q) == IF q = "mq" THEN "redismq" ELSE "take"

Running == {t \in Tasks : pc[t] \notin {"off", "queued", "ended"}}

\* Variant: the common pool even when its parallelism is one.
CapacityShared == parallelism

\* runAsync: with a parallelism of one each task gets a thread of its own.
Capacity == IF parallelism = 1 THEN Cardinality(Tasks) ELSE parallelism

TypeOK ==
  /\ parallelism \in Parallelisms /\ prod \in BOOLEAN
  /\ jvm \in {"down", "starting", "up"}
  /\ submitted \in [Threads -> Seq(Tasks)]
  /\ pc \in [Tasks -> {"off", "queued", "ask", "work", "sleep", "bind", "serve", "ended"}]
  /\ list \in [Queues -> Seq(Messages)]
  /\ delayed \in Seq(Messages)
  /\ inflight \in 0 .. MaxMessages
  /\ stored \in [Queues -> 0 .. MaxMessages]
  /\ blank \subseteq Messages
  /\ holding \in [Queues -> 0 .. MaxMessages]
  /\ delivered \in [Queues -> Seq(Messages)]
  /\ lost \in [Queues -> SUBSET Messages]
  /\ faults \in 0 .. MaxFaults
  /\ \A q \in Queues : holding[q] # 0 <=> pc[Consumer(q)] = "work"
  /\ Cardinality(Running) <= Capacity

Init ==
  /\ parallelism \in Parallelisms /\ prod \in BOOLEAN
  /\ jvm = "starting"
  /\ submitted = [h \in Threads |-> <<>>]
  /\ pc = [t \in Tasks |-> "off"]
  /\ list = [q \in Queues |-> <<>>]
  /\ delayed = <<>> /\ inflight = 0
  /\ stored = [q \in Queues |-> 0]
  /\ blank = {}
  /\ holding = [q \in Queues |-> 0]
  /\ delivered = [q \in Queues |-> <<>>]
  /\ lost = [q \in Queues |-> {}]
  /\ faults = 0

\* Something outside the program goes wrong.
Fault == faults < MaxFaults /\ faults' = faults + 1

Go(t, where) == pc' = [pc EXCEPT ![t] = where]

-----------------------------------------------------------------------------
(* The start of the application and the pool.                              *)

\* The servlet listener runs before the beans are made, the event of the
\* refreshed context comes after them.
Before(t) ==
  CASE t = "thrift" -> {}
    [] t = "proxy"  -> Enabled \ {"proxy"}
    [] OTHER        -> {"thrift"}

Submitter(t) == IF t = "thrift" THEN "tomcat" ELSE "main"

\* ThreadUtil.execute of one task; requests are served once the context is up.
Submit(t) ==
  /\ jvm = "starting" /\ t \in Enabled /\ pc[t] = "off"
  /\ \A u \in Before(t) : pc[u] # "off"
  /\ submitted' = [submitted EXCEPT ![Submitter(t)] = Append(@, t)]
  /\ Go(t, "queued")
  /\ jvm' = IF t = "proxy" THEN "up" ELSE jvm
  /\ UNCHANGED <<config, data, faults>>

\* A free worker takes the oldest task of a submission queue.
Start(h) ==
  /\ submitted[h] # <<>>
  /\ Cardinality(Running) < Capacity
  /\ submitted' = [submitted EXCEPT ![h] = Tail(@)]
  /\ LET t == Head(submitted[h])
     IN  Go(t, IF t \in {"take", "redismq"} THEN "ask" ELSE "bind")
  /\ UNCHANGED <<config, jvm, data, faults>>

\* The two Thrift servers: the port is bound and served for good, or it is
\* taken by another process and the task ends.
Bind(t) ==
  /\ pc[t] = "bind"
  /\ \/ Go(t, "serve") /\ UNCHANGED faults
     \/ Go(t, "ended") /\ Fault
  /\ UNCHANGED <<config, jvm, submitted, data>>

-----------------------------------------------------------------------------
(* The list "mq".                                                          *)

\* /push; leftPush adds at the end that rightPop takes last.
Push ==
  /\ jvm = "up" /\ stored["mq"] < MaxMessages
  /\ stored' = [stored EXCEPT !["mq"] = @ + 1]
  /\ list' = [list EXCEPT !["mq"] = Append(@, stored'["mq"])]
  /\ blank' \in {blank, blank \cup {stored'["mq"]}}
  /\ UNCHANGED <<config, jvm, submitted, pc, delayed, inflight, holding,
                 delivered, lost, faults>>

\* The message leaves Redis and is in the memory of the task.
Remove(q) ==
  /\ list[q] # <<>>
  /\ list' = [list EXCEPT ![q] = Tail(@)]
  /\ holding' = [holding EXCEPT ![q] = Head(list[q])]
  /\ Go(Consumer(q), "work")

\* Variant: leftPop.
PopNewest ==
  /\ pc["redismq"] = "ask"
  /\ \/ /\ list["mq"] # <<>>
        /\ list' = [list EXCEPT !["mq"] = SubSeq(@, 1, Len(@) - 1)]
        /\ holding' = [holding EXCEPT !["mq"] = list["mq"][Len(list["mq"])]]
        /\ Go("redismq", "work")
     \/ /\ list["mq"] = <<>>
        /\ Go("redismq", "sleep")
        /\ UNCHANGED <<list, holding>>
  /\ UNCHANGED <<config, jvm, submitted, delayed, inflight, stored, blank,
                 delivered, lost, faults>>

\* rightPop answers null at once when the list is empty; consumer(null) then
\* sleeps for a minute.
Pop ==
  /\ pc["redismq"] = "ask"
  /\ \/ Remove("mq")
     \/ /\ list["mq"] = <<>>
        /\ Go("redismq", "sleep")
        /\ UNCHANGED <<list, holding>>
  /\ UNCHANGED <<config, jvm, submitted, delayed, inflight, stored, blank,
                 delivered, lost, faults>>

Process(q) ==
  /\ delivered' = [delivered EXCEPT ![q] = Append(@, holding[q])]
  /\ holding' = [holding EXCEPT ![q] = 0]

\* Variant: the message is kept while the consumer sleeps.
ConsumeKeeps ==
  /\ pc["redismq"] = "work"
  /\ delivered' = [delivered EXCEPT !["mq"] = Append(@, holding["mq"])]
  /\ Go("redismq", IF holding["mq"] \in blank THEN "sleep" ELSE "ask")
  /\ UNCHANGED <<config, jvm, submitted, list, delayed, inflight, stored, blank,
                 holding, lost, faults>>

\* Variant: an empty message is taken for no message.
ConsumeSkips ==
  /\ pc["redismq"] = "work"
  /\ IF holding["mq"] \in blank
       THEN /\ Go("redismq", "sleep")
            /\ holding' = [holding EXCEPT !["mq"] = 0] /\ UNCHANGED delivered
       ELSE Process("mq") /\ Go("redismq", "ask")
  /\ UNCHANGED <<config, jvm, submitted, list, delayed, inflight, stored, blank,
                 lost, faults>>

\* consumer(obj): an empty message also looks empty and costs a minute.
Consume ==
  /\ pc["redismq"] = "work"
  /\ Process("mq")
  /\ Go("redismq", IF holding["mq"] \in blank THEN "sleep" ELSE "ask")
  /\ UNCHANGED <<config, jvm, submitted, list, delayed, inflight, stored, blank,
                 lost, faults>>

Wake ==
  /\ pc["redismq"] = "sleep"
  /\ Go("redismq", "ask")
  /\ UNCHANGED <<config, jvm, submitted, data, faults>>

-----------------------------------------------------------------------------
(* The delayed queue.                                                      *)

\* /offerAsync answers success before Redis has the message.
Offer ==
  /\ jvm = "up" /\ prod
  /\ stored["delay"] + inflight < MaxMessages
  /\ inflight' = inflight + 1
  /\ UNCHANGED <<config, jvm, submitted, pc, list, delayed, stored, blank,
                 holding, delivered, lost, faults>>

Arrive ==
  /\ inflight > 0
  /\ inflight' = inflight - 1
  /\ stored' = [stored EXCEPT !["delay"] = @ + 1]
  /\ delayed' = Append(delayed, stored'["delay"])
  /\ UNCHANGED <<config, jvm, submitted, pc, list, blank, holding, delivered, lost,
                 faults>>

\* After five seconds the Redisson client of a live JVM moves the message.
Transfer ==
  /\ prod /\ jvm # "down" /\ delayed # <<>>
  /\ list' = [list EXCEPT !["delay"] = Append(@, Head(delayed))]
  /\ delayed' = Tail(delayed)
  /\ UNCHANGED <<config, jvm, submitted, pc, inflight, stored, blank, holding,
                 delivered, lost, faults>>

\* take() waits until there is a message.
Take ==
  /\ pc["take"] = "ask" /\ Remove("delay")
  /\ UNCHANGED <<config, jvm, submitted, delayed, inflight, stored, blank,
                 delivered, lost, faults>>

Work ==
  /\ pc["take"] = "work"
  /\ Process("delay")
  /\ Go("take", "ask")
  /\ UNCHANGED <<config, jvm, submitted, list, delayed, inflight, stored, blank,
                 lost, faults>>

-----------------------------------------------------------------------------
(* Faults.                                                                 *)

\* Redis has removed the message, its answer does not arrive.
LoseAnswer(q) ==
  /\ list[q] # <<>>
  /\ list' = [list EXCEPT ![q] = Tail(@)]
  /\ lost' = [lost EXCEPT ![q] = @ \cup {Head(list[q])}]

\* The command of a consumer fails: the exception leaves the loop, which neither
\* of the two catches, or after a lost answer the client repeats the command.
AskFails(q) ==
  /\ Fault /\ pc[Consumer(q)] = "ask"
  /\ \/ Go(Consumer(q), "ended") /\ UNCHANGED <<list, lost>>
     \/ LoseAnswer(q) /\ (Go(Consumer(q), "ended") \/ UNCHANGED pc)
  /\ UNCHANGED <<config, jvm, submitted, delayed, inflight, stored, blank,
                 holding, delivered>>

\* Nobody looks at the future of offerAsync.
OfferFails ==
  /\ Fault /\ inflight > 0
  /\ inflight' = inflight - 1
  /\ UNCHANGED <<config, jvm, submitted, pc, list, delayed, stored, blank,
                 holding, delivered, lost>>

\* Everything in memory is gone.
Crash ==
  /\ Fault /\ jvm # "down"
  /\ jvm' = "down"
  /\ submitted' = [h \in Threads |-> <<>>]
  /\ pc' = [t \in Tasks |-> "off"]
  /\ inflight' = 0
  /\ holding' = [q \in Queues |-> 0]
  /\ lost' = [q \in Queues |-> lost[q] \cup ({holding[q]} \ {0})]
  /\ UNCHANGED <<config, list, delayed, stored, blank, delivered>>

Restart ==
  /\ jvm = "down" /\ jvm' = "starting"
  /\ UNCHANGED <<config, submitted, pc, data, faults>>

-----------------------------------------------------------------------------
ThriftServer == Bind("thrift")
ThriftServerProxy == Bind("proxy")
Redismq == Pop \/ Consume \/ Wake
TakeTask == Take \/ Work

Next ==
  \/ \E t \in Tasks : Submit(t)
  \/ ThriftServer \/ ThriftServerProxy
  \/ \E h \in Threads : Start(h)
  \/ Push \/ Redismq
  \/ Offer \/ Arrive \/ Transfer \/ TakeTask
  \/ \E q \in Queues : AskFails(q)
  \/ OfferFails \/ Crash \/ Restart

Spec == Init /\ [][Next]_vars

\* Every thread that can run does; Redis answers; nobody has to send requests
\* and nobody has to restart a JVM that went down.
Fairness ==
  /\ \A t \in Tasks : WF_vars(Submit(t))
  /\ WF_vars(ThriftServer) /\ WF_vars(ThriftServerProxy)
  /\ \A h \in Threads : WF_vars(Start(h))
  /\ WF_vars(Redismq) /\ WF_vars(TakeTask)
  /\ WF_vars(Arrive) /\ WF_vars(Transfer)

FairSpec == Spec /\ Fairness

-----------------------------------------------------------------------------
(* Properties.                                                             *)

\* The messages of a queue that are neither processed nor lost.
Held(q) == IF holding[q] = 0 THEN <<>> ELSE <<holding[q]>>

Mq == INSTANCE QueuePromise WITH
  stored <- stored["mq"], delivered <- delivered["mq"], lost <- lost["mq"],
  pending <- Held("mq") \o list["mq"]

Delay == INSTANCE QueuePromise WITH
  stored <- stored["delay"], delivered <- delivered["delay"], lost <- lost["delay"],
  pending <- Held("delay") \o list["delay"] \o delayed

\* push and the loop of initMq are a queue: first in, first out, each message
\* processed at most once, across crashes, restarts and failing commands, of
\* which each loses one message at most and nothing else loses any.
MqKeepsPromise == Mq!Spec

\* offerAsync, the transfer and the loop of initTake are such a queue too.
DelayKeepsPromise == Delay!Spec

\* Both of them, as one run checks them.
QueuesKeepPromise == MqKeepsPromise /\ DelayKeepsPromise

\* The pool has a worker for every task: none of them ever ends by itself.
Roomy == parallelism = 1 \/ parallelism >= Cardinality(Enabled)

\* With so many workers every submitted task is started; with fewer the tasks
\* that come last wait for good behind tasks that never end.
AllStart == Roomy => \A t \in Tasks : pc[t] = "queued" ~> pc[t] # "queued"

Pending(q) == {(Held(q) \o list[q])[i] : i \in DOMAIN (Held(q) \o list[q])}
                \cup IF q = "mq" THEN {} ELSE {delayed[i] : i \in DOMAIN delayed}

Processed(q) == {delivered[q][i] : i \in DOMAIN delivered[q]}

\* A message that has reached Redis is processed in the end or was lost by a
\* fault, also after crashes ("机器重启后，会正常消费队列中积累的任务",
\* RedisQueueConfig.java:12), unless the JVM stays down or a fault has ended the
\* loop of its consumer for good.
Drains ==
  Roomy => \A q \in Queues, m \in Messages :
    \/ m \in Pending(q) ~> m \in Processed(q) \cup lost[q]
    \/ <>[](jvm = "down")
    \/ <>[](faults > 0 /\ pc[Consumer(q)] = "ended")
=============================================================================
