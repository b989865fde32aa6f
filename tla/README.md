# Verification project for helloboot

helloboot is a Spring Boot application that collects integrations: a
multi-thread transaction utility, RabbitMQ clients, a ring buffer, WebSockets,
Redis queues and locks, Elasticsearch, Thrift, SOAP, rate limiting, a few pages
and many helpers. It has little central state; what can go wrong sits in a
dozen components, most of them concurrent. This directory models those in TLA+,
checks them with TLC on small instances and proves the most important results
with TLAPS for every instance.

Java paths below are relative to `src/src/main/java/com/hugmount/helloboot/`,
script paths to `src/src/main/resources/static/js/`.

## 1. The system and its components

### Modelled

| Component | State | Operations | What is hard |
|---|---|---|---|
| Transaction coordinator, `util/TransactionManagerUtil.java`, on the executor of `util/ThreadUtil.java`, used by `TestServiceImpl` and `TestTransactionController` | two latches, a shared flag `submit`, a transaction per task, the executor's queue, database connections | `execute`: submit, run, count down, wait, decide, commit or roll back | timeouts whose result is ignored, a flag changed while others read it, too few connections, a rejected submission, threads that die |
| RabbitMQ pool, `util/mq/MQConnectionPool.java`, `util/mq/RabbitmqHeadler.java` | queue of connections, queue of channels, two monitors, use counters | get and release a channel, get and remove a connection, `sendMsg` | waiting inside a monitor, resources not returned when a call fails |
| RabbitMQ client, `util/RabbitmqUtil.java` | the static connection; at the broker: queue, deliveries, dead letters | `createConnection`, `sendMsg`, `receive` with `handleDelivery` | order of declarations, redelivery after a break, requeue for ever, expiry |
| Ring buffer programs, `disruptor/` | cursor, slots, sequences of the handlers | `Producer.onData`, the wirings of `DisruptorTest` to `DisruptorTest4`, `shutdown` | a full ring that wraps, chained consumers, workers racing for a message |
| WebSocket sessions, `config/WebSocketConfig.java`, `websocket/` | an unsynchronized static `HashSet` of sessions, user names in HTTP and WebSocket sessions | login, handshake, open, close, `sendMsgToUser` | iteration while the set changes, two changes at a time, one bad session ending the walk |
| Background tasks and Redis queues, `util/ThreadUtil.java`, `redis/TakeTask.java`, `config/RedisQueueConfig.java`, `test/controller/RedismqController.java`, `RedisController.offerAsync`, `thrift/config/`, `thrift/server/impl/ThriftServer.java` | the common pool and its submission queues, the list `mq`, the delayed queue, what a consumer holds in memory | start of the four endless tasks, push, offer, transfer, take, process, crash, restart | tasks that never end on a pool with fewer workers, a message removed before it is processed, a loop ended by an exception |
| Redis locks, `test/controller/RedisController.java` | a lock with a lease, a read-write lock, a counter, a bucket | `testRedis`, `read`, `write`, `getIncr` | leases that end during the work, unlocking what is not held, failing commands, dying JVMs |
| Lazily created objects, `RabbitmqHeadler.init`, `RabbitmqUtil.createConnection`, `ThriftClient.init`, `CxfClientProxyFactory.createObject` | a static field and the objects made for it | null check, creation, assignment, completion, use | first calls that race, fields assigned before the object is complete |
| Rate limiting, `annotation/RateLimit*.java` | map of limiters, each with its saved permits | get or create the limiter, acquire a permit or be refused | first calls that race for one key |
| Elasticsearch paging, `es/EsController.java`, `es/service/EsStatServiceImpl.java` | the position behind the last hit, the pages still to be read | count, read a page, follow the last hit | the index changes meanwhile, sort values that are not unique |
| Tree building, `util/tree/TreeUtil.java` | node objects, lists of children | `listToTree`, `toTree`, `treeToList` | ids that repeat, parents that are missing, cycles, objects mutated in place |
| Page scripts, `jqpage/page.js`, `common.js` | one global settings object, closures of click handlers; one dialog element, its text and buttons | `initPage`, click, `dialog(msg, fn)`, confirm, cancel | settings shared by all pagers, an old list length in a closure, a question asked while another is open or being answered |
| jQuery UI dialog, the parts of `jquery-ui-1.12.1/jquery-ui.js` that `common.js` drives | open flag, overlay count, focus trap, mouse gesture, place | open, close, drag, place in the window, keep the focus | releases of the mouse that are missed, windows resized between two questions, questions during a drag |

The components meet at libraries and in `ThreadUtil`: the coordinator makes a
pool per call, all background tasks share the JVM's common pool, which is why
they are one model. `RabbitmqHeadler` creates the pool of `MQConnectionPool`;
that creation is in `LazyObjects`, its use in `MQConnectionPool`. The dialog of
`common.js` extends the widget below it. No other state is shared.

What makes each component correct: a batch commits together or the caller is
told; a channel is with one client; a message is in one place and leaves only
when it was handled; a handler gets every message in its order; a send reaches
the user's sessions; a queue is first in first out and delivers at most once; a
lock excludes and is never left taken; a shared object is made once and complete
when it is used; the limit holds; every document is read once; a tree holds
what its list held; a page shows what belongs to its list, and an answer goes to
the question on the screen. Section 3 says how far each is true.

### Not modelled

* **The rest of `jquery-ui.js`** (18,706 lines, of which some 700 are behind
  the dialog of `common.js`): accordion, datepicker, slider, effects and so on.
  It is an unchanged release of a library, and no page of this application uses
  those widgets; a model of them would say nothing about this program.
* **Parts of modelled components** that keep no state: the aggregations and
  query conditions of `es/`, the endpoint `rateLimiter` (one call of Redisson's
  limiter), the look-up of a method by name in `RateLimitAop`, the echo of
  `handleTextMessage`. `ThriftServerProxyListener` throws when a bean has the
  annotation and no Thrift interface; no bean of the repository is such a one.
  A second `ContextRefreshedEvent` would start its tasks again; the
  application has no child context that could send one.
* **Dynamic table names** (`config/MybatisPlusConfig`, `TableNameHelper`):
  nothing calls `setTableName`, so the thread-local is always null.
* **`util/RedisUtil`** (Jedis): used by nothing but its own `main`. A command
  that throws does not give its connection back.
* **`util/SqlSessionFactoryUtil`**: one `try` block around MyBatis' session. When
  `openSession` fails, the `catch` block's own NullPointerException hides why.
* **Pure functions and formats**: `annotation/FixedValueValidator` (its `isValid`
  compares with one member of the set of values only; the one use of the
  annotation has one value), `DesensitizeUtil`, `StrUtil`, ciphers, signatures,
  HTTP, file and document helpers, the local cache (four calls of Guava's).
* **Stateless dispatch and configuration** (`tactful/`, `unify/`, `core/`,
  `config/`), the **demonstrations** with Flink, MongoDB, Kafka, XXL-JOB and
  Dubbo and those of the test tree, the services behind Thrift and SOAP, which
  return their argument, and the generated Thrift code.

`PROJECT.json` lists all of them with their sources, and the hazards found in
the code at their lines with the properties that guard them.

## 2. Modules

| Module | Role |
|---|---|
| `CommitPromise` | what `execute` promises about a batch, without threads or latches |
| `TxnCoordinator` | one call of `execute` with its pool; refines `CommitPromise` |
| `MQConnectionPool` | the pool and the clients around it |
| `RabbitmqUtil` | sender, consumer and the broker as they use it |
| `DisruptorRing`, `MCDisruptor` | producer and handlers on the ring, with the wiring chosen at the start; the wirings of the four programs |
| `WebSocketSessions`, `MCWebSocket` | sessions and senders; symmetry of sessions |
| `QueuePromise` | what a queue with one consumer promises |
| `BackgroundTasks` | the four background tasks, the pool, both Redis queues; each queue refines `QueuePromise` |
| `RedisLock`, `LazyObjects`, `RateLimiting` | the locks, the first calls, the limit; composed in `MCRequests`, where `Init` chooses the scene |
| `Pager`, `EsPaging`, `TreeBuild` | the pager, paging by `search_after`, trees; composed in `MCPages` with the dialog |
| `DialogWidget`, `ConfirmDialog` | the widget as `common.js` drives it; `dialog(msg, fn)` on top of it |
| `TxnCoordinatorProofs`, `MQConnectionPoolProofs`, `RabbitmqUtilProofs`, `DisruptorRingProofs`, `WebSocketSessionsProofs`, `BackgroundTasksProofs` | the theorems about the module of the same name |
| `RequestsProofs`, `PagesProofs` | the theorems about `MCRequests` and `MCPages`, and so about the modules these compose |

A definition whose comment begins with "Variant" is not part of a model: it is a
plausible mistake in the code next to it, kept to show that the properties
notice it (`PROJECT.json`, "mutants").

### How the models correspond to the code

**TxnCoordinator.** One action per point where another thread can look:
`Submit` is one turn of `forEach` (with the executor's three answers: new
thread, queue, rejection), `Check`/`Skip` lines 53-56, `Begin` 57-68,
`Handle` 69-75, `CountDown` 76-77, `Wait` 78-80, `Decide` 81, `Commit` and
`RollBack` 82-89; the caller has `Await`, `GetCount`, `Abort`, `Release` and
`Answer`, lines 93-108. The business code is its outcome: normal, Exception,
Error. Reading the flag and acting on it are two steps. An await with a timeout
is a step that may be taken without its condition when "timeout" is among the
faults. The data source is external: a number of connections and an
acquisition that may fail.

**MQConnectionPool.** Each synchronized method is one action, except
`getChannelStream`, which creates a channel inside the monitor and may sleep
there: `GetStream` enters, `PollConnection`, `Wake` and `OpenChannel` go on as
the owner. A connection is never put back, so it carries at most one channel
and both have one number. The sleep calls the method again without bound; in the
code the recursion would end in a StackOverflowError after some hours of waiting,
which the model leaves out. A client that calls the pool's methods itself is
assumed to give back what it got once, and not to use it afterwards.

**RabbitmqUtil.** `Declare`, `Publish` and `Close` are the three points of
`sendMsg` at which it can fail differently; `BindConsumer` and `StartConsumer`
those of `receive`; `Consume`, `Acknowledge` and `Requeue` are
`handleDelivery`. `Expire`, `Push`, `Break` and `StaleEnd` are the broker and
the client library: they stand for what AMQP promises, from the way the code
relies on it. The messages of one queue are modelled; routing is left out.

**DisruptorRing.** `NextSlot`, `WriteSlot` and `Publish` are `onData`. An event
handler works in batches up to what is available to it and then shows its
sequence; a worker shows how far it came, then takes the next message by
compare-and-set. `Gate` is the sequence the producer and `shutdown` wait for.
The sequencer and the processors are the LMAX library's. `Run` is the start of a
handler's thread, which may come after `shutdown` is called: the `sleep` of
`DisruptorTest.java:90` makes that unlikely and rules out nothing. `shutdown` looks
at the last handlers one after the other (`Look`), counts an event handler only
when its thread runs and a worker always, begins again when one is behind, and then
halts all (`Halt`). A halted event handler ends when it next waits (`Stop`) and may
take one more batch before; a halted worker stops where it is.

**WebSocketSessions.** A change of the set has a beginning and an end; of changes
that overlap each may lose the element, the count of changes and the update of the
size, as in an unsynchronized `HashMap`. The iterator has a first element only if
the size is above zero, compares the count before each element and not after the
last. A thread reads what the others have written so far; stale reads, which Java's
memory model allows on top of that, are left out. `Visit` is the body of the loop up
to `sendMessage`, with the NullPointerException of a session without a user name;
`Send` is `sendMessage` with its exception. A resize of the table during a walk is
left out: it needs more than twelve sessions.

**BackgroundTasks.** `Submit` is `ThreadUtil.execute` for one task, in the order
the container starts things (`Before`): the servlet listener, the beans, the
event of the refreshed context. `Start` is a worker of the common pool, which
never has more than `Capacity` tasks running; with a parallelism of one
`runAsync` makes a thread per task. `Bind` ends a Thrift server only when its
port is taken. `Push`, `Pop`, `Consume` and `Wake` are the list `mq`, with the
minute of sleep after an empty answer or an empty message; `Offer` and `Arrive`
are `offerAsync` before and after Redis has the message, `Transfer` the five
seconds of the delayed queue, `Take` and `Work` the loop of `TakeTask`. `AskFails`
is a command whose exception leaves the loop, or whose answer is lost after
Redis removed the message (`LoseAnswer`). `lost` is a history of the messages that
a fault took. `Crash` empties the memory and keeps Redis. Messages
are numbered in the order in which Redis stored them.

**RedisLock.** `Begin` to `Unlock` are the steps of one request; `Lock` waits
until Redis grants. A lock taken with a lease lapses by `Lapse`; one without is
renewed by its client until `RenewalFails`. `CommandFails` is any command of the
`try` block, carried out by Redis or not; the `finally` block follows in every
case, and `Unlock` throws in a request that does not hold its lock.

**LazyObjects.** One program with four sites: `Call` is the null check, then
`CreatePool`, `Connect` or `CreateAssigned`, `Assign`, `Open`, `Configure`,
`Login`, and `Hand` is the use of what the field holds then. The interleavings
are those of the statements; the reordering of writes that Java's memory model
allows for fields that are not volatile is not modelled.

**RateLimiting.** `Get`, `Create`, `Put` and `Acquire` are the get, the
creation, the put and `tryAcquire`; one tick of the clock is the time of one
permit, and a limiter is its two numbers (next free ticket, saved permits).

**EsPaging.** `Begin` is the count, `ReadPage`, `LastPage` the loop of
`searchEsPage`; `FollowPage` is `searchPageBuilder` with `dealResponse` and a
caller that passes the sort value on. `Hits` is what Elasticsearch answers: the
first matches in the order of the sort key, equal keys in any order. `Index` and
`Delete` are other clients.

**TreeBuild.** The recursion is an explicit stack of loops: `Sift` looks at one
node of the list after the other for the roots, `Split` takes them out of the
list, `Root` calls for one of them, `Visit` is one turn of a
loop, `Return` its end; `TakeApart` is a call of `treeToList`. After the trees
are taken apart the resulting list goes through both functions once more.

**Pager.** `InitPage` and `Click` are one event of the browser each. A drawing
is the number of pages, the current one and the window of numbers; `Clickable`
are the items that get a handler. The function of a page may call `initPage`
again, with a new list length, before the handler goes on with the old one.

**DialogWidget, ConfirmDialog.** One action per event of the browser: keys, mouse
buttons, moves, timers, a resized window. Places are one-dimensional. `Press`,
`Move`, `Release` are `ui.mouse` with `ui.draggable`; `Open`, `Close`,
`CreateOverlay`, `DestroyOverlay`, `Opened`, `FocusPage` are `ui.dialog`; `Position`
is the first placing, or the one after a drag. A drag starts with the first move:
the grab and the containment are those of that moment (`Follow`), where a hidden
dialog is at 0. A move without the button ends the gesture unless a modifier key is
held. `Ask`, `Confirm` and `Cancel` are `dialog(msg, fn)` and its buttons. `Ask` may
come at any time: `common.js` does not look whether the dialog is open, and then the
new question replaces the old one and the dialog is placed again, even under a drag
(`Replace`). A confirmed function may return, throw, ask a question itself, or ask
one and then throw.

## 3. What the runs check

| Run | Instance | Question and answer |
|---|---|---|
| `txn_safety` | 4 tasks, 2 threads, queue of 1, 3 connections, one kept by the caller, all faults | `true` means every task ended normally and none rolls back (`TrueMeansAllHandled`); tasks part ways only through a timed-out wait (`MixedOnlyByTimeout`); the flag is final once `mainTask` is open (`VerdictStable`); `execute` implements `CommitPromise` (`KeepsPromise`). It returns whatever the pool does (`CallerReturns`); if the pool's threads run, every opened transaction is ended, also after a rejected submission (`ConnectionsReturn`), and after `true` every task commits or its commit fails (`TrueIsKept`) |
| `txn_partial` (violation) | 2 tasks, timeouts | the documented joint commit does not hold: see findings |
| `pool_safety` | 2 senders, 2 users, 2 connections, 2 calls each, all faults | a channel is in one place; a waiting client is never served and freezes the pool; nothing but such a wait keeps a call from ending |
| `pool_starve` (violation) | 2 senders, 1 connection, publish may fail | the wait for a connection does not end |
| `rabbit_safety` | 4 messages: one poisonous, two that expire, one of those dead-lettered; all faults | a message is in one place (`NeverLostOrDoubled`); acknowledged means processed and dead-lettered means expired (`AckedWasProcessed`); the good ones leave the queue once the connection is stable (`GoodIsConsumed`) |
| `rabbit_dlx` (violation) | 2 dead-letter messages | a subscriber cannot start on an existing queue |
| `ring_programs` | the four programs; ring of 4, 3 and 7 messages, threads that start at any time | order, chain, each message to exactly one worker of the pool (`EachInOrder`), completeness of the last handlers that had started when `shutdown` was called, and of all if all of those had (`NothingLeft`), termination (`ProgramEnds`) |
| `ws_set` | 3 sessions, 1 request | a walk that ended was complete, or empty from its start after overlapping changes (`CompleteWhenDone`); the set follows the sessions (`SetFollowsSessions`) |
| `ws_success` (violation) | 2 sessions, `sendMessage` never fails | "success" although the user's session got nothing and no two changes overlapped |
| `background` | parallelism 1 and 3, with and without the profile `prod`, 2 messages in each queue, 2 faults | both queues implement `QueuePromise` across crashes and failing commands, with one lost message for a fault at most (`QueuesKeepPromise`); every submitted task starts if the pool is large enough (`AllStart`), and then every message in Redis is processed or was lost by a fault, or a fault ended the loop or the JVM (`Drains`) |
| `requests` | 3 requests and 1 fault on the locks; 3 callers with 2 calls each; 2 threads with 4 calls, 3 ticks | two calls of `testRedis` that both answer success did not work at the same time, writers are alone unless a lease lapsed, ids are unique (`LocksExclude`); every request ends and no lock stays taken (`EveryoneServed`); only calls that overlap the first successful one create objects, the field holds a complete object when nobody is in the call, and only `thrift` and `cxf` give out incomplete ones (`CreatedWhole`); the limit is exceeded at most by the factor of the first overlapping calls (`RateHolds`) |
| `pages` | 2 pagers; 3 questions, 2 window widths, 2 mouse places; 4 documents, 2 start times, pages of 2; every list of 3 nodes with any ids and parents | the numbers and links of a pager exist (`PagerShowsList`); the buttons belong to the question on the screen, which is the last one asked and goes unanswered only when a later one takes its place, the focus stays inside and one drag is followed (`DialogAgrees`); each question is shown inside the window or where the dialog was dragged to (`DialogInPlace`); no document is read twice, and one is missed only for the reasons named (`PagingExplained`); the trees hold what a root reaches, siblings differ, the recursion ends (`TreesRight`) |

**Why these bounds.** Four tasks with two threads and a queue of one give tasks
that run, one that must be queued, one that is rejected when it comes early and
runs when it comes late; with the caller's own connection two are left, so tasks
also wait for one. Two connections with four clients let two clients own
everything and the others wait. Four messages hold one of each kind and put a
good one before and behind the poisonous one. A ring of four slots with seven
messages is full, wraps, and overwrites all but one slot; three messages fit without
any handler running, so that `shutdown` can come first. Three sessions let
one be added and one removed while a third is the addressee. Two messages per
queue can be held and waiting at the same time, and two faults give a crash after
a failed command. Parallelism 1 and 3 are the two branches of `runAsync`, the
latter too small for four tasks and large enough for the three without `prod`.
Three lock requests are a holder whose lease ended, its successor and a waiter.
Three callers are two in a race and one after it. Four documents in pages of two
leave a full second page, and two start times put a tie across a page's end. Three
nodes make a chain, a fork, a cycle beside a root, and two equal ids. Three
questions nest twice, or replace one another and are followed by one that opens the
dialog again. Of the two mouse places one pushes the dialog against the left end of
what contains it; the other is between the ends in the wide window and pushes against
the right end in the narrow one.

Bounds that cut behaviour are constants: `Calls`, `Messages`, `MaxMessages`,
`MaxFaults`, `MaxLockFaults`, `MaxCalls`, `MaxRateCalls`, `MaxClock`,
`MaxQuestions`, `MaxDepth` (a stack overflow: with three nodes no terminating
recursion comes near it), and the finite sets of sessions, messages, documents
and nodes.

**Deadlock** is checked except in the WebSocket runs, `background`, `requests`
and `pages`: there sessions, requests and users may just stop, a Thrift server
serves for ever and a consumer waits for ever for a message that nobody sends.
The liveness properties of these runs say what must not stop. The other modules
have an explicit step `Finished` that is enabled only in the states in which the
program may rest.

**Fairness.** `TxnCoordinator.CallerFairSpec` schedules the caller alone, whose only
wait is timed; the two properties about the tasks have `PoolFairness` as their
premise: pool threads are scheduled, timed waits end, the data source gives a
connection or gives up. `MQConnectionPool`: every thread runs on and enters a
monitor that stays free. `RabbitmqUtil`: the broker pushes all it has, as the
consumer sets no prefetch limit, and the consumer's thread runs; that the connection
breaks only finitely often is a premise of `GoodIsConsumed`, not part of the
specification. `DisruptorRing`: each handler and the producer have threads of their
own, which start at some time. `BackgroundTasks`: submitting threads, workers and
running tasks are scheduled and Redis answers; nobody has to send a request, to
commit a fault or to restart a JVM. `RedisLock`: threads run and leases end.
`TreeBuild`: the one thread runs. No strong fairness is used anywhere.

### Findings

1. `txn_partial`: `mainTask.await(timeout, unit)` (line 80) gives back whether
   the caller opened the latch; the code does not look. A task that waited
   too long commits by itself, a later failure rolls the others back, against
   line 44. What still holds is `CommitPromise`: an answer `true` is never given
   for a batch of which a task rolls back.
2. `pool_starve`: `getConnectionStream` sleeps with the monitor held (lines
   42-52), so nobody can give anything back, and connections never come back at
   all. One failed publish in `sendMsg` keeps its channel; with one connection
   the next sender waits and never gets on, against line 47.
3. `rabbit_dlx`: `receive` declares the queue with null arguments (line 166); the
   broker refuses when `sendMsg` declared it with a dead-letter exchange. No
   consumer starts on an existing queue, against `TestRabbitmq.java:21`.
4. `ws_success`: an open session without a user name makes `targetUser.equals`
   (line 90) throw, and the catch returns from the whole walk. The controller logs
   and answers success although the user's own open session was left out. No two
   threads change the set at a time in this run.

The other models show limits of the code that its properties name as their
exceptions, and that a reader should know:

* `AllStart` and `Drains` have the premise `Roomy`. The common pool has one
  worker fewer than the machine has processors; with three or four processors
  and the profile `prod` there are two or three workers for four tasks that never
  end, and the Thrift proxy, submitted last, never starts.
  `RedismqController` logs "mq消费已启动" before the task is even submitted.
* `RedisQueueConfig.java:12` says that data is not lost and that what piled up is
  consumed after a restart. That is so for what is still in Redis; a message already
  removed by `take` or `rightPop` is lost in a crash or with the answer of the
  command (`Lose` in `QueuePromise`, which costs a fault), and a loop ended by an
  exception consumes nothing until the next restart.
* `Disruptor.shutdown` returns at once when no event handler runs yet, and a handler
  whose thread starts later finds itself halted: its messages are left. Nothing in
  the programs but the `sleep` of `DisruptorTest.java:90` is against that. The worker
  pool of `DisruptorTest3` is counted from its start and leaves nothing.
* Two sessions added at a time can leave the `HashSet`'s size one too small for good;
  after enough removals it is zero or below over a set that is not empty, and every
  sender then reaches nobody, without an exception (`WebSocketConfig.java:72`, `:85`).
* `testRedis` can be inside its lock with another request; the one whose lease
  ended learns it from the exception of `unlock` only.
* `ThriftClient` keeps a transport whose first `open` failed for ever, and
  `CxfClientProxyFactory` can hand out a proxy without address or login.
* With two pagers on a page, or a list that changes its length in a click, the
  pager can offer pages that do not exist (`page.js:8` and `60`).
* A question asked by the function of another question is closed unseen
  (`common.js:20`), and one that is open is replaced unanswered by the next
  (`common.js:31`). A question that comes during a drag moves the dialog, and if the
  mouse does not move again, the position kept for the next question is another one.
* Paging by count misses documents when others come meanwhile and fails on an
  empty page when they go; paging by `startTime` skips documents that share the
  value of a page's last hit.
* `toTree` does not end on some lists with repeated ids; nodes whose parent is
  missing are left out by both functions.

## 4. What is proved

All proofs are for any values of the constants. The assumptions are those the
modules name, which TLC evaluates in the runs: numbers are naturals, a pool has a
thread or a connection, senders and users are different threads
(`NTasksAssumption`, `PoolSize`, ...); threads, sessions, messages, handlers and
documents are finitely many (`FiniteActors`, `FiniteMsgs`, `FiniteHandlers`,
`Sizes`, `IndexNumbers`); `Nobody` is neither a request nor a number (`Apart`);
windows and dialog differ by even widths, so that the middle is exact
(`DialogCentred`); nodes are numbered from 1 (`TreeNodes`). No theorem has another
premise. Every state invariant of the passing runs is proved, and of their other
properties everything but liveness.

**TxnCoordinatorProofs.** `IInv` strengthens the checked properties by what
the position of a task or of the caller says about the latch, the flag and
the transactions. `LatchCounts` alone is not inductive: that the count falls by
one needs the set of uncounted tasks to be finite and the moving task to be in it
(`UncountedFinite`, `LatchFollows`). `TrueMeansAllHandled` needs that a task past
its business code either ended normally or has cleared the flag (`CountedOk`) and
that the caller passes its check only with the latch empty or the flag down
(`ReleasedComplete`); together they also make the flag final (`FlagFinal`), from
which `VerdictFinal` and the refinement follow. Theorems: `InductiveInvariant`,
`TypeCorrect`, `LatchCorrect`, `TrueAnswer`, `PartialOnlyByTimeout`,
`VerdictFinal`, `RefinesPromise`.

**MQConnectionPoolProofs.** `PoolInv` says that whoever is inside a method owns
the monitor, that a client looking for a connection saw no idle channel and
none came since, and that a sleeper saw all connections taken. From it:
`WaitIsDry`, and the two action properties `WaitIsForever` (a waiting client is
never served) and `WaitFreezes` (the pool does not change meanwhile), the exact
form of finding 2. `ApartInv` adds that idle and held items are distinct, taken
and rightly counted; a newly polled connection is beyond all of them. From it:
`ChannelsApart`.

**RabbitmqUtilProofs.** `AckOnlyProcessed` (property `AckedWasProcessed`): an
acknowledgement goes to the head of the deliveries, so it must be known that the
head is the message that was processed (`HandlesHead`); a push goes behind it and
a break makes the acknowledgement stale before the head changes. `OnePlaceEach`
(property `NeverLostOrDoubled`): a message is counted once over two sequences and
three sets. `PlaceInv` says so for every message whose publication happened, also
when the sender did not learn it; the `Count` lemmas say what pushing, taking the
head and putting it back do to the number of occurrences in a sequence. From this
`QueuesTyped` (property `TypeOK`) follows: a queue that holds each message once at
most is no longer than the number of messages (`OnceIsShort`).

**DisruptorRingProofs.** `OrderKept` (property `EachInOrder`) and `ShutdownComplete`
(property `NothingLeft`), for every size of the ring, number of messages and
handlers, and wiring that does not go in a circle, which `then(...)` cannot make.
`ShutdownComplete` rests on `Waited`: a thread that runs does not go back to "off",
so whoever had started when `shutdown` was called is looked at, and what was looked
at and not behind stays so while the cursor rests; that the last handlers had
everything carries over to those before them by the wiring. The gate of the producer
is a minimum over the last handlers only; that it is behind all others too needs the
wiring: among the handlers behind the gate would be one nobody of them follows, but
whoever follows it is no further (`GateIsLast`, with `MinIsLeast` for the minimum of
any set of sequences). So no slot a handler still needs is overwritten
(`NotOverrun`, `SlotsApart`, `Filled`). For the worker pool, `Taken`, `OneWorker`
and `Covered` say that the messages up to the shared sequence are divided among the
workers. `RingTyped` (property `TypeOK`) bounds the sequences: a worker may take
messages that are never sent, but each of them is in the hands of another worker, so
the shared sequence passes the cursor by the number of workers at most
(`WorkersAhead`).

**WebSocketSessionsProofs.** `SessionInv` says for a sender in its walk that each
session of the addressee that was in the set at the beginning and is still there has
the message or is still ahead of the iterator (`Coming`), unless the iterator began
empty over a set that was not, and then nobody has it (`Unheard`), and that the set
holds exactly the open sessions whose changes did not overlap another (`Followed`).
As long as no two changes have overlapped, the size is the number of elements
(`Sized`), so no iterator begins empty over them. From it: `DoneIsComplete` and
`SetCorrect`. `SessionsTyped` (property `TypeOK`) adds that the modification count
never passes the openings and closings that have ended, which the lost updates can
only make smaller, and that the size lies between the closings below zero and the
openings above it (`Counted`).

**BackgroundTasksProofs.** `TaskInv` says that a consumer holds a message exactly
while it works on it, that a task waits in one submission queue at most, and that
calls of `offerAsync` under way have room. `PoolStep` adds that a worker starts a
task only if one is free, which bounds the running tasks for every size of the pool:
`TypeCorrect`. For the refinement, each step is one of five acts on a queue (`Acts`:
stores, removes, delivers, drops or stays, where dropping a message costs a fault),
and each of them is a step or a stutter of `QueuePromise`: `QueuesImplement`, for
both queues.

**RequestsProofs.** `RequestsInv` is one invariant for each of the three parts of
`MCRequests`; a step moves one part and leaves the others alone.

* `RequestsExclude` (`LocksExclude`): two calls that meet inside the lock do so
  because one lost its lease; that one no longer owns the lock and never will
  again, so its `unlock` throws and it answers no success (`MutexMet`). The write
  lock is alone because an unlapsed holder is known to Redis (`Renewing`) and
  Redis never has both a writer and readers (`OrderLock`).
* `RequestsCreateWhole` (`CreatedWhole`): it has to be known how many callers are
  between the null check and the assignment. Objects made, and callers still to
  make one, are together no more than the calls begun before the first answer
  (`ObjectsCount`, `EarlyCounts`); what is incomplete is in the hands of a caller
  between creation and completion (`Unfinished`). `CountMoves` says what one
  caller's step does to such a count.
* `RequestsLimited` (`RateHolds`): what all limiters together have admitted is a
  sum over a sequence that grows. It is kept as the number of points under a
  curve (`Below`), one column for each limiter: in total as high as its next free
  ticket less its saved permits, in one tick at most the saved permits and the one
  taken in advance (`AdmissionsCount`). A permit raises one column
  (`BelowGrows`), and a rectangle over all columns bounds the points (`BelowFits`).
* `RequestsTyped` (`TypeOK`): that the counter stays below its bound needs that
  every request raises it once (`SeqCounts`).

**PagesProofs.** `PagesInv` has a part for each of the four modules of `MCPages`.

* `PagesShowList` (`PagerShowsList`): the pages drawn are the least number that
  holds the list (`PageCountHolds`), the window lies inside them at both ends, for
  even and odd widths (`WindowFits`), and one pager alone reads what it wrote
  itself (`OwnSettings`, `OwnList`).
* `AnswersAgree` (`DialogAgrees`): overlay, trap and list of dialogs follow the
  open flag, text and buttons belong to the last question whenever it is asked,
  mouse handlers are bound once at most. `PlaceFollowsDrag` (`DialogInPlace`) rests
  on what flipping and fitting do to a place (`FlipKeeps`, `FitShows`) and on where a
  drag in progress last put the dialog (`PlaceInv`).
* `ReadersExplained` (`PagingExplained`): what was read lies up to the sort value
  the reader searches after; what was there from the start and is not read lies
  behind it, or shares the value of a page's last hit (`ReadUpTo`), which is the
  last of its page because hits come in order (`FollowedIsLast`). What was read and
  the pages still to come hold the documents of the start, with less than a page
  to spare (`PagesLeft`).
* `SiblingsApart`: with `listToTree` no node has two children of one id, whatever
  the ids; the part of `TreesRight` that guards the recursion.
* `PagesTyped` (`TypeOK`): that no node keeps children when a new call begins
  says that `treeToList` finds all of them. Every parent hangs on a root: a set of
  nodes that holds the roots and is closed under children holds every parent
  (`HangsOnRoots`); and it is still to be visited: the same with what the stack and
  the list still hold in place of the roots (`StillVisited`). When nothing is left
  to visit, the empty set is such a set, so there are no parents.

* `TreesRoundTrip` (`T!RoundTrip`, the rest of the safety part of `TreesRight`):
  with unique ids the list that comes out is every node tied to a root, once,
  after its parent, and the second round gives the same list. `Reached` is the
  least set that holds the roots and is closed under parents, so that two uses of
  leastness replace an induction (`ReachedHangs`). `ListsInv` follows a round: the
  sifted lists keep the order of the list given (`Sifting`, `Sifted`); a visited
  node has its children or a call in progress that will meet them, and what such a
  call has still to look at comes after what it found, so no node is visited twice
  (`Grown`, `Growing`); while trees are taken apart every reached node is out or
  waits somewhere (`Standing`), and what is out is `Once`, `AfterParents` and
  `Nested`: between a node and its parent only comes what hangs on the parent or
  on something after it (`Felled`, `Felling`). The last one makes the second round
  repeat the first (`SameOrder`): were another node taken than the next of the
  first list, that one would wait behind it in a sorted list, or hang on a node
  that came before its parent. `ListsInv` was checked with TLC on all lists of 4
  nodes before it was proved.

**Only model-checked:** all liveness (`CallerReturns`, `ConnectionsReturn`,
`TrueIsKept`, `OnlyAWaitStops`, `GoodIsConsumed`, `ProgramEnds`, `AllStart`,
`Drains`, `EveryoneServed`, the end of the recursion in `TreesRight`), as fairness
and ENABLED are beyond the prover.

## 5. Plan

1. Proofs: what the safety part of the liveness arguments is (which action is
   enabled where, and what it counts down), as invariants; what the second round
   does to a list whose ids repeat.
2. Models: the writes of `LazyObjects` in the orders Java's memory model allows
   for a field that is not volatile; places of the dialog in two dimensions; two
   JVMs on the same Redis queues; the executors of the Thrift server.
3. `pages` and `requests` as runs of their own for each module, with
   larger instances, where a question needs one.
