---------------------------- MODULE DisruptorRing ----------------------------
(***************************************************************************)
(* The ring buffer programs of the package disruptor: one Producer and the *)
(* handlers OrderHandler1, wired by handleEventsWith(...).then(...) or by  *)
(* handleEventsWithWorkerPool(...).                                        *)
(*                                                                         *)
(* Producer.onData and the wirings are the repository's.  The sequencer,   *)
(* the event processors and the work processors are the LMAX library's     *)
(* and are modelled from what the programs rely on: a slot may be claimed  *)
(* only when every last handler has passed it, an event handler moves its  *)
(* sequence at the end of a batch, a worker takes the next message by a    *)
(* compare-and-set of the shared work sequence.  Every handler runs in a   *)
(* thread of its own, which starts when the system lets it: main sleeps a  *)
(* second before shutdown() in the hope that all of them have.             *)
(***************************************************************************)
EXTENDS Integers, FiniteSets, Sequences, FiniteSetsExt

CONSTANTS
  Handlers,    \* the OrderHandler1 objects
  Programs,    \* the wirings: see Wirings
  BufferSize,  \* slots of the ring
  Counts       \* how many messages a program may send

\* after[h] are the handlers h was chained to with then(...); pool says
\* handleEventsWithWorkerPool instead of handleEventsWith.  then(...) goes behind
\* handlers that are wired already, so any of them have one nobody of them follows.
Wirings ==
  {w \in [handlers : SUBSET Handlers, after : [Handlers -> SUBSET Handlers],
          pool : BOOLEAN] :
     /\ w.handlers # {}
     /\ \A h \in Handlers : w.after[h] \subseteq w.handlers
     /\ w.pool => \A h \in Handlers : w.after[h] = {}
     /\ \A S \in SUBSET w.handlers :
          S # {} => \E h \in S : \A g \in S : h \notin w.after[g]}

ASSUME RingSize == BufferSize \in Nat \ {0} /\ Counts \subseteq Nat
ASSUME FiniteHandlers == IsFiniteSet(Handlers)
ASSUME KnownWirings == \A w \in Programs : w \in Wirings

VARIABLES
  program,   \* the program that runs: one of the wirings
  messages,  \* how many messages its loop sends
  claimed,   \* the last sequence claimed by next()
  cursor,    \* the last sequence published
  slot,      \* what each slot holds, -1 before the first write
  prodPc,    \* where main and its onData are
  passed,    \* the handlers this look of shutdown has not found behind
  late,      \* history: the last handlers not started when shutdown was called
  sequence,  \* the sequence each handler shows to the others
  target,    \* the end of its batch, or the message a worker is after
  at,        \* the next message it handles inside the batch
  pc,        \* where each handler is
  workSeq,   \* the shared sequence of the work pool
  handled    \* history: the values each handler was given, in order

vars == <<program, messages, claimed, cursor, slot, prodPc, passed, late,
          sequence, target, at, pc, workSeq, handled>>
producerVars == <<program, messages, claimed, cursor, slot, prodPc, passed, late>>
handlerVars == <<program, messages, sequence, target, at, pc, workSeq, handled>>

InUse == program.handlers
After == program.after
WorkerPool == program.pool

\* The handlers nobody is chained to: the sequencer waits for these.
Last == {h \in InUse : \A g \in InUse : h \notin After[g]}

Numbers == -1 .. messages + Cardinality(Handlers)

TypeOK ==
  /\ program \in Programs /\ messages \in Counts
  /\ claimed \in -1 .. messages - 1
  /\ cursor \in -1 .. messages - 1
  /\ slot \in [0 .. BufferSize - 1 -> -1 .. messages - 1]
  /\ prodPc \in {"next", "write", "publish", "shutdown", "halted"}
  /\ passed \subseteq Last /\ late \subseteq Last
  /\ sequence \in [Handlers -> Numbers]
  /\ target \in [Handlers -> Numbers]
  /\ at \in [Handlers -> 0 .. messages]
  /\ pc \in [Handlers -> {"off", "wait", "handle", "cas", "ended"}]
  /\ workSeq \in Numbers
  /\ \A h \in Handlers : handled[h] \in Seq(0 .. messages - 1)

Init ==
  /\ program \in Programs /\ messages \in Counts
  /\ claimed = -1
  /\ cursor = -1
  /\ slot = [i \in 0 .. BufferSize - 1 |-> -1]
  /\ prodPc = "next"
  /\ passed = {} /\ late = {}
  /\ sequence = [h \in Handlers |-> -1]
  /\ target = [h \in Handlers |-> -1]
  /\ at = [h \in Handlers |-> 0]
  /\ pc = [h \in Handlers |-> "off"]
  /\ workSeq = -1
  /\ handled = [h \in Handlers |-> <<>>]

-----------------------------------------------------------------------------
(* The producer thread.                                                    *)

Gate == Min({sequence[h] : h \in Last} \cup (IF WorkerPool THEN {workSeq} ELSE {}))

\* The loop of main is over: shutdown() is called.
CallShutdown ==
  /\ prodPc' = "shutdown"
  /\ late' = {h \in Last : pc[h] = "off"}

\* Variant: the loop of main sends one message too many.
NextSlotOnceMore ==
  /\ prodPc = "next"
  /\ \/ claimed = messages /\ CallShutdown /\ UNCHANGED claimed
     \/ /\ claimed < messages
        /\ claimed + 1 - BufferSize <= Gate
        /\ claimed' = claimed + 1
        /\ prodPc' = "write"
        /\ UNCHANGED late
  /\ UNCHANGED <<cursor, slot, passed, handlerVars>>

\* Variant: the sequence is published before the order is filled in.
NextSlotPublishes ==
  /\ prodPc = "next"
  /\ \/ claimed = messages - 1 /\ CallShutdown /\ UNCHANGED <<claimed, cursor>>
     \/ /\ claimed < messages - 1
        /\ claimed + 1 - BufferSize <= Gate
        /\ claimed' = claimed + 1
        /\ cursor' = claimed + 1
        /\ prodPc' = "write"
        /\ UNCHANGED late
  /\ UNCHANGED <<slot, passed, handlerVars>>

\* ringBuffer.next() waits until the claimed slot is free: the last handlers
\* hold it back from the start, whether their threads run yet or not.
NextSlot ==
  /\ prodPc = "next"
  /\ \/ claimed = messages - 1 /\ CallShutdown /\ UNCHANGED claimed
     \/ /\ claimed < messages - 1
        /\ claimed + 1 - BufferSize <= Gate
        /\ claimed' = claimed + 1
        /\ prodPc' = "write"
        /\ UNCHANGED late
  /\ UNCHANGED <<cursor, slot, passed, handlerVars>>

\* order.setId(data)
WriteSlot ==
  /\ prodPc = "write"
  /\ slot' = [slot EXCEPT ![claimed % BufferSize] = claimed]
  /\ prodPc' = "publish"
  /\ UNCHANGED <<claimed, cursor, passed, late, handlerVars>>

\* Variant: without publish in a finally block the sequence stays claimed.
PublishForgotten ==
  /\ prodPc = "publish"
  /\ prodPc' = "next"
  /\ UNCHANGED <<claimed, cursor, slot, passed, late, handlerVars>>

\* ringBuffer.publish(sequence) in the finally block.
Publish ==
  /\ prodPc = "publish"
  /\ cursor' = claimed
  /\ prodPc' = "next"
  /\ UNCHANGED <<claimed, slot, passed, late, handlerVars>>

\* shutdown counts an event handler only once its thread runs, a worker pool as
\* soon as start() has been called.
Counted(h) == WorkerPool \/ pc[h] # "off"

\* It looks at the last handlers one after the other, and again at all of them
\* when it finds one that is counted and behind.
Look(h) ==
  /\ prodPc = "shutdown" /\ h \notin passed
  /\ IF Counted(h) /\ sequence[h] < cursor
       THEN passed # {} /\ passed' = {}
       ELSE passed' = passed \cup {h}
  /\ UNCHANGED <<prodPc, claimed, cursor, slot, late, handlerVars>>

\* Nobody was behind: all handlers are told to stop.
Halt ==
  /\ prodPc = "shutdown" /\ passed = Last
  /\ WorkerPool => workSeq >= cursor
  /\ prodPc' = "halted"
  /\ UNCHANGED <<claimed, cursor, slot, passed, late, handlerVars>>

\* Variant: shutdown does not wait.
ShutdownAtOnce ==
  /\ prodPc = "shutdown"
  /\ prodPc' = "halted"
  /\ UNCHANGED <<claimed, cursor, slot, passed, late, handlerVars>>

\* disruptor.shutdown() waits while it finds a backlog, then halts.
Shutdown == (\E h \in Last : Look(h)) \/ Halt

-----------------------------------------------------------------------------
(* The threads of the handlers.                                            *)

\* A thread runs; an event handler that finds itself halted returns at once.
Run(h) ==
  /\ pc[h] = "off" /\ (WorkerPool => prodPc # "halted")
  /\ pc' = [pc EXCEPT ![h] = IF prodPc = "halted" THEN "ended" ELSE "wait"]
  /\ UNCHANGED <<producerVars, sequence, target, at, workSeq, handled>>

\* The wait for the next message ends with the alert of halt().
Stop(h) ==
  /\ ~WorkerPool /\ prodPc = "halted"
  /\ pc[h] = "wait"
  /\ pc' = [pc EXCEPT ![h] = "ended"]
  /\ UNCHANGED <<producerVars, sequence, target, at, workSeq, handled>>

-----------------------------------------------------------------------------
(* Handlers wired by handleEventsWith and then.                            *)

Available(h) ==
  IF After[h] = {} THEN cursor ELSE Min({sequence[g] : g \in After[h]})

\* The alert is looked at before the sequences are: a handler that was past that
\* takes one more batch after halt().
StartBatch(h) ==
  /\ ~WorkerPool
  /\ pc[h] = "wait"
  /\ Available(h) > sequence[h]
  /\ target' = [target EXCEPT ![h] = Available(h)]
  /\ at' = [at EXCEPT ![h] = sequence[h] + 1]
  /\ pc' = [pc EXCEPT ![h] = "handle"]
  /\ UNCHANGED <<producerVars, sequence, workSeq, handled>>

\* onEvent(order, sequence, endOfBatch); the batch ends with its last message.
HandleEvent(h) ==
  /\ ~WorkerPool
  /\ pc[h] = "handle"
  /\ handled' = [handled EXCEPT ![h] = Append(@, slot[at[h] % BufferSize])]
  /\ IF at[h] = target[h]
       THEN /\ sequence' = [sequence EXCEPT ![h] = target[h]]
            /\ pc' = [pc EXCEPT ![h] = IF prodPc = "halted" THEN "ended" ELSE "wait"]
            /\ UNCHANGED at
       ELSE /\ at' = [at EXCEPT ![h] = @ + 1]
            /\ UNCHANGED <<sequence, pc>>
  /\ UNCHANGED <<producerVars, target, workSeq>>

-----------------------------------------------------------------------------
(* Handlers wired by handleEventsWithWorkerPool.                           *)

\* A worker reads the shared sequence and shows how far it has come.
WorkerAim(h) ==
  /\ WorkerPool /\ prodPc # "halted"
  /\ pc[h] = "wait"
  /\ target' = [target EXCEPT ![h] = workSeq + 1]
  /\ sequence' = [sequence EXCEPT ![h] = workSeq]
  /\ pc' = [pc EXCEPT ![h] = "cas"]
  /\ UNCHANGED <<producerVars, at, workSeq, handled>>

\* Only one of the workers that aim at a message gets it.
WorkerTake(h) ==
  /\ pc[h] = "cas"
  /\ IF workSeq = target[h] - 1
       THEN /\ workSeq' = target[h]
            /\ pc' = [pc EXCEPT ![h] = "handle"]
       ELSE /\ pc' = [pc EXCEPT ![h] = "wait"]
            /\ UNCHANGED workSeq
  /\ UNCHANGED <<producerVars, sequence, target, at, handled>>

\* onEvent(order), once the message is published.
HandleWork(h) ==
  /\ WorkerPool /\ prodPc # "halted"
  /\ pc[h] = "handle"
  /\ cursor >= target[h]
  /\ handled' = [handled EXCEPT ![h] = Append(@, slot[target[h] % BufferSize])]
  /\ pc' = [pc EXCEPT ![h] = "wait"]
  /\ UNCHANGED <<producerVars, sequence, target, at, workSeq>>

-----------------------------------------------------------------------------
ProducerStep == NextSlot \/ WriteSlot \/ Publish \/ Shutdown
HandlerStep(h) ==
  \/ Run(h) \/ Stop(h) \/ StartBatch(h) \/ HandleEvent(h)
  \/ WorkerAim(h) \/ WorkerTake(h) \/ HandleWork(h)

Finished == prodPc = "halted" /\ UNCHANGED vars

Next == ProducerStep \/ (\E h \in InUse : HandlerStep(h)) \/ Finished

Spec == Init /\ [][Next]_vars

\* The producer and every handler have a thread of their own.
FairSpec ==
  /\ Spec /\ WF_vars(ProducerStep)
  /\ \A h \in Handlers : WF_vars(h \in InUse /\ HandlerStep(h))

-----------------------------------------------------------------------------
(* Properties.                                                             *)

\* An event handler is given the messages in the order they were sent, each
\* once and as they were written: no slot is overwritten before it has been
\* handled, and none is handled before it has been filled in.
InOrder ==
  ~WorkerPool => \A h \in InUse :
    \A i \in DOMAIN handled[h] : handled[h][i] = i - 1

\* "消费者C2 必须在C1消费完后才能消费m1" (DisruptorTest2.java:16): a message has
\* been handled by the handlers before it in the chain, whole batches included.
ChainKept ==
  \A h \in InUse : \A g \in After[h] : Len(handled[h]) <= Len(handled[g])

\* "多消费者对于消息不重复消费" (DisruptorTest3.java:16): in a worker pool every
\* message goes to one handler, once, and is not overwritten before.
OnceInPool ==
  WorkerPool =>
    /\ \A h \in InUse : \A i, j \in DOMAIN handled[h] :
         i < j => handled[h][i] < handled[h][j]
    /\ \A h \in InUse : \A i \in DOMAIN handled[h] : handled[h][i] >= 0
    /\ \A g, h \in InUse : g # h =>
         \A i \in DOMAIN handled[g], j \in DOMAIN handled[h] : handled[g][i] # handled[h][j]

\* Before shutdown is called all handler threads have to have started, says
\* DisruptorTest.java:89.  What then holds: a last handler that had started has had
\* every message when shutdown returns, and if all of them had, so has every
\* handler of the chain, whenever its own thread started.  A worker pool needs
\* no such thing: its messages are all handled even if no worker ran by then.
NothingLeft ==
  prodPc = "halted" =>
    IF WorkerPool
      THEN \A m \in 0 .. messages - 1 :
             \E h \in InUse : \E i \in DOMAIN handled[h] : handled[h][i] = m
      ELSE /\ \A h \in Last \ late : Len(handled[h]) = messages
           /\ late = {} => \A h \in InUse : Len(handled[h]) = messages

\* A full ring never blocks for good: the program gets to the end of shutdown.
ProgramEnds == <>(prodPc = "halted")

\* What the handlers of the four programs are given: in order, behind those
\* before them in the chain, and in a worker pool to one of them only.
EachInOrder == InOrder /\ ChainKept /\ OnceInPool
=============================================================================
