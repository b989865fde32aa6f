------------------------- MODULE DisruptorRingProofs -------------------------
(***************************************************************************)
(* Theorems about DisruptorRing, for every size of the ring, any number of *)
(* messages and handlers and every wiring that does not go in a circle.    *)
(***************************************************************************)
EXTENDS DisruptorRing, FiniteSetTheorems, WellFoundedInduction, TLAPS

(***************************************************************************)
(* Facts about numbers.                                                    *)
(***************************************************************************)

\* What a sequence can be: -1 before the first message.
Positions == {i \in Int : i >= -1}

\* A set of sequences, finite or not, has a least one, and Min is it.
LEMMA MinIsLeast ==
  ASSUME NEW S \in SUBSET Positions, S # {}
  PROVE  Min(S) \in S /\ \A y \in S : Min(S) <= y
<1> DEFINE Below(x) == {y \in S : y < x}
           Chain == {Below(x) : x \in S}
<1>0. \A y \in S : y \in Int /\ y >= -1
  BY DEF Positions
<1>1. Chain \subseteq FiniteSubsetsOf(S) /\ Chain # {}
  <2>1. SUFFICES ASSUME NEW x \in S PROVE IsFiniteSet(Below(x))
    BY DEF FiniteSubsetsOf
  <2>2. x \in Int /\ IsFiniteSet(-1 .. x)
    BY <1>0, FS_Interval
  <2>3. Below(x) \subseteq -1 .. x
    BY <1>0
  <2> QED
    BY <2>2, <2>3, FS_Subset
<1>2. PICK least \in Chain : \A c \in Chain : <<c, least>> \notin StrictSubsetOrdering(S)
  <2> HIDE DEF Chain
  <2> QED
    BY <1>1, WFMin, FS_StrictSubsetOrderingWellFounded
<1>3. PICK x \in S : least = Below(x)
  OBVIOUS
<1>4. ASSUME NEW y \in S, y < x PROVE FALSE
  <2>1. Below(y) \subseteq Below(x) /\ y \in Below(x) /\ y \notin Below(y)
    BY <1>0, <1>4
  <2>2. <<Below(y), Below(x)>> \in StrictSubsetOrdering(S)
    BY <2>1 DEF StrictSubsetOrdering
  <2> QED
    BY <1>2, <1>3, <2>2
<1>5. \A y \in S : x <= y
  BY <1>0, <1>4
<1> QED
  BY <1>5 DEF Min

\* A sequence has a slot.
LEMMA SlotExists ==
  ASSUME NEW b \in Nat \ {0}, NEW x \in Nat
  PROVE  x % b \in 0 .. b - 1
OBVIOUS

\* Two sequences less than a ring apart are in different slots.
LEMMA SlotsApart ==
  ASSUME NEW b \in Nat \ {0}, NEW x \in Nat, NEW y \in Nat, x < y, y - x < b
  PROVE  x % b # y % b
<1>1. x = b * (x \div b) + (x % b) /\ y = b * (y \div b) + (y % b)
  OBVIOUS
<1>2. x \div b \in Int /\ y \div b \in Int /\ x % b \in Int /\ y % b \in Int
  OBVIOUS
<1>3. ASSUME NEW p \in Int, NEW q \in Int, NEW r \in Int, x = b * p + r, y = b * q + r
      PROVE  FALSE
  <2>1. y - x = b * (q - p)
    BY <1>3
  <2>2. CASE q - p <= 0
    BY <2>1, <2>2
  <2>3. CASE q - p >= 1
    BY <2>1, <2>3
  <2> QED
    BY <2>2, <2>3
<1> QED
  BY <1>1, <1>2, <1>3

(***************************************************************************)
(* The inductive invariant, by parts.                                      *)
(***************************************************************************)

Types ==
  /\ program \in Wirings /\ messages \in Nat
  /\ claimed \in Positions /\ cursor \in Positions /\ workSeq \in Positions
  /\ slot \in [0 .. BufferSize - 1 -> Int]
  /\ prodPc \in {"next", "write", "publish", "shutdown", "halted"}
  /\ passed \in SUBSET Last /\ late \in SUBSET Last
  /\ sequence \in [Handlers -> Positions]
  /\ target \in [Handlers -> Positions]
  /\ at \in [Handlers -> Nat]
  /\ pc \in [Handlers -> {"off", "wait", "handle", "cas", "ended"}]
  /\ handled \in [Handlers -> Seq(Int)]

\* One sequence at most is claimed and not published, and it is the next one.
Claims ==
  /\ claimed = cursor + IF prodPc \in {"write", "publish"} THEN 1 ELSE 0
  /\ prodPc \in {"shutdown", "halted"} => cursor = messages - 1

\* What is written and not overwritten by the claimed sequence is in its slot.
Filled ==
  \A m \in Nat :
    m <= (IF prodPc = "publish" THEN claimed ELSE cursor) /\ m > claimed - BufferSize =>
      slot[m % BufferSize] = m

\* No handler is a whole ring behind what is claimed.
NotOverrun == \A h \in InUse : sequence[h] >= claimed - BufferSize

\* A handler of a chain is behind the cursor and those before it, and inside a
\* batch behind what they had shown when it began.
Behind ==
  \A h \in InUse :
    /\ sequence[h] <= cursor
    /\ \A g \in After[h] : sequence[h] <= sequence[g]
    /\ pc[h] = "handle" =>
         /\ sequence[h] < at[h] /\ at[h] <= target[h] /\ target[h] <= cursor
         /\ \A g \in After[h] : target[h] <= sequence[g]

\* It has been given exactly the messages up to its place.
Given ==
  \A h \in InUse :
    /\ Len(handled[h]) = IF pc[h] = "handle" THEN at[h] ELSE sequence[h] + 1
    /\ \A i \in DOMAIN handled[h] : handled[h][i] = i - 1

ChainInv == ~WorkerPool => (\A h \in InUse : pc[h] # "cas") /\ Behind /\ Given

\* A worker aims at the message behind its sequence, and has it when it handles it.
Aims ==
  \A h \in InUse :
    /\ sequence[h] <= workSeq
    /\ pc[h] \in {"cas", "handle"} => target[h] = sequence[h] + 1
    /\ pc[h] = "handle" => target[h] <= workSeq

\* What a worker was given was taken, in order, and before what it handles now.
Taken ==
  \A h \in InUse : \A i \in DOMAIN handled[h] :
    /\ handled[h][i] >= 0 /\ handled[h][i] <= workSeq
    /\ pc[h] = "handle" => handled[h][i] < target[h]
    /\ \A j \in DOMAIN handled[h] : i < j => handled[h][i] < handled[h][j]

\* No two workers have, or had, the same message.
OneWorker ==
  \A g, h \in InUse : g # h =>
    /\ pc[g] = "handle" /\ pc[h] = "handle" => target[g] # target[h]
    /\ pc[g] = "handle" => \A j \in DOMAIN handled[h] : handled[h][j] # target[g]
    /\ \A i \in DOMAIN handled[g], j \in DOMAIN handled[h] : handled[g][i] # handled[h][j]

\* Every message that was taken was given to a worker or is in its hands.
Covered ==
  \A m \in 0 .. workSeq : \E h \in InUse :
    \/ \E i \in DOMAIN handled[h] : handled[h][i] = m
    \/ pc[h] = "handle" /\ target[h] = m

PoolInv == WorkerPool => Aims /\ Taken /\ OneWorker /\ Covered

\* A thread that runs does not go back, and what shutdown has passed was not
\* behind, except for handlers whose threads it did not count.
Waited ==
  /\ prodPc \in {"shutdown", "halted"} =>
       /\ \A h \in Last \ late : pc[h] # "off"
       /\ \A h \in passed : WorkerPool \/ h \notin late => sequence[h] >= cursor
  /\ prodPc \notin {"shutdown", "halted"} => passed = {} /\ late = {}
  /\ prodPc = "halted" => passed = Last /\ (WorkerPool => workSeq >= cursor)

RingInv ==
  Types /\ Claims /\ Filled /\ NotOverrun /\ ChainInv /\ PoolInv /\ Waited

(***************************************************************************)
(* What the handlers wait for.                                             *)
(***************************************************************************)

\* What a wiring is.
LEMMA WiringFacts ==
  ASSUME Types
  PROVE  /\ InUse \subseteq Handlers /\ InUse # {}
         /\ After \in [Handlers -> SUBSET Handlers]
         /\ \A h \in Handlers : After[h] \subseteq InUse
         /\ WorkerPool \in BOOLEAN
         /\ Last \subseteq InUse
         /\ WorkerPool => Last = InUse
         /\ WorkerPool => \A h \in Handlers : After[h] = {}
         /\ \A S \in SUBSET InUse : S # {} => \E h \in S : \A g \in S : h \notin After[g]
BY DEF Types, Wirings, InUse, After, WorkerPool, Last

\* The gate is no further than the slowest handler: whoever is behind a handler
\* that the producer does not wait for is behind one it waits for.
LEMMA GateIsLast ==
  ASSUME RingInv
  PROVE  /\ Gate \in Positions
         /\ ~WorkerPool => \E h \in Last : Gate = sequence[h]
         /\ \A h \in InUse : Gate <= sequence[h]
         /\ WorkerPool => Gate <= workSeq
<1> USE DEF RingInv
<1> DEFINE Waits == {sequence[h] : h \in Last} \cup (IF WorkerPool THEN {workSeq} ELSE {})
<1>1. Last # {} /\ Last \subseteq InUse /\ InUse \subseteq Handlers
  BY WiringFacts DEF Last
<1>2. Waits \subseteq Positions /\ Waits # {}
  BY <1>1 DEF Types
<1>3. Gate \in Positions /\ Gate \in Waits /\ \A y \in Waits : Gate <= y
  <2> HIDE DEF Waits
  <2> QED
    BY <1>2, MinIsLeast DEF Gate, Waits
<1>4. \A h \in Last : Gate <= sequence[h]
  BY <1>3
<1>5. WorkerPool => Gate <= workSeq
  BY <1>3
<1>6. ASSUME NEW h \in InUse, ~(Gate <= sequence[h]) PROVE FALSE
  <2> DEFINE Slow == {g \in InUse : ~(Gate <= sequence[g])}
  <2>1. PICK s \in Slow : \A g \in Slow : s \notin After[g]
    <3> Slow \in SUBSET InUse /\ Slow # {}
      BY <1>6
    <3> HIDE DEF Slow
    <3> QED
      BY WiringFacts
  <2>2. PICK g \in InUse : s \in After[g]
    BY <1>4, <2>1 DEF Last
  <2>3. ~WorkerPool
    BY <2>2, WiringFacts
  <2>4. sequence[g] <= sequence[s]
    BY <2>2, <2>3 DEF ChainInv, Behind
  <2>5. sequence[g] \in Int /\ sequence[s] \in Int /\ Gate \in Int
    BY <1>1, <1>3 DEF Types, Positions
  <2>6. g \in Slow
    BY <2>1, <2>4, <2>5
  <2> QED
    BY <2>1, <2>2, <2>6
<1> QED
  BY <1>3, <1>5, <1>6

\* What is available to a handler is behind the cursor and all before it.
LEMMA AvailableIsBehind ==
  ASSUME RingInv, ~WorkerPool, NEW h \in InUse
  PROVE  /\ Available(h) \in Positions /\ Available(h) <= cursor
         /\ \A g \in After[h] : Available(h) <= sequence[g]
<1> USE DEF RingInv
<1>1. CASE After[h] = {}
  BY <1>1 DEF Available, Types, Positions
<1>2. CASE After[h] # {}
  <2> DEFINE Shown == {sequence[g] : g \in After[h]}
  <2>1. After[h] \subseteq InUse /\ InUse \subseteq Handlers
    BY WiringFacts
  <2>2. Shown \in SUBSET Positions /\ Shown # {}
    BY <1>2, <2>1 DEF Types
  <2>3. Available(h) = Min(Shown)
    BY <1>2 DEF Available
  <2>4. Available(h) \in Shown /\ \A y \in Shown : Available(h) <= y
    <3> HIDE DEF Shown
    <3> QED
      BY <2>2, <2>3, MinIsLeast
  <2>5. \A g \in InUse : sequence[g] <= cursor
    BY DEF ChainInv, Behind
  <2>6. \A y \in Shown : y <= cursor
    BY <2>1, <2>5
  <2>7. \A g \in After[h] : Available(h) <= sequence[g]
    BY <2>4
  <2> HIDE DEF Shown
  <2> QED
    BY <2>2, <2>4, <2>6, <2>7
<1> QED
  BY <1>1, <1>2

(***************************************************************************)
(* The steps.                                                              *)
(***************************************************************************)

LEMMA RingInit == Init => RingInv
<1> SUFFICES ASSUME Init PROVE RingInv
  OBVIOUS
<1> USE DEF Init
<1>1. Types
  BY KnownWirings, RingSize DEF Types, Positions
<1>2. Claims /\ Filled /\ Waited
  BY RingSize DEF Claims, Filled, Waited
<1>3. InUse \subseteq Handlers /\ \A g \in Handlers : After[g] \subseteq InUse
  BY <1>1, WiringFacts
<1>4. NotOverrun
  BY <1>3, RingSize DEF NotOverrun
<1>5. ChainInv
  BY <1>3 DEF ChainInv, Behind, Given
<1>6. PoolInv
  BY <1>3 DEF PoolInv, Aims, Taken, OneWorker, Covered
<1> QED
  BY <1>1, <1>2, <1>4, <1>5, <1>6 DEF RingInv

\* The wiring does not change.
LEMMA SameWiring ==
  ASSUME program' = program
  PROVE  InUse' = InUse /\ After' = After /\ WorkerPool' = WorkerPool /\ Last' = Last
BY DEF InUse, After, WorkerPool, Last

\* The producer overwrites only what every handler has passed, and what it
\* publishes is written.
LEMMA ProducerKeeps == RingInv /\ ProducerStep => RingInv'
<1> SUFFICES ASSUME RingInv, ProducerStep PROVE RingInv'
  OBVIOUS
<1> USE DEF RingInv
<1>1. handlerVars' = handlerVars /\ InUse' = InUse /\ After' = After /\ WorkerPool' = WorkerPool /\ Last' = Last
  BY SameWiring DEF ProducerStep, NextSlot, WriteSlot, Publish, Shutdown, Look, Halt,
                    handlerVars
<1>2. InUse \subseteq Handlers
  BY WiringFacts
<1>3. PoolInv'
  BY <1>1 DEF PoolInv, Aims, Taken, OneWorker, Covered, handlerVars
<1>4. cursor' >= cursor /\ cursor' \in Positions => ChainInv'
  BY <1>1, <1>2 DEF ChainInv, Behind, Given, handlerVars, Types, Positions
<1>5. CASE NextSlot
  <2>0. /\ cursor' = cursor /\ slot' = slot /\ passed' = passed /\ prodPc = "next"
        /\ claimed = cursor /\ passed = {} /\ late = {}
    BY <1>5 DEF NextSlot, Claims, Waited, Types, Positions
  <2>1. Types'
    BY <1>1, <1>5, <2>0 DEF NextSlot, CallShutdown, Types, Positions, handlerVars
  <2>2. Claims'
    BY <1>1, <1>5, <2>0 DEF NextSlot, CallShutdown, Claims, Types, Positions, handlerVars
  <2>3. Filled'
    BY <1>5, <2>0, RingSize DEF NextSlot, CallShutdown, Filled, Types, Positions
  <2>4. NotOverrun'
    <3>1. \/ claimed' = claimed
          \/ claimed' = claimed + 1 /\ claimed + 1 - BufferSize <= Gate
      BY <1>5, RingSize DEF NextSlot
    <3>2. PICK gate \in Int : gate = Gate /\ \A h \in InUse : gate <= sequence[h]
      BY GateIsLast DEF Positions
    <3>3. ASSUME NEW h \in InUse PROVE sequence[h] >= claimed' - BufferSize
      <4>1. sequence[h] >= claimed - BufferSize /\ gate <= sequence[h]
        BY <3>2 DEF NotOverrun
      <4>2. sequence[h] \in Int /\ claimed \in Int /\ BufferSize \in Int
        BY <1>2, RingSize DEF Types, Positions
      <4>3. CASE claimed' = claimed
        BY <4>1, <4>3
      <4>4. CASE claimed' = claimed + 1 /\ claimed + 1 - BufferSize <= gate
        BY <4>1, <4>2, <4>4
      <4> QED
        BY <3>1, <3>2, <4>3, <4>4
    <3>4. sequence' = sequence
      BY <1>1 DEF handlerVars
    <3> QED
      BY <1>1, <3>3, <3>4 DEF NotOverrun
  <2>5. Waited'
    BY <1>1, <1>5, <2>0 DEF NextSlot, CallShutdown, Waited, handlerVars
  <2> QED
    BY <1>3, <1>4, <2>0, <2>1, <2>2, <2>3, <2>4, <2>5 DEF Types, Positions
<1>6. CASE WriteSlot
  <2>1. claimed \in Nat /\ claimed = cursor + 1
    BY <1>6 DEF WriteSlot, Claims, Types, Positions
  <2>2. Types'
    BY <1>1, <1>6, <2>1 DEF WriteSlot, Types, Positions, handlerVars
  <2>3. Claims' /\ Waited' /\ NotOverrun'
    BY <1>1, <1>6 DEF WriteSlot, Claims, Waited, NotOverrun, handlerVars
  <2>4. Filled'
    <3> SUFFICES ASSUME NEW m \in Nat, m <= claimed, m > claimed - BufferSize
                 PROVE  slot'[m % BufferSize] = m
      BY <1>6 DEF WriteSlot, Filled
    <3>1. m % BufferSize \in 0 .. BufferSize - 1 /\ claimed % BufferSize \in 0 .. BufferSize - 1
      BY <2>1, SlotExists, RingSize
    <3>2. CASE m = claimed
      BY <1>6, <3>1, <3>2 DEF WriteSlot, Types
    <3>3. CASE m # claimed
      <4>1. m < claimed /\ claimed - m < BufferSize
        BY <2>1, <3>3, RingSize
      <4>2. m % BufferSize # claimed % BufferSize
        BY <2>1, <4>1, SlotsApart, RingSize
      <4>3. m <= cursor
        BY <2>1, <4>1 DEF Types, Positions
      <4>4. slot[m % BufferSize] = m
        BY <1>6, <4>3 DEF WriteSlot, Filled
      <4> QED
        BY <1>6, <3>1, <4>2, <4>4 DEF WriteSlot, Types
    <3> QED
      BY <3>2, <3>3
  <2> QED
    BY <1>3, <1>4, <1>6, <2>2, <2>3, <2>4 DEF WriteSlot, Types, Positions
<1>7. CASE Publish
  <2>1. Types' /\ cursor' >= cursor /\ cursor' \in Positions
    BY <1>1, <1>7 DEF Publish, Types, Positions, handlerVars, Claims
  <2>2. Claims' /\ Filled' /\ Waited' /\ NotOverrun'
    BY <1>1, <1>7 DEF Publish, Claims, Filled, Waited, NotOverrun, handlerVars, Types, Positions
  <2> QED
    BY <1>3, <1>4, <2>1, <2>2
<1>8. CASE Shutdown
  <2>1. /\ UNCHANGED <<claimed, cursor, slot, late>> /\ prodPc = "shutdown"
        /\ prodPc' \in {"shutdown", "halted"} /\ passed' \in SUBSET Last
    BY <1>8 DEF Shutdown, Look, Halt, Types
  <2>2. Types' /\ Claims' /\ Filled' /\ NotOverrun'
    BY <1>1, <2>1 DEF Types, Claims, Filled, NotOverrun, handlerVars
  <2>3. Waited'
    <3>1. \A h \in Last \ late : pc[h] # "off"
      BY <2>1 DEF Waited
    <3>2. /\ cursor \in Int /\ Last \subseteq InUse /\ InUse \subseteq Handlers
          /\ \A h \in Handlers : sequence[h] \in Int
      BY WiringFacts DEF Types, Positions
    <3>3. \A h \in passed' : WorkerPool \/ h \notin late => sequence[h] >= cursor
      BY <1>8, <2>1, <3>1, <3>2 DEF Shutdown, Look, Halt, Counted, Waited
    <3>4. prodPc' = "halted" => passed' = Last /\ (WorkerPool => workSeq >= cursor)
      BY <1>8, <2>1 DEF Shutdown, Look, Halt
    <3> QED
      BY <1>1, <2>1, <3>1, <3>3, <3>4 DEF Waited, handlerVars
  <2> QED
    BY <1>3, <1>4, <2>1, <2>2, <2>3 DEF Types, Positions
<1> QED
  BY <1>5, <1>6, <1>7, <1>8 DEF ProducerStep

\* A handler whose thread starts or stops changes nothing else.
LEMMA ThreadKeeps ==
  ASSUME RingInv, NEW h \in InUse, Run(h) \/ Stop(h)
  PROVE  RingInv'
<1> USE DEF RingInv
<1>1. /\ producerVars' = producerVars
      /\ UNCHANGED <<sequence, target, at, workSeq, handled>>
      /\ InUse' = InUse /\ After' = After /\ WorkerPool' = WorkerPool /\ Last' = Last
  BY SameWiring DEF Run, Stop, producerVars
<1>2. h \in Handlers /\ InUse \subseteq Handlers /\ Last \subseteq InUse
  BY WiringFacts
<1>3. \E where \in {"wait", "ended"} :
        pc' = [pc EXCEPT ![h] = where] /\ pc[h] \in {"off", "wait"}
  BY DEF Run, Stop
<1>4. \A g \in Handlers :
        /\ pc'[g] \in {"cas", "handle"} <=> pc[g] \in {"cas", "handle"}
        /\ pc'[g] \in {"cas", "handle"} => pc'[g] = pc[g]
        /\ pc[g] # "off" => pc'[g] # "off"
        /\ pc'[g] \in {"off", "wait", "handle", "cas", "ended"}
  BY <1>2, <1>3 DEF Types
<1>5. Types'
  BY <1>1, <1>3 DEF Types, producerVars
<1>6. Claims' /\ Filled' /\ NotOverrun'
  BY <1>1 DEF Claims, Filled, NotOverrun, producerVars
<1>7. Waited'
  BY <1>1, <1>2, <1>4 DEF Waited, producerVars
<1>8. ChainInv'
  BY <1>1, <1>2, <1>4 DEF ChainInv, Behind, Given, producerVars
<1>9. PoolInv'
  <2>1. (Aims' /\ Taken' /\ OneWorker' /\ Covered') \/ ~WorkerPool
    <3>1. SUFFICES ASSUME Aims, Taken, OneWorker, Covered
                   PROVE  Aims' /\ Taken' /\ OneWorker' /\ Covered'
      BY DEF PoolInv
    <3>2. Aims' /\ Taken'
      BY <1>1, <1>2, <1>4, <3>1 DEF Aims, Taken
    <3>3. OneWorker'
      BY <1>1, <1>2, <1>4, <3>1 DEF OneWorker
    <3>4. Covered'
      BY <1>1, <1>2, <1>4, <3>1 DEF Covered
    <3> QED
      BY <3>2, <3>3, <3>4
  <2> QED
    BY <1>1, <2>1 DEF PoolInv
<1> QED
  BY <1>5, <1>6, <1>7, <1>8, <1>9

\* What handlers do keeps what shutdown has found.
LEMMA WaitedKeeps ==
  ASSUME RingInv, producerVars' = producerVars,
         \A g \in InUse : /\ sequence'[g] \in Int /\ sequence'[g] >= sequence[g]
                          /\ pc[g] # "off" => pc'[g] # "off",
         workSeq' \in Int, workSeq' >= workSeq
  PROVE  Waited'
<1> USE DEF RingInv
<1>1. /\ program' = program /\ prodPc' = prodPc /\ cursor' = cursor
      /\ passed' = passed /\ late' = late
  BY DEF producerVars
<1>2. Last' = Last /\ WorkerPool' = WorkerPool
  BY <1>1, SameWiring
<1>3. /\ cursor \in Int /\ workSeq \in Int /\ Last \subseteq InUse /\ passed \subseteq Last
      /\ \A g \in InUse : sequence[g] \in Int
  BY WiringFacts DEF Types, Positions
<1>4. prodPc \in {"shutdown", "halted"} =>
        /\ \A h \in Last \ late : pc'[h] # "off"
        /\ \A h \in passed : WorkerPool \/ h \notin late => sequence'[h] >= cursor
  BY <1>3 DEF Waited
<1>5. prodPc = "halted" => passed = Last /\ (WorkerPool => workSeq' >= cursor)
  BY <1>3 DEF Waited
<1> QED
  BY <1>1, <1>2, <1>4, <1>5 DEF Waited

\* A handler of a chain finds every message of its batch in its slot.
LEMMA BatchKeeps ==
  ASSUME RingInv, NEW h \in InUse, StartBatch(h) \/ HandleEvent(h)
  PROVE  RingInv'
<1> USE DEF RingInv
<1>1. /\ producerVars' = producerVars /\ workSeq' = workSeq /\ ~WorkerPool
      /\ InUse' = InUse /\ After' = After /\ WorkerPool' = WorkerPool /\ Last' = Last
  BY SameWiring DEF StartBatch, HandleEvent, producerVars
<1>2. h \in Handlers /\ InUse \subseteq Handlers /\ \A g \in InUse : After[g] \subseteq InUse
  BY WiringFacts
<1>3. Claims' /\ Filled' /\ PoolInv'
  BY <1>1 DEF Claims, Filled, PoolInv, producerVars
<1>4. CASE StartBatch(h)
  <2>1. /\ Available(h) \in Positions /\ Available(h) <= cursor
        /\ \A g \in After[h] : Available(h) <= sequence[g]
    BY <1>1, AvailableIsBehind
  <2>2. Types'
    BY <1>1, <1>2, <1>4, <2>1 DEF StartBatch, Types, Positions, producerVars
  <2>3. NotOverrun' /\ Waited'
    BY <1>1, <1>4 DEF StartBatch, NotOverrun, Waited, producerVars
  <2>4. (\A g \in InUse : pc[g] # "cas")'
    BY <1>1, <1>2, <1>4 DEF StartBatch, ChainInv, Types
  <2>5. Behind'
    BY <1>1, <1>2, <1>4, <2>1 DEF StartBatch, ChainInv, Behind, Types, Positions, producerVars
  <2>6. Given'
    BY <1>1, <1>2, <1>4 DEF StartBatch, ChainInv, Given, Types, Positions
  <2> QED
    BY <1>3, <2>2, <2>3, <2>4, <2>5, <2>6 DEF ChainInv
<1>5. CASE HandleEvent(h)
  <2>1. /\ sequence[h] < at[h] /\ at[h] <= target[h] /\ target[h] <= cursor
        /\ \A g \in After[h] : target[h] <= sequence[g]
        /\ Len(handled[h]) = at[h]
        /\ at[h] \in Nat /\ target[h] \in Positions /\ sequence[h] \in Positions
    BY <1>1, <1>2, <1>5 DEF HandleEvent, ChainInv, Behind, Given, Types
  <2>2. slot[at[h] % BufferSize] = at[h]
    <3>1. cursor <= claimed /\ cursor \in Int /\ claimed \in Int
      BY DEF Claims, Types, Positions
    <3>2. at[h] <= cursor /\ at[h] > claimed - BufferSize
      BY <2>1, <3>1, RingSize DEF NotOverrun, Positions
    <3> QED
      BY <2>1, <3>1, <3>2 DEF Filled
  <2>3. handled' = [handled EXCEPT ![h] = Append(handled[h], at[h])]
    BY <1>5, <2>2 DEF HandleEvent
  <2>4. Types'
    <3>1. handled' \in [Handlers -> Seq(Int)]
      BY <1>2, <2>1, <2>3 DEF Types
    <3>2. sequence' \in [Handlers -> Positions] /\ at' \in [Handlers -> Nat]
      <4>1. CASE at[h] = target[h]
        BY <1>2, <1>5, <2>1, <4>1 DEF HandleEvent, Types
      <4>2. CASE at[h] # target[h]
        <5>1. at[h] + 1 \in Nat /\ at' = [at EXCEPT ![h] = at[h] + 1] /\ sequence' = sequence
          BY <1>5, <2>1, <4>2 DEF HandleEvent
        <5> QED
          BY <5>1 DEF Types
      <4> QED
        BY <4>1, <4>2
    <3>3. target' \in [Handlers -> Positions]
      BY <1>5 DEF HandleEvent, Types
    <3>4. pc' \in [Handlers -> {"off", "wait", "handle", "cas", "ended"}]
      BY <1>2, <1>5 DEF HandleEvent, Types
    <3> QED
      BY <1>1, <3>1, <3>2, <3>3, <3>4 DEF Types, producerVars
  <2>5. \A g \in InUse : sequence'[g] >= sequence[g] /\ (g # h => sequence'[g] = sequence[g])
    BY <1>2, <1>5, <2>1 DEF HandleEvent, Types, Positions
  <2>6. NotOverrun' /\ Waited'
    <3>1. claimed' = claimed /\ cursor' = cursor /\ prodPc' = prodPc
      BY <1>1 DEF producerVars
    <3>2. \A g \in InUse : sequence[g] \in Int /\ sequence'[g] \in Int
      BY <1>2, <2>4 DEF Types, Positions
    <3>3. claimed \in Int /\ cursor \in Int /\ BufferSize \in Int
      BY RingSize DEF Types, Positions
    <3>4. \A g \in InUse : pc[g] # "off" => pc'[g] # "off"
      BY <1>2, <1>5 DEF HandleEvent, Types
    <3>5. workSeq' \in Int /\ workSeq' >= workSeq
      BY <1>1 DEF Types, Positions
    <3>6. Waited'
      BY <1>1, <2>5, <3>2, <3>4, <3>5, WaitedKeeps
    <3> QED
      BY <1>1, <2>5, <3>1, <3>2, <3>3, <3>6 DEF NotOverrun
  <2>7. (\A g \in InUse : pc[g] # "cas")'
    BY <1>1, <1>2, <1>5 DEF HandleEvent, ChainInv, Types
  <2>8. Behind'
    <3> SUFFICES ASSUME NEW g \in InUse PROVE Behind!(g)'
      BY <1>1 DEF Behind
    <3>1. \A f \in InUse : sequence[f] \in Int /\ sequence'[f] \in Int
      BY <1>2, <2>4 DEF Types, Positions
    <3>2. cursor' = cursor /\ cursor \in Int /\ target' = target /\ target[g] \in Int /\ at[g] \in Int
      BY <1>1, <1>2, <1>5 DEF HandleEvent, producerVars, Types, Positions
    <3>3. CASE g # h
      <4>1. pc'[g] = pc[g] /\ at'[g] = at[g] /\ sequence'[g] = sequence[g]
        BY <1>2, <1>5, <2>5, <3>3 DEF HandleEvent, Types
      <4> QED
        BY <1>1, <1>2, <2>5, <3>1, <3>2, <4>1 DEF ChainInv, Behind
    <3>4. CASE g = h /\ at[h] = target[h]
      <4>1. pc'[h] # "handle" /\ sequence'[h] = target[h]
        BY <1>2, <1>5, <3>4 DEF HandleEvent, Types
      <4> QED
        BY <1>1, <1>2, <2>1, <2>5, <3>1, <3>2, <3>4, <4>1
    <3>5. CASE g = h /\ at[h] # target[h]
      <4>1. pc'[h] = "handle" /\ sequence'[h] = sequence[h] /\ at'[h] = at[h] + 1
        BY <1>2, <1>5, <3>5 DEF HandleEvent, Types
      <4> QED
        BY <1>1, <1>2, <2>1, <2>5, <3>1, <3>2, <3>5, <4>1 DEF ChainInv, Behind
    <3> QED
      BY <3>3, <3>4, <3>5
  <2>9. Given'
    BY <1>1, <1>2, <1>5, <2>1, <2>3, SMTT(30) DEF HandleEvent, ChainInv, Given, Types, Positions
  <2> QED
    BY <1>3, <2>4, <2>6, <2>7, <2>8, <2>9 DEF ChainInv
<1> QED
  BY <1>4, <1>5

\* Only one of the workers that aim at a message takes it, and all messages
\* before it were taken already.
LEMMA WorkKeeps ==
  ASSUME RingInv, NEW h \in InUse, WorkerAim(h) \/ WorkerTake(h) \/ HandleWork(h)
  PROVE  RingInv'
<1> USE DEF RingInv
<1>0. h \in Handlers /\ InUse \subseteq Handlers
  BY WiringFacts
<1>1. /\ producerVars' = producerVars /\ WorkerPool
      /\ InUse' = InUse /\ After' = After /\ WorkerPool' = WorkerPool /\ Last' = Last
  BY SameWiring, WiringFacts DEF WorkerAim, WorkerTake, HandleWork, producerVars, ChainInv
<1>2. Claims' /\ Filled' /\ ChainInv'
  BY <1>1 DEF Claims, Filled, ChainInv, producerVars
<1>3. /\ workSeq \in Int /\ workSeq >= -1
      /\ \A g \in InUse : /\ sequence[g] \in Int /\ target[g] \in Int
                          /\ \A i \in DOMAIN handled[g] : handled[g][i] \in Int
  BY <1>0 DEF Types, Positions
<1>4. Aims /\ Taken /\ OneWorker /\ Covered
  BY <1>1 DEF PoolInv
<1>5. CASE WorkerAim(h)
  <2>1. /\ sequence' = [sequence EXCEPT ![h] = workSeq] /\ sequence[h] <= workSeq
        /\ target' = [target EXCEPT ![h] = workSeq + 1]
        /\ pc' = [pc EXCEPT ![h] = "cas"] /\ pc[h] = "wait"
        /\ at' = at /\ workSeq' = workSeq /\ handled' = handled
        /\ \A g \in InUse : pc[g] = "handle" =>
             pc'[g] = "handle" /\ target'[g] = target[g]
    BY <1>0, <1>4, <1>5 DEF WorkerAim, Aims, Types
  <2>2. Types'
    <3>1. workSeq + 1 \in Positions
      BY <1>3 DEF Positions
    <3>2. sequence' \in [Handlers -> Positions] /\ target' \in [Handlers -> Positions]
      BY <2>1, <3>1 DEF Types
    <3> QED
      BY <1>1, <2>1, <3>2 DEF Types, producerVars
  <2>3. \A g \in InUse : sequence'[g] >= sequence[g] /\ sequence'[g] \in Int
    BY <1>0, <1>3, <2>1 DEF Types
  <2>4. NotOverrun' /\ Waited'
    BY <1>1, <1>3, <2>1, <2>3, RingSize, SMTT(30) DEF NotOverrun, Waited, producerVars, Types, Positions
  <2>5. Aims'
    BY <1>0, <1>1, <1>3, <1>4, <2>1 DEF Aims, Types
  <2>6. Taken' /\ OneWorker'
    BY <1>0, <1>1, <1>4, <2>1 DEF Taken, OneWorker, Types
  <2>7. Covered'
    <3> HIDE DEF RingInv
    <3> QED
      BY <1>1, <1>4, <2>1 DEF Covered
  <2> QED
    BY <1>2, <2>2, <2>4, <2>5, <2>6, <2>7 DEF PoolInv
<1>6. CASE WorkerTake(h) /\ workSeq # target[h] - 1
  <2>1. /\ pc' = [pc EXCEPT ![h] = "wait"] /\ pc[h] = "cas"
        /\ sequence' = sequence /\ target' = target
        /\ at' = at /\ workSeq' = workSeq /\ handled' = handled
    BY <1>6 DEF WorkerTake
  <2>2. Types' /\ NotOverrun'
    BY <1>1, <2>1 DEF Types, NotOverrun, producerVars
  <2>5. Waited'
    <3>1. \A g \in InUse : pc[g] # "off" => pc'[g] # "off"
      BY <1>0, <2>1 DEF Types
    <3> QED
      BY <1>1, <1>3, <2>1, <3>1, WaitedKeeps
  <2>3. Aims' /\ Taken' /\ OneWorker'
    BY <1>0, <1>1, <1>4, <2>1 DEF Aims, Taken, OneWorker, Types
  <2>4. Covered'
    <3>1. \A g \in InUse : pc[g] = "handle" => pc'[g] = "handle"
      BY <1>0, <2>1 DEF Types
    <3> HIDE DEF RingInv
    <3> QED
      BY <1>1, <1>4, <2>1, <3>1 DEF Covered
  <2> QED
    BY <1>2, <2>2, <2>3, <2>4, <2>5 DEF PoolInv
<1>7. CASE WorkerTake(h) /\ workSeq = target[h] - 1
  <2>1. /\ pc' = [pc EXCEPT ![h] = "handle"] /\ pc[h] = "cas"
        /\ sequence' = sequence /\ target' = target
        /\ at' = at /\ workSeq' = target[h] /\ handled' = handled
        /\ target[h] = workSeq + 1 /\ target[h] = sequence[h] + 1
    BY <1>3, <1>4, <1>7 DEF WorkerTake, Aims
  <2>2. Types' /\ NotOverrun' /\ Waited'
    BY <1>0, <1>1, <1>3, <2>1 DEF Types, NotOverrun, Waited, producerVars, Positions
  <2>3. Aims'
    BY <1>0, <1>1, <1>3, <1>4, <2>1 DEF Aims, Types
  <2>4. Taken'
    BY <1>0, <1>1, <1>3, <1>4, <2>1 DEF Taken, Types
  <2>5. OneWorker'
    <3>1. \A g \in InUse \ {h} :
            /\ pc'[g] = pc[g]
            /\ pc[g] = "handle" => target[g] # target[h]
            /\ \A i \in DOMAIN handled[g] : handled[g][i] # target[h]
      BY <1>0, <1>3, <1>4, <2>1 DEF Aims, Taken, Types
    <3> HIDE DEF RingInv
    <3> SUFFICES ASSUME NEW f \in InUse, NEW g \in InUse, f # g
                 PROVE  /\ pc'[f] = "handle" /\ pc'[g] = "handle" => target[f] # target[g]
                        /\ pc'[f] = "handle" => \A j \in DOMAIN handled[g] : handled[g][j] # target[f]
                        /\ \A i \in DOMAIN handled[f], j \in DOMAIN handled[g] :
                             handled[f][i] # handled[g][j]
      BY <1>1, <2>1 DEF OneWorker
    <3>3. CASE f # h /\ g # h
      BY <1>4, <3>1, <3>3 DEF OneWorker
    <3>4. CASE f = h
      BY <1>4, <3>1, <3>4 DEF OneWorker
    <3>5. CASE g = h
      <4>1. pc[f] = "handle" => \A j \in DOMAIN handled[h] : handled[h][j] # target[f]
        BY <1>4, <3>5 DEF OneWorker
      <4> QED
        BY <1>4, <3>1, <3>5, <4>1 DEF OneWorker
    <3> QED
      BY <3>3, <3>4, <3>5
  <2>6. Covered'
    <3> SUFFICES ASSUME NEW m \in 0 .. workSeq'
                 PROVE  \E g \in InUse : \/ \E i \in DOMAIN handled[g] : handled[g][i] = m
                                         \/ pc'[g] = "handle" /\ target[g] = m
      BY <1>1, <2>1 DEF Covered
    <3>1. CASE m = target[h]
      BY <1>0, <2>1, <3>1 DEF Types
    <3>2. CASE m # target[h]
      <4>1. m \in 0 .. workSeq
        BY <1>3, <2>1, <3>2
      <4>2. PICK g \in InUse : \/ \E i \in DOMAIN handled[g] : handled[g][i] = m
                               \/ pc[g] = "handle" /\ target[g] = m
        BY <1>4, <4>1 DEF Covered
      <4> QED
        BY <1>0, <2>1, <4>2 DEF Types
    <3> QED
      BY <3>1, <3>2
  <2> QED
    BY <1>2, <2>2, <2>3, <2>4, <2>5, <2>6 DEF PoolInv
<1>8. CASE HandleWork(h)
  <2>1. target[h] = sequence[h] + 1 /\ target[h] <= workSeq /\ target[h] <= cursor /\ pc[h] = "handle"
    BY <1>4, <1>8 DEF HandleWork, Aims, Types, Positions
  <2>2. slot[target[h] % BufferSize] = target[h] /\ target[h] \in Nat
    <3>1. cursor <= claimed /\ cursor \in Int /\ claimed \in Int
      BY DEF Claims, Types, Positions
    <3>2. target[h] <= cursor /\ target[h] > claimed - BufferSize /\ target[h] \in Nat
      BY <1>0, <1>3, <2>1, <3>1, RingSize DEF NotOverrun, Types, Positions
    <3> QED
      BY <3>1, <3>2 DEF Filled
  <2>3. /\ handled' = [handled EXCEPT ![h] = Append(handled[h], target[h])]
        /\ pc' = [pc EXCEPT ![h] = "wait"]
        /\ sequence' = sequence /\ target' = target /\ at' = at /\ workSeq' = workSeq
    BY <1>8, <2>2 DEF HandleWork
  <2>4. Types' /\ NotOverrun' /\ Waited'
    BY <1>0, <1>1, <2>2, <2>3 DEF Types, NotOverrun, Waited, producerVars
  <2>5. /\ handled'[h] = Append(handled[h], target[h]) /\ handled[h] \in Seq(Int)
        /\ pc'[h] = "wait"
        /\ \A g \in InUse : g # h => handled'[g] = handled[g] /\ pc'[g] = pc[g]
    BY <1>0, <2>3 DEF Types
  <2>6. /\ DOMAIN handled[h] = 1 .. Len(handled[h]) /\ Len(handled[h]) \in Nat
        /\ DOMAIN handled'[h] = 1 .. Len(handled[h]) + 1
        /\ handled'[h][Len(handled[h]) + 1] = target[h]
        /\ \A i \in DOMAIN handled[h] : handled'[h][i] = handled[h][i]
    BY <1>3, <2>5
  <2>7. Aims'
    BY <1>0, <1>1, <1>4, <2>3, <2>5 DEF Aims
  <2>8. \A i \in DOMAIN handled'[h] : i \in DOMAIN handled[h] \/ i = Len(handled[h]) + 1
    BY <2>6
  <2>9. Taken'
    <3> SUFFICES ASSUME NEW g \in InUse, NEW i \in DOMAIN handled'[g]
                 PROVE  /\ handled'[g][i] >= 0 /\ handled'[g][i] <= workSeq
                        /\ pc'[g] = "handle" => handled'[g][i] < target[g]
                        /\ \A j \in DOMAIN handled'[g] : i < j => handled'[g][i] < handled'[g][j]
      BY <1>1, <2>3 DEF Taken
    <3>1. CASE g # h
      BY <1>4, <2>5, <3>1 DEF Taken
    <3>2. CASE g = h
      <4>1. \A k \in DOMAIN handled[h] :
              /\ handled[h][k] >= 0 /\ handled[h][k] <= workSeq
              /\ handled[h][k] < target[h]
              /\ \A j \in DOMAIN handled[h] : k < j => handled[h][k] < handled[h][j]
        BY <1>4, <2>1 DEF Taken
      <4>2. handled'[h][i] >= 0 /\ handled'[h][i] <= workSeq
        BY <2>1, <2>2, <2>6, <2>8, <3>2, <4>1
      <4>3. ASSUME NEW j \in DOMAIN handled'[h], i < j
            PROVE  handled'[h][i] < handled'[h][j]
        <5>1. i \in DOMAIN handled[h]
          BY <2>6, <2>8, <3>2, <4>3
        <5>2. CASE j \in DOMAIN handled[h]
          BY <2>6, <4>1, <4>3, <5>1, <5>2
        <5>3. CASE j = Len(handled[h]) + 1
          BY <2>6, <4>1, <5>1, <5>3
        <5> QED
          BY <2>8, <5>2, <5>3
      <4> QED
        BY <2>5, <3>2, <4>2, <4>3
    <3> QED
      BY <3>1, <3>2
  <2>10. OneWorker'
    <3>1. \A g \in InUse \ {h} : \A j \in DOMAIN handled[g] : handled[g][j] # target[h]
      BY <1>4, <2>1 DEF OneWorker
    <3>2. \A g \in InUse \ {h} : pc[g] = "handle" =>
            \A j \in DOMAIN handled'[h] : handled'[h][j] # target[g]
      BY <1>4, <2>1, <2>6, <2>8 DEF OneWorker
    <3>3. \A g \in InUse \ {h} : \A i \in DOMAIN handled[g], j \in DOMAIN handled'[h] :
            handled[g][i] # handled'[h][j]
      BY <1>4, <2>6, <2>8, <3>1 DEF OneWorker
    <3> SUFFICES ASSUME NEW f \in InUse, NEW g \in InUse, f # g
                 PROVE  /\ pc'[f] = "handle" /\ pc'[g] = "handle" => target[f] # target[g]
                        /\ pc'[f] = "handle" => \A j \in DOMAIN handled'[g] : handled'[g][j] # target[f]
                        /\ \A i \in DOMAIN handled'[f], j \in DOMAIN handled'[g] :
                             handled'[f][i] # handled'[g][j]
      BY <1>1, <2>3 DEF OneWorker
    <3>4. CASE f # h /\ g # h
      BY <1>4, <2>5, <3>4 DEF OneWorker
    <3>5. CASE f = h
      <4>1. pc'[f] # "handle" /\ g \in InUse \ {h} /\ handled'[g] = handled[g]
        BY <2>5, <3>5
      <4>2. \A i \in DOMAIN handled'[h], j \in DOMAIN handled[g] : handled'[h][i] # handled[g][j]
        BY <3>3, <4>1
      <4> QED
        BY <3>5, <4>1, <4>2
    <3>6. CASE g = h
      <4>1. /\ pc'[g] # "handle" /\ f \in InUse \ {h} /\ handled'[f] = handled[f]
            /\ pc'[f] = pc[f]
        BY <2>5, <3>6
      <4> QED
        BY <3>2, <3>3, <3>6, <4>1
    <3> QED
      BY <3>4, <3>5, <3>6
  <2>11. Covered'
    <3> SUFFICES ASSUME NEW m \in 0 .. workSeq
                 PROVE  \E g \in InUse : \/ \E i \in DOMAIN handled'[g] : handled'[g][i] = m
                                         \/ pc'[g] = "handle" /\ target[g] = m
      BY <1>1, <2>3 DEF Covered
    <3>1. PICK g \in InUse : \/ \E i \in DOMAIN handled[g] : handled[g][i] = m
                             \/ pc[g] = "handle" /\ target[g] = m
      BY <1>4 DEF Covered
    <3>2. CASE g # h
      BY <2>5, <3>1, <3>2
    <3>3. CASE g = h
      BY <2>6, <3>1, <3>3
    <3> QED
      BY <3>2, <3>3
  <2> QED
    BY <1>2, <2>4, <2>7, <2>9, <2>10, <2>11 DEF PoolInv
<1> QED
  BY <1>5, <1>6, <1>7, <1>8

\* Every step keeps the invariant.
LEMMA RingStep == RingInv /\ [Next]_vars => RingInv'
<1> SUFFICES ASSUME RingInv, [Next]_vars PROVE RingInv'
  OBVIOUS
<1>1. CASE ProducerStep
  BY <1>1, ProducerKeeps
<1>2. CASE \E h \in InUse : HandlerStep(h)
  BY <1>2, ThreadKeeps, BatchKeeps, WorkKeeps DEF HandlerStep
<1>3. CASE UNCHANGED vars
  <2>1. InUse' = InUse /\ After' = After /\ WorkerPool' = WorkerPool /\ Last' = Last
    BY <1>3, SameWiring DEF vars
  <2>2. Types' /\ Claims' /\ Filled' /\ NotOverrun' /\ Waited'
    BY <1>3, <2>1 DEF vars, RingInv, Types, Claims, Filled, NotOverrun, Waited
  <2>3. ChainInv'
    BY <1>3, <2>1 DEF vars, RingInv, ChainInv, Behind, Given
  <2>4. PoolInv'
    BY <1>3, <2>1 DEF vars, RingInv, PoolInv, Aims, Taken, OneWorker, Covered
  <2> QED
    BY <2>2, <2>3, <2>4 DEF RingInv
<1> QED
  BY <1>1, <1>2, <1>3 DEF Next, Finished

(***************************************************************************)
(* The theorems.                                                           *)
(***************************************************************************)

LEMMA RingHolds == Spec => []RingInv
BY RingInit, RingStep, PTL DEF Spec

\* EachInOrder: for every wiring an event handler is given the messages in the
\* order they were sent, behind those before it in the chain, and a message of
\* the worker pool goes to one worker, none overwritten before.
THEOREM OrderKept == Spec => []EachInOrder
<1>1. ASSUME RingInv PROVE EachInOrder
  <2> USE <1>1 DEF RingInv
  <2>1. InUse \subseteq Handlers /\ \A h \in InUse : After[h] \subseteq InUse
    BY WiringFacts
  <2>2. InOrder
    BY DEF InOrder, ChainInv, Given
  <2>3. ChainKept
    <3> SUFFICES ASSUME NEW h \in InUse, NEW g \in After[h]
                 PROVE  Len(handled[h]) <= Len(handled[g])
      BY DEF ChainKept
    <3>1. ~WorkerPool /\ g \in InUse
      BY <2>1, WiringFacts
    <3>2. Len(handled[h]) = IF pc[h] = "handle" THEN at[h] ELSE sequence[h] + 1
      BY <3>1 DEF ChainInv, Given
    <3>3. Len(handled[g]) = IF pc[g] = "handle" THEN at[g] ELSE sequence[g] + 1
      BY <3>1 DEF ChainInv, Given
    <3>4. /\ sequence[h] <= sequence[g]
          /\ pc[h] = "handle" => at[h] <= target[h] /\ target[h] <= sequence[g]
          /\ pc[g] = "handle" => sequence[g] < at[g]
      BY <3>1 DEF ChainInv, Behind
    <3> QED
      BY <2>1, <3>1, <3>2, <3>3, <3>4 DEF Types, Positions
  <2>4. OnceInPool
    BY DEF OnceInPool, PoolInv, Taken, OneWorker
  <2> QED
    BY <2>2, <2>3, <2>4 DEF EachInOrder
<1> QED
  BY <1>1, RingHolds, PTL

\* NothingLeft: when shutdown returns, every last handler whose thread had
\* started when it was called has had all messages, every handler of the chain
\* if all of these had started, and the workers of a pool all of them together.
THEOREM ShutdownComplete == Spec => []NothingLeft
<1>1. ASSUME RingInv PROVE NothingLeft
  <2> USE <1>1 DEF RingInv
  <2> SUFFICES ASSUME prodPc = "halted"
               PROVE  IF WorkerPool
                        THEN \A m \in 0 .. messages - 1 :
                               \E h \in InUse : \E i \in DOMAIN handled[h] : handled[h][i] = m
                        ELSE /\ \A h \in Last \ late : Len(handled[h]) = messages
                             /\ late = {} => \A h \in InUse : Len(handled[h]) = messages
    BY DEF NothingLeft
  <2>1. /\ cursor = messages - 1 /\ passed = Last
        /\ \A h \in Last : WorkerPool \/ h \notin late => sequence[h] >= cursor
    BY DEF Claims, Waited
  <2>2. InUse \subseteq Handlers /\ messages \in Nat /\ Last \subseteq InUse
    BY WiringFacts DEF Types
  <2>3. ASSUME ~WorkerPool, NEW h \in InUse, sequence[h] >= cursor
        PROVE  Len(handled[h]) = messages
    <3>1. /\ sequence[h] <= cursor
          /\ pc[h] = "handle" => sequence[h] < at[h] /\ at[h] <= target[h] /\ target[h] <= cursor
      BY <2>3 DEF ChainInv, Behind
    <3>2. sequence[h] = cursor /\ pc[h] # "handle"
      BY <2>1, <2>2, <2>3, <3>1 DEF Types, Positions
    <3> QED
      BY <2>1, <2>2, <2>3, <3>2 DEF ChainInv, Given
  <2>5. ASSUME ~WorkerPool, late = {}, NEW h \in InUse PROVE sequence[h] >= cursor
    <3>1. PICK g \in Last : Gate = sequence[g]
      BY <2>5, GateIsLast
    <3>2. Gate >= cursor /\ Gate <= sequence[h]
      BY <2>1, <2>5, <3>1, GateIsLast
    <3> QED
      BY <2>2, <3>2, GateIsLast DEF Types, Positions
  <2>4. ASSUME WorkerPool, NEW m \in 0 .. messages - 1
        PROVE  \E h \in InUse : \E i \in DOMAIN handled[h] : handled[h][i] = m
    <3>1. m \in 0 .. workSeq
      BY <2>1, <2>2, <2>4 DEF Waited, Types, Positions
    <3>2. PICK h \in InUse : \/ \E i \in DOMAIN handled[h] : handled[h][i] = m
                             \/ pc[h] = "handle" /\ target[h] = m
      BY <2>4, <3>1 DEF PoolInv, Covered
    <3>3. sequence[h] >= cursor
      BY <2>1, <2>4, WiringFacts
    <3>4. ~(pc[h] = "handle" /\ target[h] = m)
      BY <2>1, <2>2, <2>4, <3>3 DEF PoolInv, Aims, Types, Positions
    <3> QED
      BY <3>2, <3>4
  <2>6. ~WorkerPool => \A h \in Last \ late : Len(handled[h]) = messages
    BY <2>1, <2>2, <2>3
  <2> QED
    BY <2>3, <2>4, <2>5, <2>6
<1> QED
  BY <1>1, RingHolds, PTL

(***************************************************************************)
(* How far the sequences go.                                               *)
(***************************************************************************)

\* No sequence of a chain passes the cursor, no worker aims beyond the message
\* after the shared sequence, and only what was published was handled.
Bounds ==
  /\ program \in Programs /\ messages \in Counts
  /\ claimed <= messages - 1
  /\ slot \in [0 .. BufferSize - 1 -> -1 .. messages - 1]
  /\ ~WorkerPool => workSeq = -1
  /\ \A h \in Handlers :
       /\ at[h] <= messages
       /\ sequence[h] <= IF WorkerPool THEN workSeq ELSE cursor
       /\ target[h] <= IF WorkerPool THEN workSeq + 1 ELSE cursor
       /\ \A i \in DOMAIN handled[h] : handled[h][i] \in 0 .. cursor

\* A slot a handler still needs holds its message.
LEMMA SlotHolds ==
  ASSUME RingInv, NEW m \in Nat, m <= cursor, m > claimed - BufferSize
  PROVE  slot[m % BufferSize] = m
<1>1. cursor <= claimed /\ cursor \in Int /\ claimed \in Int
  BY DEF RingInv, Claims, Types, Positions
<1> QED
  BY <1>1 DEF RingInv, Filled

LEMMA BoundsInit == Init => Bounds
BY RingSize DEF Init, Bounds

LEMMA BoundsStep == RingInv /\ Bounds /\ [Next]_vars => Bounds'
<1> SUFFICES ASSUME RingInv, Bounds, [Next]_vars PROVE Bounds'
  OBVIOUS
<1>0. /\ messages \in Nat /\ messages' = messages /\ BufferSize \in Nat \ {0}
      /\ claimed \in Int /\ claimed >= -1 /\ cursor \in Int /\ cursor >= -1
      /\ cursor <= claimed /\ workSeq \in Int /\ workSeq >= -1
      /\ InUse \subseteq Handlers
  <2>1. messages' = messages
    BY DEF Next, ProducerStep, NextSlot, WriteSlot, Publish, Shutdown, Look, Halt, Finished,
           HandlerStep, Run, Stop, StartBatch, HandleEvent, WorkerAim, WorkerTake, HandleWork,
           producerVars, handlerVars, vars
  <2> QED
    BY <2>1, RingSize, WiringFacts DEF RingInv, Types, Positions, Claims
<1>1. \A h \in Handlers : at[h] \in Int /\ sequence[h] \in Int /\ target[h] \in Int
  BY DEF RingInv, Types, Positions
<1>2. CASE ProducerStep
  <2>1. /\ handlerVars' = handlerVars /\ WorkerPool' = WorkerPool
    BY <1>2, SameWiring DEF ProducerStep, NextSlot, CallShutdown, WriteSlot, Publish, Shutdown, Look, Halt, handlerVars
  <2>2. cursor' \in Int /\ cursor' >= cursor
    BY <1>0, <1>2 DEF ProducerStep, NextSlot, CallShutdown, WriteSlot, Publish, Shutdown, Look, Halt
  <2>3. claimed' <= messages - 1
    BY <1>0, <1>2 DEF ProducerStep, NextSlot, CallShutdown, WriteSlot, Publish, Shutdown, Look, Halt, Bounds
  <2>4. slot' \in [0 .. BufferSize - 1 -> -1 .. messages - 1]
    <3>1. claimed \in -1 .. messages - 1
      BY <1>0 DEF Bounds
    <3> QED
      BY <1>2, <3>1 DEF ProducerStep, NextSlot, CallShutdown, WriteSlot, Publish, Shutdown, Look, Halt, Bounds
  <2>5. UNCHANGED <<at, sequence, target, handled, workSeq>>
    BY <2>1 DEF handlerVars
  <2>6. ASSUME NEW h \in Handlers
        PROVE  /\ at'[h] <= messages
               /\ sequence'[h] <= IF WorkerPool' THEN workSeq' ELSE cursor'
               /\ target'[h] <= IF WorkerPool' THEN workSeq' + 1 ELSE cursor'
               /\ \A i \in DOMAIN handled'[h] : handled'[h][i] \in 0 .. cursor'
    BY <1>0, <1>1, <2>1, <2>2, <2>5 DEF Bounds
  <2>7. program' \in Programs /\ messages' \in Counts
    BY <2>1 DEF handlerVars, Bounds
  <2> QED
    BY <1>0, <2>1, <2>3, <2>4, <2>5, <2>6, <2>7 DEF Bounds
<1>3. CASE \E h \in InUse : HandlerStep(h)
  <2> PICK h \in InUse : HandlerStep(h)
    BY <1>3
  <2>1. /\ UNCHANGED <<program, messages, claimed, cursor, slot>>
        /\ WorkerPool' = WorkerPool /\ h \in Handlers
    BY <1>0, SameWiring DEF HandlerStep, Run, Stop, StartBatch, HandleEvent, WorkerAim, WorkerTake,
                            HandleWork, producerVars
  <2>2. SUFFICES /\ ~WorkerPool => workSeq' = -1
                 /\ \A g \in Handlers :
                      /\ at'[g] <= messages
                      /\ sequence'[g] <= IF WorkerPool THEN workSeq' ELSE cursor
                      /\ target'[g] <= IF WorkerPool THEN workSeq' + 1 ELSE cursor
                      /\ \A i \in DOMAIN handled'[g] : handled'[g][i] \in 0 .. cursor
    BY <2>1 DEF Bounds
  <2>3. /\ at[h] <= messages
        /\ \A i \in DOMAIN handled[h] : handled[h][i] \in 0 .. cursor
        /\ sequence[h] <= IF WorkerPool THEN workSeq ELSE cursor
        /\ target[h] <= IF WorkerPool THEN workSeq + 1 ELSE cursor
        /\ ~WorkerPool => workSeq = -1
    BY <2>1 DEF Bounds
  <2>4. CASE StartBatch(h)
    <3>1. /\ ~WorkerPool /\ UNCHANGED <<sequence, workSeq, handled>>
          /\ target' = [target EXCEPT ![h] = Available(h)]
          /\ at' = [at EXCEPT ![h] = sequence[h] + 1]
          /\ Available(h) \in Int /\ Available(h) <= cursor /\ Available(h) > sequence[h]
      BY <2>4, AvailableIsBehind DEF StartBatch, Positions
    <3>2. sequence[h] + 1 <= messages
      BY <1>0, <1>1, <2>1, <3>1 DEF Bounds
    <3> QED
      BY <2>1, <2>3, <3>1, <3>2 DEF Bounds, RingInv, Types
  <2>5. CASE HandleEvent(h)
    <3>1. ~WorkerPool /\ pc[h] = "handle" /\ UNCHANGED <<target, workSeq>>
      BY <2>5 DEF HandleEvent
    <3>2. at[h] <= target[h] /\ target[h] <= cursor /\ at[h] > sequence[h]
      BY <3>1 DEF RingInv, ChainInv, Behind
    <3>3. /\ \A g \in Handlers : at'[g] <= messages
          /\ \A g \in Handlers : sequence'[g] <= cursor
      <4>1. CASE at[h] = target[h]
        <5>1. at' = at /\ sequence' = [sequence EXCEPT ![h] = target[h]]
          BY <2>5, <4>1 DEF HandleEvent
        <5> QED
          BY <2>1, <3>1, <3>2, <5>1 DEF Bounds, RingInv, Types
      <4>2. CASE at[h] # target[h]
        <5>1. at' = [at EXCEPT ![h] = at[h] + 1] /\ sequence' = sequence
          BY <2>5, <4>2 DEF HandleEvent
        <5>2. at[h] + 1 <= messages
          BY <1>0, <1>1, <2>1, <3>2, <4>2 DEF Bounds
        <5> QED
          BY <2>1, <3>1, <5>1, <5>2 DEF Bounds, RingInv, Types
      <4> QED
        BY <4>1, <4>2
    <3>4. slot[at[h] % BufferSize] = at[h] /\ at[h] \in 0 .. cursor
      <4>1. at[h] \in Nat /\ sequence[h] >= claimed - BufferSize
        BY <2>1 DEF RingInv, Types, NotOverrun
      <4>2. at[h] <= cursor /\ at[h] > claimed - BufferSize
        BY <1>0, <1>1, <2>1, <3>2, <4>1
      <4> QED
        BY <1>0, <4>1, <4>2, SlotHolds
    <3>5. handled' = [handled EXCEPT ![h] = Append(handled[h], at[h])]
      BY <2>5, <3>4 DEF HandleEvent
    <3>6. handled[h] \in Seq(Int)
      BY <2>1 DEF RingInv, Types
    <3>7. \A i \in DOMAIN Append(handled[h], at[h]) : Append(handled[h], at[h])[i] \in 0 .. cursor
      BY <2>3, <3>4, <3>6
    <3>8. \A g \in Handlers : \A i \in DOMAIN handled'[g] : handled'[g][i] \in 0 .. cursor
      BY <2>1, <3>5, <3>7 DEF Bounds, RingInv, Types
    <3> QED
      BY <2>3, <3>1, <3>3, <3>8 DEF Bounds
  <2>6. CASE WorkerAim(h)
    <3>1. /\ WorkerPool /\ UNCHANGED <<at, workSeq, handled>>
          /\ target' = [target EXCEPT ![h] = workSeq + 1]
          /\ sequence' = [sequence EXCEPT ![h] = workSeq]
      BY <2>6 DEF WorkerAim
    <3> QED
      BY <1>0, <2>1, <3>1 DEF Bounds, RingInv, Types
  <2>7. CASE WorkerTake(h)
    <3>1. WorkerPool /\ UNCHANGED <<sequence, target, at, handled>>
      BY <2>7, WiringFacts DEF WorkerTake, RingInv, ChainInv
    <3>2. workSeq' \in Int /\ workSeq' >= workSeq
      BY <1>0, <1>1, <2>1, <2>7 DEF WorkerTake
    <3> QED
      BY <1>0, <1>1, <3>1, <3>2, SMTT(30) DEF Bounds
  <2>8. CASE HandleWork(h)
    <3>1. /\ WorkerPool /\ pc[h] = "handle" /\ cursor >= target[h]
          /\ UNCHANGED <<sequence, target, at, workSeq>>
      BY <2>8 DEF HandleWork
    <3>2. target[h] = sequence[h] + 1
      BY <3>1 DEF RingInv, PoolInv, Aims
    <3>3. slot[target[h] % BufferSize] = target[h] /\ target[h] \in 0 .. cursor
      <4>1. sequence[h] >= claimed - BufferSize /\ sequence[h] >= -1
        BY <2>1 DEF RingInv, Types, Positions, NotOverrun
      <4>2. target[h] \in Nat /\ target[h] <= cursor /\ target[h] > claimed - BufferSize
        BY <1>0, <1>1, <2>1, <3>1, <3>2, <4>1
      <4> QED
        BY <1>0, <4>1, <4>2, SlotHolds
    <3>4. handled' = [handled EXCEPT ![h] = Append(handled[h], target[h])]
      BY <2>8, <3>3 DEF HandleWork
    <3>5. handled[h] \in Seq(Int)
      BY <2>1 DEF RingInv, Types
    <3>6. \A i \in DOMAIN Append(handled[h], target[h]) :
            Append(handled[h], target[h])[i] \in 0 .. cursor
      BY <2>3, <3>3, <3>5
    <3>7. \A g \in Handlers : \A i \in DOMAIN handled'[g] : handled'[g][i] \in 0 .. cursor
      BY <2>1, <3>4, <3>6 DEF Bounds, RingInv, Types
    <3> QED
      BY <2>3, <3>1, <3>7 DEF Bounds
  <2>9. CASE Run(h) \/ Stop(h)
    <3>1. UNCHANGED <<sequence, target, at, workSeq, handled>>
      BY <2>9 DEF Run, Stop
    <3> QED
      BY <2>1, <3>1 DEF Bounds
  <2> QED
    BY <2>4, <2>5, <2>6, <2>7, <2>8, <2>9 DEF HandlerStep
<1>4. CASE UNCHANGED vars
  BY <1>4, SameWiring DEF vars, Bounds
<1> QED
  BY <1>2, <1>3, <1>4 DEF Next, Finished

LEMMA ValuesIn ==
  ASSUME NEW S, NEW s \in Seq(Int), \A i \in DOMAIN s : s[i] \in S
  PROVE  s \in Seq(S)
<1>1. s \in [1 .. Len(s) -> S] /\ Len(s) \in Nat
  OBVIOUS
<1> QED
  BY <1>1

\* Each message taken and not published yet is in the hands of another worker.
LEMMA WorkersAhead ==
  ASSUME RingInv, Bounds, WorkerPool
  PROVE  workSeq <= cursor + Cardinality(Handlers) /\ Cardinality(Handlers) \in Nat
<1> DEFINE Ahead == cursor + 1 .. workSeq
           Owner == [m \in Ahead |-> CHOOSE h \in InUse : pc[h] = "handle" /\ target[h] = m]
<1>0. /\ cursor \in Int /\ cursor >= -1 /\ workSeq \in Int /\ InUse \subseteq Handlers
      /\ Cardinality(Handlers) \in Nat
  BY WiringFacts, FiniteHandlers, FS_CardinalityType DEF RingInv, Types, Positions
<1>1. ASSUME NEW m \in Ahead
      PROVE  \E h \in InUse : pc[h] = "handle" /\ target[h] = m
  <2>1. m \in 0 .. workSeq /\ m > cursor /\ m \in Int
    BY <1>0
  <2>2. PICK h \in InUse : \/ \E i \in DOMAIN handled[h] : handled[h][i] = m
                           \/ pc[h] = "handle" /\ target[h] = m
    BY <2>1 DEF RingInv, PoolInv, Covered
  <2>3. \A i \in DOMAIN handled[h] : handled[h][i] \in 0 .. cursor
    BY <1>0 DEF Bounds
  <2> QED
    BY <1>0, <2>1, <2>2, <2>3
<1>2. \A m \in Ahead : Owner[m] \in InUse /\ target[Owner[m]] = m
  BY <1>1
<1>3. Owner \in Injection(Ahead, Handlers)
  <2>1. Owner \in [Ahead -> Handlers]
    BY <1>0, <1>2
  <2>2. \A m, n \in Ahead : Owner[m] = Owner[n] => m = n
    BY <1>2
  <2> HIDE DEF Owner, Ahead
  <2> QED
    BY <2>1, <2>2 DEF Injection, IsInjective
<1>4. Cardinality(Ahead) <= Cardinality(Handlers)
  <2> HIDE DEF Owner, Ahead
  <2> QED
    BY <1>3, FiniteHandlers, FS_Injection
<1>5. Cardinality(Ahead) = IF cursor + 1 > workSeq THEN 0 ELSE workSeq - (cursor + 1) + 1
  BY <1>0, FS_Interval
<1> HIDE DEF Ahead
<1> QED
  BY <1>0, <1>4, <1>5

\* Claims and what the slots hold end with the last message; a worker's sequence
\* passes it by the number of workers at most, each waiting for one that never comes.
THEOREM RingTyped == Spec => []TypeOK
<1>1. ASSUME RingInv, Bounds PROVE TypeOK
  <2>1. /\ messages \in Nat /\ Cardinality(Handlers) \in Nat
        /\ cursor \in Int /\ cursor >= -1 /\ claimed \in Int /\ claimed >= -1
        /\ cursor <= claimed /\ claimed <= messages - 1
        /\ workSeq \in Int /\ workSeq >= -1
    BY <1>1, RingSize, FiniteHandlers, FS_CardinalityType
       DEF RingInv, Types, Positions, Claims, Bounds
  <2>2. /\ WorkerPool => workSeq <= cursor + Cardinality(Handlers)
        /\ ~WorkerPool => workSeq = -1
    BY <1>1, WorkersAhead DEF Bounds
  <2>3. workSeq \in Numbers /\ workSeq + 1 <= messages + Cardinality(Handlers)
    BY <2>1, <2>2 DEF Numbers
  <2>4. ASSUME NEW h \in Handlers
        PROVE  /\ sequence[h] \in Numbers /\ target[h] \in Numbers /\ at[h] \in 0 .. messages
               /\ handled[h] \in Seq(0 .. messages - 1)
    <3>1. /\ sequence[h] \in Int /\ sequence[h] >= -1 /\ target[h] \in Int /\ target[h] >= -1
          /\ at[h] \in Nat /\ handled[h] \in Seq(Int)
      BY <1>1 DEF RingInv, Types, Positions
    <3>2. /\ at[h] <= messages
          /\ sequence[h] <= IF WorkerPool THEN workSeq ELSE cursor
          /\ target[h] <= IF WorkerPool THEN workSeq + 1 ELSE cursor
          /\ \A i \in DOMAIN handled[h] : handled[h][i] \in 0 .. cursor
      BY <1>1 DEF Bounds
    <3>3. handled[h] \in Seq(0 .. messages - 1)
      <4>1. \A i \in DOMAIN handled[h] : handled[h][i] \in 0 .. messages - 1
        BY <2>1, <3>2
      <4> QED
        BY <3>1, <4>1, ValuesIn
    <3> QED
      BY <2>1, <2>3, <3>1, <3>2, <3>3, SMTT(30) DEF Numbers
  <2>5. claimed \in -1 .. messages - 1 /\ cursor \in -1 .. messages - 1
    BY <2>1
  <2>6. /\ sequence \in [Handlers -> Numbers] /\ target \in [Handlers -> Numbers]
        /\ at \in [Handlers -> 0 .. messages]
    BY <1>1, <2>4 DEF RingInv, Types
  <2> QED
    BY <1>1, <2>3, <2>4, <2>5, <2>6 DEF RingInv, Types, Bounds, TypeOK
<1>2. RingInv /\ Bounds /\ [Next]_vars => RingInv' /\ Bounds'
  BY RingStep, BoundsStep
<1> QED
  BY <1>1, <1>2, RingInit, BoundsInit, PTL DEF Spec
=============================================================================
