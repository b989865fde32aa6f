------------------------- MODULE TxnCoordinatorProofs -------------------------
(***************************************************************************)
(* Theorems about TxnCoordinator, for any number of tasks, pool threads,   *)
(* queue slots and connections and any set of faults.                      *)
(***************************************************************************)
EXTENDS TxnCoordinator, FiniteSetTheorems, TLAPS

(***************************************************************************)
(* The inductive invariant, by parts.                                      *)
(***************************************************************************)

\* A task the caller has not handed over has not started.
UnsentAreNew == \A t \in Tasks : t > sent => pc[t] = "new"

\* Past the business code or the skip, a task ended normally or the flag is down.
CountedOk ==
  \A t \in Tasks :
    pc[t] \notin {"new", "queued", "check", "begin", "handle", "died"} =>
      handled[t] = "ok" \/ ~submit

\* A task rolls back only because the flag is down.
RollbackMeansAbort == \A t \in Tasks : ChoseRollback(t) => ~submit

\* The caller goes past its check with the flag down or every task counted.
ReleasedComplete ==
  mainPc \in {"release", "answer", "returned"} => ~submit \/ Uncounted = {}

\* Only the normal path of the caller opens mainTask.
OpenedByCaller == mainTask = 0 => mainPc \in {"answer", "returned"}

\* A true answer is still the flag's value.
TrueStands == mainPc = "returned" /\ ret = "true" => submit

\* A task that waited for the caller decides after the caller has released it.
WaitedForCaller ==
  \A t \in Tasks \ gaveUp :
    pc[t] \in {"decide", "commit", "rollback"} => mainTask = 0

\* A commit decided by a task that waited for the caller is final.
CommitFinal ==
  \A t \in Tasks \ gaveUp : ChoseCommit(t) => submit /\ mainTask = 0

\* What the position of a task says about its transaction and its result.
Placed ==
  \A t \in Tasks :
    /\ pc[t] \in {"new", "queued", "check", "skip", "begin"} =>
         txn[t] = "none" /\ handled[t] = "no"
    /\ pc[t] = "handle" => txn[t] = "open" /\ handled[t] = "no"
    /\ pc[t] \in {"count", "wait", "decide", "commit", "rollback"} =>
         txn[t] = "open" /\ handled[t] # "no"

IInv ==
  /\ TypeOK
  /\ UnsentAreNew
  /\ LatchCounts
  /\ CountedOk
  /\ RollbackMeansAbort
  /\ ReleasedComplete
  /\ OpenedByCaller
  /\ TrueStands
  /\ WaitedForCaller
  /\ CommitFinal
  /\ Placed

-----------------------------------------------------------------------------
\* The set of tasks that have not counted down is finite, so its cardinality
\* is a number and is zero only for the empty set (line 96).
LEMMA UncountedFinite ==
  /\ IsFiniteSet(Tasks) /\ Cardinality(Tasks) = NTasks
  /\ IsFiniteSet(Uncounted)
  /\ Cardinality(Uncounted) \in Nat
  /\ Cardinality(Uncounted) = 0 <=> Uncounted = {}
<1>1. IsFiniteSet(Tasks) /\ Cardinality(Tasks) = NTasks
  BY FS_Interval, NTasksAssumption DEF Tasks
<1>2. IsFiniteSet(Uncounted)
  BY <1>1, FS_Subset DEF Uncounted
<1> QED
  BY <1>1, <1>2, FS_CardinalityType, FS_EmptySet

\* Init establishes the invariant.
LEMMA InitIInv == Init => IInv
<1> SUFFICES ASSUME Init PROVE IInv
  OBVIOUS
<1>1. TypeOK
  BY NTasksAssumption DEF Init, TypeOK, TaskPcs, MainPcs, TxnStates, Tasks
<1>2. Uncounted = Tasks
  BY DEF Init, Uncounted
<1>3. LatchCounts
  BY <1>2, UncountedFinite DEF Init, LatchCounts
<1> QED
  BY <1>1, <1>3 DEF Init, IInv, UnsentAreNew, CountedOk, RollbackMeansAbort,
     ReleasedComplete, OpenedByCaller, TrueStands, WaitedForCaller, CommitFinal,
     Placed, ChoseCommit, ChoseRollback

-----------------------------------------------------------------------------
\* The definitions every step lemma opens.
USE DEF TypeOK, TaskPcs, MainPcs, TxnStates, Go, taskVars, mainVars

\* Submit hands over a new task or leaves by exception (lines 50-51).
LEMMA SubmitStep == IInv /\ Submit => IInv'
<1> SUFFICES ASSUME IInv, Submit PROVE IInv'
  OBVIOUS
<1> USE NTasksAssumption, PoolAssumption DEF IInv
<1>1. sent + 1 \in Tasks
  BY DEF Submit, Tasks
<1>2. pc[sent + 1] = "new"
  BY <1>1 DEF UnsentAreNew, Tasks
<1>3. TypeOK'
  BY <1>1 DEF Submit
<1>4. UnsentAreNew'
  BY <1>1, <1>2 DEF Submit, UnsentAreNew, Tasks
<1>5. Uncounted' = Uncounted
  BY <1>1, <1>2 DEF Submit, Uncounted
<1>6. LatchCounts'
  BY <1>5 DEF Submit, LatchCounts
<1>7. CountedOk'
  BY <1>1, <1>2 DEF Submit, CountedOk
<1>8. RollbackMeansAbort' /\ CommitFinal'
  BY <1>1, <1>2 DEF Submit, RollbackMeansAbort, CommitFinal, ChoseRollback, ChoseCommit
<1>9. ReleasedComplete' /\ OpenedByCaller' /\ TrueStands'
  BY DEF Submit, ReleasedComplete, OpenedByCaller, TrueStands
<1>10. WaitedForCaller'
  BY <1>1, <1>2 DEF Submit, WaitedForCaller
<1>11. Placed'
  BY <1>1, <1>2 DEF Submit, Placed
<1> QED
  BY <1>3, <1>4, <1>6, <1>7, <1>8, <1>9, <1>10, <1>11

\* The other steps of the caller move no task (lines 93-107).
LEMMA CallerStep ==
  ASSUME IInv, Submitted \/ Await \/ GetCount \/ Abort \/ Release \/ Answer
  PROVE  IInv'
<1> USE DEF IInv
<1>1. UNCHANGED <<pc, txn, handled, gaveUp, sent, subTask>>
  BY DEF Submitted, Await, GetCount, Abort, Release, Answer
<1>2. TypeOK'
  <2>1. mainPc' \in MainPcs
    BY DEF Submitted, Await, GetCount, Abort, Release, Answer
  <2>2. mainTask' \in 0 .. 1 /\ submit' \in BOOLEAN
    <3>1. mainTask' \in {mainTask, 0}
      BY DEF Submitted, Await, GetCount, Abort, Release, Answer
    <3>2. submit' \in {submit, FALSE}
      BY DEF Submitted, Await, GetCount, Abort, Release, Answer
    <3>3. mainTask' \in 0 .. 1
      BY <3>1
    <3>4. submit' \in BOOLEAN
      BY <3>2
    <3> QED
      BY <3>3, <3>4
  <2>3. ret' \in {"none", "true", "false", "exception"}
    BY DEF Submitted, Await, GetCount, Abort, Release, Answer
  <2> QED
    BY <1>1, <2>1, <2>2, <2>3
<1>3. UnsentAreNew' /\ LatchCounts' /\ Placed'
  BY <1>1 DEF UnsentAreNew, LatchCounts, Uncounted, Placed
<1>4. ~submit => ~submit'
  BY DEF Submitted, Await, GetCount, Abort, Release, Answer
<1>5. CountedOk' /\ RollbackMeansAbort'
  BY <1>1, <1>4 DEF CountedOk, RollbackMeansAbort, ChoseRollback
<1>6. ReleasedComplete'
  <2>1. Uncounted' = Uncounted
    BY <1>1 DEF Uncounted
  <2>2. CASE GetCount
    <3>1. subTask = 0 => Uncounted = {}
      BY UncountedFinite DEF LatchCounts
    <3> QED
      BY <2>1, <2>2, <3>1 DEF GetCount, ReleasedComplete, Tasks
  <2>3. CASE Submitted \/ Await \/ Abort \/ Release \/ Answer
    BY <2>1, <2>3 DEF Submitted, Await, Abort, Release, Answer, ReleasedComplete
  <2> QED
    BY <2>2, <2>3
<1>7. OpenedByCaller' /\ TrueStands'
  BY DEF Submitted, Await, GetCount, Abort, Release, Answer, OpenedByCaller, TrueStands
<1>8. mainTask = 0 => mainTask' = 0 /\ submit' = submit
  BY DEF Submitted, Await, GetCount, Abort, Release, Answer, OpenedByCaller
<1>9. WaitedForCaller' /\ CommitFinal'
  BY <1>1, <1>8 DEF WaitedForCaller, CommitFinal, ChoseCommit
<1> QED
  BY <1>2, <1>3, <1>5, <1>6, <1>7, <1>9

\* A task that passes a countDown leaves Uncounted, and the latch follows it
\* (lines 54 and 77).
LEMMA LatchFollows ==
  ASSUME NEW t \in Uncounted, TypeOK, LatchCounts,
         Uncounted' = Uncounted \ {t}, subTask' = subTask - 1
  PROVE  LatchCounts' /\ subTask' \in 0 .. NTasks
<1>1. Cardinality(Uncounted') = Cardinality(Uncounted) - 1
  BY UncountedFinite, FS_RemoveElement
<1>2. Cardinality(Uncounted) # 0
  BY UncountedFinite
<1> QED
  BY <1>1, <1>2, UncountedFinite, NTasksAssumption DEF LatchCounts

\* Steps of a task before its business code: take, check, begin.
LEMMA EarlyStep ==
  ASSUME IInv, NEW t \in Tasks, TakeQueued(t) \/ Check(t) \/ Begin(t)
  PROVE  IInv'
<1> USE DEF IInv
<1>1. pc[t] \in {"queued", "check", "begin"}
  BY DEF TakeQueued, Check, Begin, Queued
<1>2. PICK p \in {"check", "skip", "begin", "handle", "died"} :
        /\ pc' = [pc EXCEPT ![t] = p]
        /\ p = "skip" => ~submit
        /\ p \in {"check", "skip", "begin"} => txn' = txn
        /\ p = "handle" => txn' = [txn EXCEPT ![t] = "open"]
        /\ p = "died" => txn' = txn
  BY DEF TakeQueued, Check, Begin
<1>3. UNCHANGED <<handled, gaveUp, mainVars, subTask, mainTask, submit>>
  BY DEF TakeQueued, Check, Begin
<1>4. TypeOK'
  BY <1>2, <1>3
<1>5. UnsentAreNew'
  BY <1>1, <1>2, <1>3 DEF UnsentAreNew
<1>6. Uncounted' = Uncounted
  BY <1>1, <1>2 DEF Uncounted
<1>7. LatchCounts' /\ ReleasedComplete' /\ OpenedByCaller' /\ TrueStands'
  BY <1>3, <1>6 DEF LatchCounts, ReleasedComplete, OpenedByCaller, TrueStands
<1>8. CountedOk'
  BY <1>1, <1>2, <1>3 DEF CountedOk
<1>9. RollbackMeansAbort' /\ CommitFinal'
  BY <1>1, <1>2, <1>3 DEF RollbackMeansAbort, CommitFinal, ChoseRollback, ChoseCommit
<1>10. WaitedForCaller'
  BY <1>1, <1>2, <1>3 DEF WaitedForCaller
<1>11. Placed'
  BY <1>1, <1>2, <1>3 DEF Placed
<1> QED
  BY <1>4, <1>5, <1>7, <1>8, <1>9, <1>10, <1>11

\* The flag is final once mainTask is open: a task still in its business code
\* then has the flag down already (lines 69-75 against 98-102).
LEMMA FlagFinal ==
  ASSUME IInv, NEW t \in Tasks, pc[t] = "handle", mainTask = 0
  PROVE  ~submit
BY DEF IInv, OpenedByCaller, ReleasedComplete, Uncounted

\* The business code ends (lines 69-75).
LEMMA HandleStep == ASSUME IInv, NEW t \in Tasks, Handle(t) PROVE IInv'
<1> USE DEF IInv
<1>1. pc[t] = "handle"
  BY DEF Handle
<1>2. PICK p \in {"count", "died"}, h \in {"ok", "threw"} :
        /\ pc' = [pc EXCEPT ![t] = p]
        /\ handled' = [handled EXCEPT ![t] = h]
        /\ submit' \in {submit, FALSE}
        /\ h = "ok" => submit' = submit /\ p = "count"
        /\ p = "count" /\ h = "threw" => submit' = FALSE
        /\ p = "died" => submit' = submit
  BY DEF Handle
<1>3. UNCHANGED <<txn, gaveUp, mainVars, subTask, mainTask>>
  BY DEF Handle
<1>4. mainTask = 0 => ~submit
  BY <1>1, FlagFinal
<1>5. TypeOK'
  BY <1>2, <1>3
<1>6. UnsentAreNew'
  BY <1>1, <1>2, <1>3 DEF UnsentAreNew
<1>7. Uncounted' = Uncounted
  BY <1>1, <1>2 DEF Uncounted
<1>8. LatchCounts' /\ ReleasedComplete' /\ OpenedByCaller'
  BY <1>2, <1>3, <1>7 DEF LatchCounts, ReleasedComplete, OpenedByCaller
<1>9. TrueStands'
  BY <1>1, <1>2, <1>3 DEF TrueStands, ReleasedComplete, Uncounted
<1>10. CountedOk'
  BY <1>1, <1>2, <1>3 DEF CountedOk
<1>11. RollbackMeansAbort'
  BY <1>1, <1>2, <1>3 DEF RollbackMeansAbort, ChoseRollback
<1>12. CommitFinal'
  BY <1>1, <1>2, <1>3, <1>4 DEF CommitFinal, ChoseCommit
<1>13. WaitedForCaller'
  BY <1>1, <1>2, <1>3 DEF WaitedForCaller
<1>14. Placed'
  BY <1>1, <1>2, <1>3 DEF Placed
<1> QED
  BY <1>5, <1>6, <1>8, <1>9, <1>10, <1>11, <1>12, <1>13, <1>14

\* The two ways past the latch subTask (lines 53-56 and 77).
LEMMA CountStep ==
  ASSUME IInv, NEW t \in Tasks, Skip(t) \/ CountDown(t)
  PROVE  IInv'
<1> USE DEF IInv
<1>1. PICK p \in {"done", "wait"} :
        /\ pc' = [pc EXCEPT ![t] = p]
        /\ p = "done" => pc[t] = "skip"
        /\ p = "wait" => pc[t] = "count"
  BY DEF Skip, CountDown
<1>2. UNCHANGED <<txn, handled, gaveUp, mainVars, mainTask, submit>>
  BY DEF Skip, CountDown
<1>3. t \in Uncounted /\ Uncounted' = Uncounted \ {t}
  BY <1>1 DEF Uncounted
<1>4. LatchCounts' /\ subTask' \in 0 .. NTasks
  BY <1>3, LatchFollows DEF Skip, CountDown
<1>5. TypeOK'
  BY <1>1, <1>2, <1>4
<1>6. UnsentAreNew' /\ OpenedByCaller' /\ TrueStands'
  BY <1>1, <1>2 DEF UnsentAreNew, OpenedByCaller, TrueStands
<1>7. ReleasedComplete'
  BY <1>2, <1>3 DEF ReleasedComplete
<1>8. CountedOk'
  BY <1>1, <1>2 DEF CountedOk
<1>9. RollbackMeansAbort' /\ CommitFinal'
  BY <1>1, <1>2 DEF RollbackMeansAbort, CommitFinal, ChoseRollback, ChoseCommit
<1>10. WaitedForCaller'
  BY <1>1, <1>2 DEF WaitedForCaller
<1>11. Placed'
  BY <1>1, <1>2 DEF Placed
<1> QED
  BY <1>4, <1>5, <1>6, <1>7, <1>8, <1>9, <1>10, <1>11

\* The steps after the count: wait, decide, commit, roll back (lines 78-89).
LEMMA LateStep ==
  ASSUME IInv, NEW t \in Tasks, Wait(t) \/ Decide(t) \/ Commit(t) \/ RollBack(t)
  PROVE  IInv'
<1> USE DEF IInv
<1>1. pc[t] \in {"wait", "decide", "commit", "rollback"}
  BY DEF Wait, Decide, Commit, RollBack
<1>2. PICK p \in {"decide", "commit", "rollback", "done"} :
        pc' = [pc EXCEPT ![t] = p]
  BY DEF Wait, Decide, Commit, RollBack
<1>3. UNCHANGED <<handled, mainVars, subTask, mainTask, submit>>
  BY DEF Wait, Decide, Commit, RollBack
<1>4. txn' = txn \/ \E x \in TxnStates \ {"none", "open"} : txn' = [txn EXCEPT ![t] = x]
  BY DEF Wait, Decide, Commit, RollBack
<1>5. gaveUp' \in {gaveUp, gaveUp \cup {t}}
  BY DEF Wait, Decide, Commit, RollBack
<1>6. TypeOK'
  <2>1. txn' \in [Tasks -> TxnStates]
    BY <1>4
  <2> QED
    BY <1>2, <1>3, <1>5, <2>1
<1>7. UnsentAreNew'
  BY <1>1, <1>2, <1>3 DEF UnsentAreNew
<1>8. Uncounted' = Uncounted
  BY <1>1, <1>2 DEF Uncounted
<1>9. LatchCounts' /\ ReleasedComplete' /\ OpenedByCaller' /\ TrueStands'
  BY <1>3, <1>8 DEF LatchCounts, ReleasedComplete, OpenedByCaller, TrueStands
<1>10. CountedOk'
  BY <1>1, <1>2, <1>3 DEF CountedOk
<1>11. RollbackMeansAbort'
  <2>1. ASSUME NEW u \in Tasks, ChoseRollback(u)'
        PROVE  ~submit
    <3>1. CASE u # t
      <4>1. ChoseRollback(u)
        BY <1>2, <1>4, <2>1, <3>1 DEF ChoseRollback
      <4> QED
        BY <4>1 DEF RollbackMeansAbort
    <3>2. CASE u = t /\ (Wait(t) \/ Commit(t))
      <4>1. ChoseRollback(t)
        BY <2>1, <3>2 DEF ChoseRollback, Wait, Commit
      <4> QED
        BY <4>1 DEF RollbackMeansAbort
    <3>3. CASE u = t /\ Decide(t)
      BY <2>1, <3>3 DEF ChoseRollback, Decide, RollbackMeansAbort, Placed
    <3>4. CASE u = t /\ RollBack(t)
      BY <3>4 DEF ChoseRollback, RollBack, RollbackMeansAbort
    <3> QED
      BY <3>1, <3>2, <3>3, <3>4
  <2> QED
    BY <1>3, <2>1 DEF RollbackMeansAbort
<1>12. WaitedForCaller'
  BY <1>1, <1>2, <1>3, <1>5 DEF WaitedForCaller, Wait, Decide, Commit, RollBack
<1>13. CommitFinal'
  <2>1. ASSUME NEW u \in Tasks \ gaveUp', ChoseCommit(u)'
        PROVE  submit /\ mainTask = 0
    <3>1. u \in Tasks \ gaveUp
      BY <1>5
    <3>2. CASE u # t
      <4>1. ChoseCommit(u)
        BY <1>2, <1>4, <2>1, <3>1, <3>2 DEF ChoseCommit
      <4> QED
        BY <3>1, <4>1 DEF CommitFinal
    <3>3. CASE u = t /\ (Wait(t) \/ Commit(t) \/ RollBack(t))
      <4>1. ChoseCommit(t)
        BY <2>1, <3>3 DEF ChoseCommit, Wait, Commit, RollBack, Placed
      <4> QED
        BY <3>1, <3>3, <4>1 DEF CommitFinal
    <3>4. CASE u = t /\ Decide(t)
      BY <2>1, <3>1, <3>4 DEF ChoseCommit, Decide, Placed, WaitedForCaller
    <3> QED
      BY <3>2, <3>3, <3>4
  <2> QED
    BY <1>3, <2>1 DEF CommitFinal
<1>14. Placed'
  BY <1>1, <1>2, <1>3, <1>4 DEF Placed, Wait, Decide, Commit, RollBack
<1> QED
  BY <1>6, <1>7, <1>9, <1>10, <1>11, <1>12, <1>13, <1>14

\* Every step keeps the invariant: one case per group of actions.
LEMMA NextIInv == IInv /\ [Next]_vars => IInv'
<1> SUFFICES ASSUME IInv, [Next]_vars PROVE IInv'
  OBVIOUS
<1>1. CASE MainStep
  BY <1>1, SubmitStep, CallerStep DEF MainStep
<1>2. ASSUME NEW t \in Tasks, TaskStep(t) PROVE IInv'
  BY <1>2, EarlyStep, HandleStep, CountStep, LateStep DEF TaskStep
<1>3. CASE UNCHANGED vars
  BY <1>3 DEF vars, IInv, UnsentAreNew, LatchCounts, Uncounted, CountedOk,
     RollbackMeansAbort, ChoseRollback, ReleasedComplete, OpenedByCaller,
     TrueStands, WaitedForCaller, CommitFinal, ChoseCommit, Placed
<1> QED
  BY <1>1, <1>2, <1>3 DEF Next, Finished

\* The inductive invariant holds in every reachable state.
THEOREM InductiveInvariant == Spec => []IInv
  BY InitIInv, NextIInv, PTL DEF Spec

\* Type correctness of execute's shared state, for any number of tasks.
THEOREM TypeCorrect == Spec => []TypeOK
<1>1. IInv => TypeOK
  BY DEF IInv
<1> QED
  BY <1>1, InductiveInvariant, PTL

\* The latch subTask always counts the tasks still to pass a countDown.
THEOREM LatchCorrect == Spec => []LatchCounts
<1>1. IInv => LatchCounts
  BY DEF IInv
<1> QED
  BY <1>1, InductiveInvariant, PTL

\* An answer true means that every task's business code ended normally and
\* that no task decides to roll back (lines 53, 69-77, 82-86, 96-103).
THEOREM TrueAnswer == Spec => []TrueMeansAllHandled
<1>1. IInv => TrueMeansAllHandled
  <2> SUFFICES ASSUME IInv, mainPc = "returned", ret = "true", NEW t \in Tasks
               PROVE  handled[t] = "ok" /\ ~ChoseRollback(t)
    BY DEF TrueMeansAllHandled
  <2>1. submit /\ Uncounted = {}
    BY DEF IInv, TrueStands, ReleasedComplete
  <2>2. handled[t] = "ok"
    BY <2>1 DEF IInv, CountedOk, Uncounted
  <2> QED
    BY <2>1, <2>2 DEF IInv, RollbackMeansAbort
<1> QED
  BY <1>1, InductiveInvariant, PTL

\* A partial commit needs a task whose wait for the caller ended by itself:
\* without a timeout at line 80 the tasks decide alike.
THEOREM PartialOnlyByTimeout == Spec => []MixedOnlyByTimeout
<1>1. IInv => MixedOnlyByTimeout
  BY DEF IInv, MixedOnlyByTimeout, CommitFinal, RollbackMeansAbort
<1> QED
  BY <1>1, InductiveInvariant, PTL

\* After the caller has opened mainTask the flag never changes (line 102): the
\* verdict every released task reads is one and the same.
THEOREM VerdictFinal == Spec => VerdictStable
<1>1. IInv /\ [Next]_vars => (mainTask = 0 => submit' = submit)
  <2> SUFFICES ASSUME IInv, [Next]_vars, mainTask = 0
               PROVE  submit' = submit
    OBVIOUS
  <2>1. mainPc \in {"answer", "returned"}
    BY DEF IInv, OpenedByCaller
  <2>2. CASE MainStep
    BY <2>1, <2>2 DEF MainStep, Submit, Submitted, Await, GetCount, Abort, Release, Answer
  <2>3. ASSUME NEW t \in Tasks, TaskStep(t) PROVE submit' = submit
    <3>1. CASE Handle(t)
      <4>1. pc[t] = "handle"
        BY <3>1 DEF Handle
      <4>2. ~submit
        BY <4>1, FlagFinal
      <4>3. submit' = submit \/ submit' = FALSE
        BY <3>1 DEF Handle
      <4> QED
        BY <4>2, <4>3 DEF IInv
    <3>2. CASE ~Handle(t)
      BY <2>3, <3>2 DEF TaskStep, TakeQueued, Check, Skip, Begin, CountDown, Wait,
         Decide, Commit, RollBack
    <3> QED
      BY <3>1, <3>2
  <2> QED
    BY <2>2, <2>3 DEF Next, Finished, vars
<1> QED
  BY <1>1, InductiveInvariant, PTL DEF Spec, VerdictStable

-----------------------------------------------------------------------------
(***************************************************************************)
(* The call implements CommitPromise: each step is a step of the promise   *)
(* or leaves its three variables alone.                                    *)
(***************************************************************************)

\* A task that has not decided has made no choice (lines 50-80).
LEMMA Undecided ==
  ASSUME IInv, NEW t \in Tasks,
         pc[t] \in {"new", "queued", "check", "skip", "begin", "handle", "count",
                   "wait", "decide"}
  PROVE  Choice[t] = "none" /\ ~ChoseCommit(t) /\ ~ChoseRollback(t)
BY DEF IInv, Placed, Choice, ChoseCommit, ChoseRollback

\* A step of one task that leaves its decision alone leaves Choice alone.
LEMMA SameChoice ==
  ASSUME \A u \in Tasks : (ChoseCommit(u)' <=> ChoseCommit(u))
                          /\ (ChoseRollback(u)' <=> ChoseRollback(u))
  PROVE  Choice' = Choice
BY DEF Choice

\* The caller's steps: only clearing the flag and opening mainTask are visible.
LEMMA CallerRefines ==
  ASSUME IInv, MainStep PROVE [Promise!PromiseNext]_(Promise!pvars)
<1> USE DEF IInv, Promise!pvars
<1>1. Ready' = Ready
  BY DEF MainStep, Submit, Submitted, Await, GetCount, Abort, Release, Answer, Ready
<1>2. Choice' = Choice
  <2>1. CASE Submit
    <3>1. sent + 1 \in Tasks /\ pc[sent + 1] = "new"
      BY <2>1, NTasksAssumption DEF Submit, Tasks, UnsentAreNew
    <3>2. \A u \in Tasks : pc'[u] # pc[u] => pc[u] = "new" /\ pc'[u] \in {"check", "queued"}
      BY <2>1, <3>1 DEF Submit
    <3>3. txn' = txn
      BY <2>1 DEF Submit
    <3> QED
      BY <3>2, <3>3, SameChoice DEF ChoseCommit, ChoseRollback
  <2>2. CASE ~Submit
    <3>1. pc' = pc /\ txn' = txn
      BY <2>2 DEF MainStep, Submitted, Await, GetCount, Abort, Release, Answer
    <3> QED
      BY <3>1, SameChoice DEF ChoseCommit, ChoseRollback
  <2> QED
    BY <2>1, <2>2
<1>3. CASE Abort
  <2>1. mainTask # 0 /\ submit' = FALSE
    BY <1>3 DEF Abort, OpenedByCaller
  <2> QED
    BY <1>1, <1>2, <2>1 DEF Verdict, Promise!PromiseNext, Promise!DeclareAbort
<1>4. CASE Release
  <2>1. submit' = submit /\ mainTask' = 0 /\ mainTask # 0
    BY <1>4 DEF Release, OpenedByCaller
  <2>2. ASSUME submit PROVE Ready = Tasks
    BY <1>4, <2>2 DEF Release, ReleasedComplete, CountedOk, Uncounted, Ready
  <2> QED
    BY <1>1, <1>2, <2>1, <2>2 DEF Verdict, Promise!PromiseNext, Promise!DeclareCommit
<1>5. CASE Submit \/ Submitted \/ Await \/ GetCount \/ Answer
  BY <1>1, <1>2, <1>5 DEF Verdict, Submit, Submitted, Await, GetCount, Answer
<1> QED
  BY <1>3, <1>4, <1>5 DEF MainStep

\* The tasks' steps: the end of the business code and the decision are visible.
LEMMA TaskRefines ==
  ASSUME IInv, NEW t \in Tasks, TaskStep(t)
  PROVE  [Promise!PromiseNext]_(Promise!pvars)
<1> USE DEF IInv, Promise!pvars
<1>1. CASE Handle(t)
  <2>1. pc[t] = "handle" /\ handled[t] = "no" /\ Choice[t] = "none"
    BY <1>1, Undecided DEF Handle, Placed
  <2>2. Choice' = Choice
    <3>1. txn' = txn /\ pc[t] = "handle"
      BY <1>1 DEF Handle
    <3>2. pc'[t] \in {"count", "died"} /\ \A u \in Tasks \ {t} : pc'[u] = pc[u]
      BY <1>1 DEF Handle
    <3> QED
      BY <3>1, <3>2, SameChoice DEF ChoseCommit, ChoseRollback
  <2>3. CASE handled' = [handled EXCEPT ![t] = "ok"]
    <3>1. Ready' = Ready \cup {t} /\ t \notin Ready
      BY <2>1, <2>3 DEF Ready
    <3>2. submit' = submit /\ mainTask' = mainTask
      BY <1>1, <2>3 DEF Handle
    <3>3. Verdict' = Verdict
      BY <3>2 DEF Verdict
    <3> QED
      BY <2>1, <2>2, <3>1, <3>3 DEF Promise!PromiseNext, Promise!Prepare
  <2>4. CASE handled' = [handled EXCEPT ![t] = "threw"]
    <3>1. Ready' = Ready
      BY <2>1, <2>4 DEF Ready
    <3>2. mainTask' = mainTask /\ (submit' = submit \/ submit' = FALSE)
      BY <1>1 DEF Handle
    <3>3. mainTask = 0 => ~submit
      BY <2>1, FlagFinal
    <3>4. Verdict' = Verdict \/ (Verdict = "pending" /\ Verdict' = "abort")
      BY <3>2, <3>3 DEF Verdict
    <3> QED
      BY <2>2, <3>1, <3>4 DEF Promise!PromiseNext, Promise!DeclareAbort
  <2> QED
    BY <1>1, <2>3, <2>4 DEF Handle
<1>2. CASE Decide(t)
  <2>1. pc[t] = "decide" /\ Choice[t] = "none" /\ txn[t] = "open"
    BY <1>2, Undecided DEF Decide, Placed
  <2>2. Ready' = Ready /\ Verdict' = Verdict
    BY <1>2 DEF Decide, Ready, Verdict
  <2>3. Choice' = [Choice EXCEPT ![t] = IF submit THEN "commit" ELSE "rollback"]
    <3>1. txn' = txn /\ pc' = [pc EXCEPT ![t] = IF submit THEN "commit" ELSE "rollback"]
      BY <1>2 DEF Decide
    <3>2. \A u \in Tasks \ {t} : (ChoseCommit(u)' <=> ChoseCommit(u))
                                /\ (ChoseRollback(u)' <=> ChoseRollback(u))
      BY <3>1 DEF ChoseCommit, ChoseRollback
    <3>3. submit => ChoseCommit(t)'
      BY <3>1 DEF ChoseCommit
    <3>4. ~submit => ~ChoseCommit(t)' /\ ChoseRollback(t)'
      BY <2>1, <3>1 DEF ChoseCommit, ChoseRollback
    <3> QED
      BY <3>2, <3>3, <3>4 DEF Choice
  <2>4. CASE submit
    <3>1. t \in Ready /\ Verdict # "abort"
      BY <2>1, <2>4 DEF CountedOk, Ready, Verdict
    <3> QED
      BY <2>1, <2>2, <2>3, <2>4, <3>1 DEF Promise!PromiseNext, Promise!ChooseCommit
  <2>5. CASE ~submit
    BY <2>1, <2>2, <2>3, <2>5 DEF Verdict, Promise!PromiseNext, Promise!ChooseRollback
  <2> QED
    BY <2>4, <2>5
<1>3. CASE ~Handle(t) /\ ~Decide(t)
  <2>1. UNCHANGED <<handled, submit, mainTask>>
    BY <1>3 DEF TaskStep, TakeQueued, Check, Skip, Begin, CountDown, Wait, Commit, RollBack
  <2>2. Ready' = Ready /\ Verdict' = Verdict
    BY <2>1 DEF Ready, Verdict
  <2>3. \A u \in Tasks \ {t} : pc'[u] = pc[u] /\ txn'[u] = txn[u]
    BY <1>3 DEF TaskStep, TakeQueued, Check, Skip, Begin, CountDown, Wait, Commit, RollBack
  <2>4. (ChoseCommit(t)' <=> ChoseCommit(t)) /\ (ChoseRollback(t)' <=> ChoseRollback(t))
    <3>1. CASE TakeQueued(t) \/ Check(t) \/ Skip(t) \/ Begin(t) \/ CountDown(t) \/ Wait(t)
      <4>1. ~ChoseCommit(t) /\ ~ChoseRollback(t)
        BY <3>1, Undecided DEF TakeQueued, Queued, Check, Skip, Begin, CountDown, Wait
      <4>2. pc'[t] \notin {"commit", "rollback"} /\ txn'[t] \in {txn[t], "open"}
        BY <3>1 DEF TakeQueued, Check, Skip, Begin, CountDown, Wait
      <4> QED
        BY <4>1, <4>2 DEF ChoseCommit, ChoseRollback
    <3>2. CASE Commit(t)
      BY <3>2 DEF Commit, Placed, ChoseCommit, ChoseRollback
    <3>3. CASE RollBack(t)
      BY <3>3 DEF RollBack, Placed, ChoseCommit, ChoseRollback
    <3> QED
      BY <1>3, <3>1, <3>2, <3>3 DEF TaskStep
  <2>5. Choice' = Choice
    <3>1. \A u \in Tasks : (ChoseCommit(u)' <=> ChoseCommit(u))
                           /\ (ChoseRollback(u)' <=> ChoseRollback(u))
      BY <2>3, <2>4 DEF ChoseCommit, ChoseRollback
    <3> QED
      BY <3>1, SameChoice
  <2> QED
    BY <2>2, <2>5
<1> QED
  BY <1>1, <1>2, <1>3

\* The multi-thread commit implements its abstract promise: a rollback only
\* under an aborted verdict, a verdict given once, and a committed verdict only
\* with every task ready.
THEOREM RefinesPromise == Spec => KeepsPromise
<1>1. Init => Promise!PromiseInit
  BY DEF Init, Promise!PromiseInit, Ready, Choice, Verdict, ChoseCommit, ChoseRollback
<1>2. IInv /\ [Next]_vars => [Promise!PromiseNext]_(Promise!pvars)
  <2> SUFFICES ASSUME IInv, [Next]_vars PROVE [Promise!PromiseNext]_(Promise!pvars)
    OBVIOUS
  <2>1. CASE UNCHANGED vars
    BY <2>1 DEF vars, Promise!pvars, Ready, Choice, Verdict, ChoseCommit, ChoseRollback
  <2> QED
    BY <2>1, CallerRefines, TaskRefines DEF Next, Finished
<1> QED
  BY <1>1, <1>2, InductiveInvariant, PTL DEF Spec, KeepsPromise, Promise!PromiseSpec
=============================================================================
