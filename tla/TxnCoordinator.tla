--------------------------- MODULE TxnCoordinator ---------------------------
(***************************************************************************)
(* One call of TransactionManagerUtil.execute: a caller thread hands       *)
(* tasks to a thread pool; every pool thread opens a transaction of its    *)
(* own, runs the business code, counts the latch subTask down, waits for   *)
(* the caller on the latch mainTask and then commits or rolls back by the  *)
(* shared flag submit.                                                     *)
(*                                                                         *)
(* Java's blocking calls are split where another thread can be observed:   *)
(* reading the flag and acting on it are two steps.  Both awaits carry a   *)
(* timeout whose result the code ignores, so a timeout is an ordinary      *)
(* step here.  The pool is the one of ThreadUtil.getExecutorService (a     *)
(* fixed number of threads and a bounded queue, rejecting by exception);   *)
(* the database pool is external: a number of connections, one per         *)
(* transaction, and an acquisition that may fail.                          *)
(***************************************************************************)
EXTENDS Integers, FiniteSets

CONSTANTS
  NTasks,       \* tasks.size()
  PoolThreads,  \* threads of the executor (8 in ThreadUtil)
  QueueCap,     \* capacity of the executor's queue (1000 in ThreadUtil)
  Conns,        \* connections of the database pool
  CallerConns,  \* connections the caller's own transaction keeps (0 or 1)
  Faults        \* the kinds of fault that may happen

FaultKinds ==
  {"begin", "handle", "error", "commit", "rollback", "timeout", "interrupt"}

ASSUME NTasksAssumption == NTasks \in Nat
ASSUME PoolAssumption ==
  /\ PoolThreads \in Nat \ {0}
  /\ QueueCap \in Nat
  /\ Conns \in Nat
  /\ CallerConns \in {0, 1}
ASSUME FaultsAssumption == Faults \subseteq FaultKinds

Tasks == 1 .. NTasks

VARIABLES
  pc,         \* where each task is
  txn,        \* its transaction
  handled,    \* how its business code ended
  mainPc,     \* where the caller is
  sent,       \* tasks the caller has handed to the pool
  subTask,    \* count of the latch subTask
  mainTask,   \* count of the latch mainTask
  submit,     \* the shared flag
  ret,        \* what execute gave back
  gaveUp      \* history: tasks whose wait ended without the caller

vars == <<pc, txn, handled, mainPc, sent, subTask, mainTask, submit, ret,
          gaveUp>>
taskVars == <<pc, txn, handled, gaveUp>>
mainVars == <<mainPc, sent, ret>>

TaskPcs == {"new", "queued", "check", "skip", "begin", "handle", "count",
            "wait", "decide", "commit", "rollback", "done", "died"}
TxnStates == {"none", "open", "committed", "commitFailed", "rolledBack",
              "rollbackFailed"}
MainPcs == {"submit", "await", "getCount", "abort", "release", "answer",
            "caught", "returned", "recovered", "rejected"}

TypeOK ==
  /\ pc \in [Tasks -> TaskPcs]
  /\ txn \in [Tasks -> TxnStates]
  /\ handled \in [Tasks -> {"no", "ok", "threw"}]
  /\ mainPc \in MainPcs
  /\ sent \in 0 .. NTasks
  /\ subTask \in 0 .. NTasks
  /\ mainTask \in 0 .. 1
  /\ submit \in BOOLEAN
  /\ ret \in {"none", "true", "false", "exception"}
  /\ gaveUp \subseteq Tasks

\* Variant: the latch subTask is created one short.
InitLatchShort ==
  /\ pc = [t \in Tasks |-> "new"]
  /\ txn = [t \in Tasks |-> "none"]
  /\ handled = [t \in Tasks |-> "no"]
  /\ mainPc = "submit"
  /\ sent = 0
  /\ subTask = NTasks - 1
  /\ mainTask = 1
  /\ submit = TRUE
  /\ ret = "none"
  /\ gaveUp = {}

Init ==
  /\ pc = [t \in Tasks |-> "new"]
  /\ txn = [t \in Tasks |-> "none"]
  /\ handled = [t \in Tasks |-> "no"]
  /\ mainPc = "submit"
  /\ sent = 0
  /\ subTask = NTasks
  /\ mainTask = 1
  /\ submit = TRUE
  /\ ret = "none"
  /\ gaveUp = {}

-----------------------------------------------------------------------------
(* The executor and the connection pool (java.util.concurrent and the      *)
(* data source are external; their bounds decide who blocks).              *)

Queued == {t \in Tasks : pc[t] = "queued"}
Running == {t \in Tasks : pc[t] \notin {"new", "queued", "done", "died"}}
OpenTxns == {t \in Tasks : txn[t] = "open"}
MainEnded == mainPc \in {"returned", "recovered", "rejected"}
ConnsInUse == Cardinality(OpenTxns) + (IF MainEnded THEN 0 ELSE CallerConns)

Go(t, to) == pc' = [pc EXCEPT ![t] = to]

\* executor.execute: a new thread below the pool size, else the queue, else
\* RejectedExecutionException, which leaves execute through forEach.
Submit ==
  /\ mainPc = "submit"
  /\ sent < NTasks
  /\ \/ /\ sent < PoolThreads
        /\ Go(sent + 1, "check")
        /\ sent' = sent + 1
        /\ UNCHANGED <<mainPc, ret>>
     \/ /\ sent >= PoolThreads
        /\ Cardinality(Queued) < QueueCap
        /\ Go(sent + 1, "queued")
        /\ sent' = sent + 1
        /\ UNCHANGED <<mainPc, ret>>
     \/ /\ sent >= PoolThreads
        /\ Cardinality(Queued) >= QueueCap
        /\ mainPc' = "rejected"
        /\ ret' = "exception"
        /\ UNCHANGED <<pc, sent>>
  /\ UNCHANGED <<txn, handled, subTask, mainTask, submit, gaveUp>>

\* A free pool thread takes the head of the queue (tasks are queued in order).
TakeQueued(t) ==
  /\ t \in Queued
  /\ \A u \in Queued : t <= u
  /\ Cardinality(Running) < PoolThreads
  /\ Go(t, "check")
  /\ UNCHANGED <<txn, handled, gaveUp, mainVars, subTask, mainTask, submit>>

-----------------------------------------------------------------------------
(* One task on its pool thread.                                            *)

Check(t) ==
  /\ pc[t] = "check"
  /\ Go(t, IF submit THEN "begin" ELSE "skip")
  /\ UNCHANGED <<txn, handled, gaveUp, mainVars, subTask, mainTask, submit>>

Skip(t) ==
  /\ pc[t] = "skip"
  /\ subTask' = subTask - 1
  /\ Go(t, "done")
  /\ UNCHANGED <<txn, handled, gaveUp, mainVars, mainTask, submit>>

\* getTransaction stands outside the try: when it throws, the thread's
\* runnable ends without counting down and without clearing the flag.
Begin(t) ==
  /\ pc[t] = "begin"
  /\ \/ /\ ConnsInUse < Conns
        /\ txn' = [txn EXCEPT ![t] = "open"]
        /\ Go(t, "handle")
     \/ /\ "begin" \in Faults
        /\ Go(t, "died")
        /\ UNCHANGED txn
  /\ UNCHANGED <<handled, gaveUp, mainVars, subTask, mainTask, submit>>

\* Variant: the exception of the business code is only logged.
HandleKeepsFlag(t) ==
  /\ pc[t] = "handle"
  /\ \E r \in {"ok", "threw"} : handled' = [handled EXCEPT ![t] = r]
  /\ Go(t, "count")
  /\ UNCHANGED <<txn, submit, gaveUp, mainVars, subTask, mainTask>>

\* catch (Exception) clears the flag; an Error is not caught and kills the
\* runnable with its transaction open.
Handle(t) ==
  /\ pc[t] = "handle"
  /\ \/ /\ handled' = [handled EXCEPT ![t] = "ok"]
        /\ Go(t, "count")
        /\ UNCHANGED submit
     \/ /\ "handle" \in Faults
        /\ handled' = [handled EXCEPT ![t] = "threw"]
        /\ submit' = FALSE
        /\ Go(t, "count")
     \/ /\ "error" \in Faults
        /\ handled' = [handled EXCEPT ![t] = "threw"]
        /\ Go(t, "died")
        /\ UNCHANGED submit
  /\ UNCHANGED <<txn, gaveUp, mainVars, subTask, mainTask>>

CountDown(t) ==
  /\ pc[t] = "count"
  /\ subTask' = subTask - 1
  /\ Go(t, "wait")
  /\ UNCHANGED <<txn, handled, gaveUp, mainVars, mainTask, submit>>

\* Variant: mainTask.await() without a timeout.
WaitForever(t) ==
  /\ pc[t] = "wait"
  /\ mainTask = 0
  /\ Go(t, "decide")
  /\ UNCHANGED <<txn, handled, gaveUp, mainVars, subTask, mainTask, submit>>

\* mainTask.await(timeout, unit): its boolean result is not looked at.  An
\* interrupt is caught and logged; nothing ends the transaction then.
Wait(t) ==
  /\ pc[t] = "wait"
  /\ \/ /\ mainTask = 0
        /\ Go(t, "decide")
        /\ UNCHANGED gaveUp
     \/ /\ "timeout" \in Faults
        /\ Go(t, "decide")
        /\ gaveUp' = gaveUp \cup {t}
     \/ /\ "interrupt" \in Faults
        /\ Go(t, "done")
        /\ gaveUp' = gaveUp \cup {t}
  /\ UNCHANGED <<txn, handled, mainVars, subTask, mainTask, submit>>

\* Variant: the task looks only at its own result.
DecideAlone(t) ==
  /\ pc[t] = "decide"
  /\ Go(t, IF handled[t] = "ok" THEN "commit" ELSE "rollback")
  /\ UNCHANGED <<txn, handled, gaveUp, mainVars, subTask, mainTask, submit>>

Decide(t) ==
  /\ pc[t] = "decide"
  /\ Go(t, IF submit THEN "commit" ELSE "rollback")
  /\ UNCHANGED <<txn, handled, gaveUp, mainVars, subTask, mainTask, submit>>

\* A failing commit or rollback is caught and logged; the transaction manager
\* gives the connection back either way.
Commit(t) ==
  /\ pc[t] = "commit"
  /\ \/ txn' = [txn EXCEPT ![t] = "committed"]
     \/ /\ "commit" \in Faults
        /\ txn' = [txn EXCEPT ![t] = "commitFailed"]
  /\ Go(t, "done")
  /\ UNCHANGED <<handled, gaveUp, mainVars, subTask, mainTask, submit>>

RollBack(t) ==
  /\ pc[t] = "rollback"
  /\ \/ txn' = [txn EXCEPT ![t] = "rolledBack"]
     \/ /\ "rollback" \in Faults
        /\ txn' = [txn EXCEPT ![t] = "rollbackFailed"]
  /\ Go(t, "done")
  /\ UNCHANGED <<handled, gaveUp, mainVars, subTask, mainTask, submit>>

-----------------------------------------------------------------------------
(* The caller after the submission loop.                                   *)

Submitted ==
  /\ mainPc = "submit"
  /\ sent = NTasks
  /\ mainPc' = "await"
  /\ UNCHANGED <<taskVars, sent, ret, subTask, mainTask, submit>>

\* Variant: subTask.await() without a timeout.
AwaitForever ==
  /\ mainPc = "await"
  /\ subTask = 0
  /\ mainPc' = "getCount"
  /\ UNCHANGED <<taskVars, sent, ret, subTask, mainTask, submit>>

Await ==
  /\ mainPc = "await"
  /\ \/ /\ subTask = 0 \/ "timeout" \in Faults
        /\ mainPc' = "getCount"
     \/ /\ "interrupt" \in Faults
        /\ mainPc' = "caught"
  /\ UNCHANGED <<taskVars, sent, ret, subTask, mainTask, submit>>

\* Variant: the caller releases the tasks whatever the count is.
GetCountIgnored ==
  /\ mainPc = "getCount"
  /\ mainPc' = "release"
  /\ UNCHANGED <<taskVars, sent, ret, subTask, mainTask, submit>>

GetCount ==
  /\ mainPc = "getCount"
  /\ mainPc' = IF subTask > 0 THEN "abort" ELSE "release"
  /\ UNCHANGED <<taskVars, sent, ret, subTask, mainTask, submit>>

Abort ==
  /\ mainPc = "abort"
  /\ submit' = FALSE
  /\ mainPc' = "release"
  /\ UNCHANGED <<taskVars, sent, ret, subTask, mainTask>>

Release ==
  /\ mainPc = "release"
  /\ mainTask' = 0
  /\ mainPc' = "answer"
  /\ UNCHANGED <<taskVars, sent, ret, subTask, submit>>

\* return submit.get(), on the normal path and after the catch.
Answer ==
  /\ mainPc \in {"answer", "caught"}
  /\ ret' = IF submit THEN "true" ELSE "false"
  /\ mainPc' = IF mainPc = "answer" THEN "returned" ELSE "recovered"
  /\ UNCHANGED <<taskVars, sent, subTask, mainTask, submit>>

-----------------------------------------------------------------------------
MainStep == Submit \/ Submitted \/ Await \/ GetCount \/ Abort \/ Release
            \/ Answer

TaskStep(t) ==
  TakeQueued(t) \/ Check(t) \/ Skip(t) \/ Begin(t) \/ Handle(t)
  \/ CountDown(t) \/ Wait(t) \/ Decide(t) \/ Commit(t) \/ RollBack(t)

\* The call is over: the caller has left and no task can run any more.
Finished == MainEnded /\ Running = {} /\ Queued = {} /\ UNCHANGED vars

Next == MainStep \/ (\E t \in Tasks : TaskStep(t)) \/ Finished

Spec == Init /\ [][Next]_vars

\* Only the caller is scheduled: nothing is assumed of the pool's threads.
CallerFairSpec == Spec /\ WF_vars(MainStep)

\* The pool's threads are scheduled too: timed waits end, getTransaction either
\* gets a connection or gives up, and the business code ends.
PoolFairness == \A t \in Tasks : WF_vars(TaskStep(t))

-----------------------------------------------------------------------------
(* Properties.                                                             *)

\* What a task decided, from the read of the flag on.
ChoseCommit(t) == pc[t] = "commit" \/ txn[t] \in {"committed", "commitFailed"}
ChoseRollback(t) ==
  pc[t] = "rollback" \/ txn[t] \in {"rolledBack", "rollbackFailed"}

\* Tasks that have not counted subTask down (a dead one never will).
Uncounted ==
  {t \in Tasks : pc[t] \in {"new", "queued", "check", "skip", "begin", "handle",
                           "count", "died"}}

\* The count of subTask is the number of tasks that have not passed either
\* countDown: a task counts down once whichever way it takes (lines 54, 77).
LatchCounts == subTask = Cardinality(Uncounted)

\* When execute returns true on its normal path, the business code of every
\* task has ended normally and no task ever decides to roll back (line 103
\* against lines 53, 69-77 and 82-86).
TrueMeansAllHandled ==
  mainPc = "returned" /\ ret = "true" =>
    \A t \in Tasks : handled[t] = "ok" /\ ~ChoseRollback(t)

\* Two tasks of one batch decide differently only when the one that commits
\* stopped waiting for the caller by itself (lines 80-86): the ignored result
\* of mainTask.await is the only way to a partial commit.
MixedOnlyByTimeout ==
  \A s, t \in Tasks : ChoseCommit(s) /\ ChoseRollback(t) => s \in gaveUp

\* "多线程事务保证一致", "等待所有子线程执行完后, 根据标记的submit,
\* 各个等待的子线程统一处理事务提交或回滚" (TransactionManagerUtil.java:21
\* and 44): the tasks of a batch commit together or roll back together.
CommitTogether ==
  \A s, t \in Tasks : ~(txn[s] = "committed" /\ txn[t] = "rolledBack")

\* Once the caller has opened mainTask (line 102) nobody changes the flag, so
\* every task released by it reads the same verdict.
VerdictStable == [][mainTask = 0 => submit' = submit]_vars

\* The state of the promise, read off the state of the call.
Ready == {t \in Tasks : handled[t] = "ok"}
Choice == [t \in Tasks |-> IF ChoseCommit(t) THEN "commit"
                           ELSE IF ChoseRollback(t) THEN "rollback" ELSE "none"]
Verdict == IF ~submit THEN "abort" ELSE IF mainTask = 0 THEN "commit" ELSE "pending"

Promise == INSTANCE CommitPromise WITH
  ready <- Ready, choice <- Choice, verdict <- Verdict

\* Every step of execute is a step the abstract batch may take.
KeepsPromise == Promise!PromiseSpec

\* The caller always gets out of execute, even when every pool thread hangs
\* in its business code or waits for a connection (line 95).
CallerReturns == <>MainEnded

\* Every transaction that was opened is ended and its connection given back
\* unless its thread was killed by an Error or interrupted, a rejected submission
\* and an exhausted connection pool included (lines 57-90).
ConnectionsReturn ==
  PoolFairness => <>[](\A t \in OpenTxns : pc[t] \in {"died", "done"})

\* A true answer is kept: every task then commits, or its commit fails, or it
\* was interrupted while it waited (lines 80-88, 103).
TrueIsKept ==
  PoolFairness =>
    ((mainPc = "returned" /\ ret = "true") ~>
      (\A t \in Tasks : txn[t] \in {"committed", "commitFailed"}
                        \/ (t \in gaveUp /\ pc[t] = "done")))
=============================================================================
