---------------------------- MODULE CommitPromise ----------------------------
(***************************************************************************)
(* What TransactionManagerUtil.execute really promises about a batch of    *)
(* tasks, stated without threads, latches or connections.                  *)
(*                                                                         *)
(* Every task may become ready; the batch has one verdict, which is given  *)
(* once.  A task rolls back only under the verdict "abort".  A ready task  *)
(* may commit as long as the verdict is not "abort": that is weaker than   *)
(* atomic commitment (a task can commit while the verdict is still         *)
(* "pending" and the verdict can then become "abort"), and it is what the  *)
(* bounded wait of TransactionManagerUtil.java:80 leaves.                  *)
(***************************************************************************)
CONSTANT Tasks

VARIABLES ready,    \* tasks whose business code finished normally
          choice,   \* what each task decided to do with its transaction
          verdict   \* the decision of the batch

pvars == <<ready, choice, verdict>>

PromiseTypeOK ==
  /\ ready \subseteq Tasks
  /\ choice \in [Tasks -> {"none", "commit", "rollback"}]
  /\ verdict \in {"pending", "commit", "abort"}

PromiseInit ==
  /\ ready = {}
  /\ choice = [t \in Tasks |-> "none"]
  /\ verdict = "pending"

Prepare(t) ==
  /\ t \notin ready
  /\ choice[t] = "none"
  /\ ready' = ready \cup {t}
  /\ UNCHANGED <<choice, verdict>>

\* The batch may be declared committed only when every task is ready.
DeclareCommit ==
  /\ verdict = "pending"
  /\ ready = Tasks
  /\ verdict' = "commit"
  /\ UNCHANGED <<ready, choice>>

DeclareAbort ==
  /\ verdict = "pending"
  /\ verdict' = "abort"
  /\ UNCHANGED <<ready, choice>>

ChooseCommit(t) ==
  /\ t \in ready
  /\ choice[t] = "none"
  /\ verdict # "abort"
  /\ choice' = [choice EXCEPT ![t] = "commit"]
  /\ UNCHANGED <<ready, verdict>>

ChooseRollback(t) ==
  /\ choice[t] = "none"
  /\ verdict = "abort"
  /\ choice' = [choice EXCEPT ![t] = "rollback"]
  /\ UNCHANGED <<ready, verdict>>

PromiseNext ==
  \/ DeclareCommit
  \/ DeclareAbort
  \/ \E t \in Tasks : Prepare(t) \/ ChooseCommit(t) \/ ChooseRollback(t)

PromiseSpec == PromiseInit /\ [][PromiseNext]_pvars
=============================================================================
