----------------------------- MODULE QueuePromise -----------------------------
(***************************************************************************)
(* What a Redis queue with one consumer promises: messages are delivered   *)
(* in the order they were stored, each at most once; a message is lost    *)
(* only by a fault, one by each, and only when it is the next one, so that *)
(* a loss never reorders the others.                                       *)
(***************************************************************************)
EXTENDS Naturals, Sequences

VARIABLES
  stored,    \* how many messages have been stored; the n-th is called n
  pending,   \* those that are neither delivered nor lost, oldest first
  delivered, \* those that were processed, in order
  lost,      \* those that were lost
  faults     \* how many faults have happened

vars == <<stored, pending, delivered, lost, faults>>

Init ==
  /\ stored = 0 /\ pending = <<>> /\ delivered = <<>>
  /\ lost = {} /\ faults = 0

Store ==
  /\ stored' = stored + 1
  /\ pending' = Append(pending, stored')
  /\ UNCHANGED <<delivered, lost, faults>>

Deliver ==
  /\ pending # <<>>
  /\ delivered' = Append(delivered, Head(pending))
  /\ pending' = Tail(pending)
  /\ UNCHANGED <<stored, lost, faults>>

\* A fault that loses the next message, and one that loses nothing here.
Lose ==
  /\ pending # <<>>
  /\ lost' = lost \cup {Head(pending)}
  /\ pending' = Tail(pending)
  /\ faults' = faults + 1
  /\ UNCHANGED <<stored, delivered>>

Fail ==
  /\ faults' = faults + 1
  /\ UNCHANGED <<stored, pending, delivered, lost>>

Next == Store \/ Deliver \/ Lose \/ Fail

Spec == Init /\ [][Next]_vars
=============================================================================
