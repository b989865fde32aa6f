------------------------------ MODULE MCRequests ------------------------------
(***************************************************************************)
(* Three parts of the application that serve concurrent requests and share *)
(* no state, in one run: Init chooses which of them runs (the scene), the  *)
(* others stay in an initial state.                                        *)
(***************************************************************************)
EXTENDS Naturals, FiniteSets

CONSTANTS
  Requests, Nobody, MaxLockFaults,
  Callers, MaxCalls,
  RateCallers, LimitCount, MaxRateCalls, MaxClock

\* Nobody is neither a request nor a number.
ASSUME Apart == Nobody \notin Requests /\ Nobody \notin Nat

\* Threads are finitely many, bounds are numbers.
ASSUME Sizes ==
  /\ IsFiniteSet(Requests) /\ IsFiniteSet(Callers) /\ IsFiniteSet(RateCallers)
  /\ MaxLockFaults \in Nat /\ MaxCalls \in Nat
  /\ LimitCount \in Nat /\ MaxRateCalls \in Nat /\ MaxClock \in Nat

VARIABLES
  scene,
  kind, at, mutex, writer, readers, renewed, seq, id, bucket, result, answer,
  met, lapsed, lockFaults,
  site, shared, objs, turn, mine, calls, handed, settled, early,
  clock, rateMap, limiters, where, own, tries, admitted, burst, began, answered

Redis == INSTANCE RedisLock
Lazy == INSTANCE LazyObjects
Rate == INSTANCE RateLimiting

lockVars == <<kind, at, mutex, writer, readers, renewed, seq, id, bucket, result,
              answer, met, lapsed, lockFaults>>
lazyVars == <<site, shared, objs, turn, mine, calls, handed, settled, early>>
rateVars == <<clock, rateMap, limiters, where, own, tries, admitted, burst, began,
              answered>>
vars == <<scene, lockVars, lazyVars, rateVars>>

Init ==
  /\ Redis!Init /\ Lazy!Init /\ Rate!Init
  /\ \/ scene = "locks" /\ site = "headler"
     \/ scene = "lazy" /\ kind = [r \in Requests |-> "read"]
     \/ scene = "rate" /\ site = "headler" /\ kind = [r \in Requests |-> "read"]

Next ==
  \/ scene = "locks" /\ Redis!Next /\ UNCHANGED <<scene, lazyVars, rateVars>>
  \/ scene = "lazy" /\ Lazy!Next /\ UNCHANGED <<scene, lockVars, rateVars>>
  \/ scene = "rate" /\ Rate!Next /\ UNCHANGED <<scene, lockVars, lazyVars>>

Spec == Init /\ [][Next]_vars /\ Redis!Fairness

-----------------------------------------------------------------------------
\* Every variable has its type, and what is said with it there.
TypeOK == Redis!TypeOK /\ Lazy!TypeOK /\ Rate!TypeOK

\* The properties of RedisLock.
LocksExclude == Redis!LocksExclude
EveryoneServed == Redis!EveryoneServed

\* The property of LazyObjects.
CreatedWhole == Lazy!CreatedWhole

\* The property of RateLimiting.
RateHolds == Rate!RateHolds
=============================================================================
