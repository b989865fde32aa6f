----------------------------- MODULE RateLimiting -----------------------------
(***************************************************************************)
(* RateLimitAop.limit around TestController.getCurDate, and                *)
(* RateLimitHelper.getRateLimiter with its unsynchronized get and put.     *)
(* Guava's limiter is modelled with one tick for the time of one permit:   *)
(* a limiter saves up to LimitCount permits while it is not used, and one  *)
(* permit may be taken in advance.                                         *)
(***************************************************************************)
EXTENDS Naturals, Sequences, FiniteSets

CONSTANTS
  RateCallers,   \* threads that call the limited method
  LimitCount,    \* permits a second
  MaxRateCalls,  \* bound: calls of each
  MaxClock       \* bound: ticks

VARIABLES
  clock,
  rateMap,    \* the limiter of the key, 0 for none
  limiters,   \* the limiters created: when the next permit is free, and saved ones
  where,      \* where each caller is
  own,        \* the limiter each caller holds
  tries,      \* calls each has begun
  admitted,   \* how many calls were admitted
  burst,      \* history: how many of them in this tick
  began,      \* history: calls begun before the first was answered
  answered    \* history: has a call been answered?

rateVars == <<clock, rateMap, limiters, where, own, tries, admitted, burst, began, answered>>

Least(a, b) == IF a < b THEN a ELSE b

TypeOK ==
  /\ clock \in 0 .. MaxClock
  /\ limiters \in Seq([free : 0 .. MaxClock + 1, saved : 0 .. LimitCount])
  /\ rateMap \in 0 .. Len(limiters)
  /\ where \in [RateCallers -> {"idle", "create", "put", "acquire"}]
  /\ own \in [RateCallers -> 0 .. Len(limiters)]
  /\ tries \in [RateCallers -> 0 .. MaxRateCalls]
  /\ admitted \in Nat /\ burst \in 0 .. admitted
  /\ began \in Nat /\ answered \in BOOLEAN
  /\ \A c \in RateCallers : where[c] \in {"put", "acquire"} => own[c] # 0

Init ==
  /\ clock = 0 /\ rateMap = 0 /\ limiters = <<>>
  /\ where = [c \in RateCallers |-> "idle"]
  /\ own = [c \in RateCallers |-> 0]
  /\ tries = [c \in RateCallers |-> 0]
  /\ admitted = 0 /\ burst = 0 /\ began = 0 /\ answered = FALSE

Goto(c, place) == where' = [where EXCEPT ![c] = place]

\* rateMap.get(limitKey)
Get(c) ==
  /\ where[c] = "idle" /\ tries[c] < MaxRateCalls
  /\ tries' = [tries EXCEPT ![c] = @ + 1]
  /\ began' = IF answered THEN began ELSE began + 1
  /\ own' = [own EXCEPT ![c] = rateMap]
  /\ Goto(c, IF rateMap = 0 THEN "create" ELSE "acquire")
  /\ UNCHANGED <<clock, rateMap, limiters, admitted, burst, answered>>

\* RateLimiter.create(limitCount): nothing saved yet.
Create(c) ==
  /\ where[c] = "create"
  /\ limiters' = Append(limiters, [free |-> clock, saved |-> 0])
  /\ own' = [own EXCEPT ![c] = Len(limiters')]
  /\ Goto(c, "put")
  /\ UNCHANGED <<clock, rateMap, tries, admitted, burst, began, answered>>

\* Variant: the new limiter is not put into the map.
PutForgets(c) ==
  /\ where[c] = "put"
  /\ Goto(c, "acquire")
  /\ UNCHANGED <<clock, rateMap, limiters, own, tries, admitted, burst, began, answered>>

\* rateMap.put(limitKey, rateLimiter)
Put(c) ==
  /\ where[c] = "put"
  /\ rateMap' = own[c]
  /\ Goto(c, "acquire")
  /\ UNCHANGED <<clock, limiters, own, tries, admitted, burst, began, answered>>

\* A limiter brought up to date, and after one permit.
Refreshed(l) ==
  IF clock > l.free
  THEN [free |-> clock, saved |-> Least(LimitCount, l.saved + clock - l.free)]
  ELSE l
Used(l) == IF l.saved > 0 THEN [l EXCEPT !.saved = @ - 1] ELSE [l EXCEPT !.free = @ + 1]

\* tryAcquire; without a permit Assert.isTrue throws and the call is refused.
Acquire(c) ==
  /\ where[c] = "acquire"
  /\ LET l == limiters[own[c]]
     IN  IF l.free <= clock
         THEN /\ limiters' = [limiters EXCEPT ![own[c]] = Used(Refreshed(l))]
              /\ admitted' = admitted + 1 /\ burst' = burst + 1
         ELSE UNCHANGED <<limiters, admitted, burst>>
  /\ answered' = TRUE
  /\ Goto(c, "idle")
  /\ UNCHANGED <<clock, rateMap, own, tries, began>>

Tick ==
  /\ clock < MaxClock /\ clock' = clock + 1 /\ burst' = 0
  /\ UNCHANGED <<rateMap, limiters, where, own, tries, admitted, began, answered>>

Next == Tick \/ \E c \in RateCallers : Get(c) \/ Create(c) \/ Put(c) \/ Acquire(c)

Spec == Init /\ [][Next]_rateVars

-----------------------------------------------------------------------------
(* Properties.                                                             *)

\* The limit holds over any length of time and for a burst, multiplied only by
\* the calls that were there before the first was answered: each of them may
\* have made a limiter of its own.
RateHolds ==
  /\ admitted <= began * (clock + 1)
  /\ burst <= began * (LimitCount + 1)
=============================================================================
