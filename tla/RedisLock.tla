------------------------------- MODULE RedisLock -------------------------------
(***************************************************************************)
(* The requests of RedisController that use Redisson's locks:              *)
(*   testRedis  a lock with a lease of ten seconds around its work         *)
(*   read       the read lock "orderId" around a bucket                    *)
(*   write      draws an id (getIncr), then the write lock "orderId"       *)
(* In all three the finally block unlocks, whether or not the lock was     *)
(* reached.  Redis frees a lock whose lease is over.  A lock taken without *)
(* a lease has one that the client renews until it calls unlock.           *)
(***************************************************************************)
EXTENDS Naturals, FiniteSets

CONSTANTS
  Requests,      \* requests, each on a thread of its own, of any JVM
  Nobody,        \* no owner of a lock, no value, no id
  MaxLockFaults  \* bound: failing commands and dying threads

VARIABLES
  kind,     \* what each request calls
  at,       \* where it is
  mutex,    \* owner of "lock_key_productId"
  writer, readers, \* owners of the read-write lock "orderId"
  renewed,  \* requests whose client renews their lease
  seq,      \* the entry order_seq of the map name_space
  id,       \* the id each write has drawn
  bucket,   \* the bucket "lhm": the request that wrote it
  result,   \* how the try block of each request ended
  answer,   \* what each request answered
  met,      \* history: pairs of calls of testRedis that worked at the same time
  lapsed,   \* history: requests that lost the lock "orderId" while working
  lockFaults

locks == <<mutex, writer, readers, renewed>>
store == <<seq, id, bucket>>
lockVars == <<kind, at, locks, store, result, answer, met, lapsed, lockFaults>>

Kinds == {"testRedis", "read", "write"}

Mode(r) == CASE kind[r] = "testRedis" -> "mutex"
             [] kind[r] = "read"      -> "shared"
             [] kind[r] = "write"     -> "exclusive"

Holds(r) == CASE Mode(r) = "mutex"     -> mutex = r
              [] Mode(r) = "shared"    -> r \in readers
              [] Mode(r) = "exclusive" -> writer = r

Inside == {r \in Requests : at[r] \in {"work", "sleep"}}

TypeOK ==
  /\ kind \in [Requests -> Kinds]
  /\ at \in [Requests -> {"idle", "put", "add", "lock", "work", "sleep",
                          "unlock", "done", "dead"}]
  /\ mutex \in Requests \cup {Nobody} /\ writer \in Requests \cup {Nobody}
  /\ readers \subseteq Requests /\ renewed \subseteq Requests
  /\ seq \in 0 .. Cardinality(Requests) \cup {Nobody}
  /\ id \in [Requests -> 1 .. Cardinality(Requests) \cup {Nobody}]
  /\ bucket \in Requests \cup {Nobody}
  /\ result \in [Requests -> {"none", "ok", "error"}]
  /\ answer \in [Requests -> {"none", "success", "value", "error", "threw"}]
  /\ met \subseteq SUBSET Requests /\ lapsed \subseteq Requests
  /\ lockFaults \in 0 .. MaxLockFaults
  /\ writer # Nobody => readers = {}
  /\ \A r \in Requests : answer[r] # "none" <=> at[r] = "done"

Init ==
  /\ kind \in [Requests -> Kinds]
  /\ at = [r \in Requests |-> "idle"]
  /\ mutex = Nobody /\ writer = Nobody /\ readers = {} /\ renewed = {}
  /\ seq = Nobody /\ id = [r \in Requests |-> Nobody] /\ bucket = Nobody
  /\ result = [r \in Requests |-> "none"]
  /\ answer = [r \in Requests |-> "none"]
  /\ met = {} /\ lapsed = {} /\ lockFaults = 0

Go(r, where) == at' = [at EXCEPT ![r] = where]

Fault == lockFaults < MaxLockFaults /\ lockFaults' = lockFaults + 1

-----------------------------------------------------------------------------
Begin(r) ==
  /\ at[r] = "idle"
  /\ Go(r, IF kind[r] = "write" THEN "put" ELSE "lock")
  /\ UNCHANGED <<kind, locks, store, result, answer, met, lapsed, lockFaults>>

\* getIncr: two commands, each atomic in Redis.
PutIfAbsent(r) ==
  /\ at[r] = "put"
  /\ seq' = IF seq = Nobody THEN 0 ELSE seq
  /\ Go(r, "add")
  /\ UNCHANGED <<kind, locks, id, bucket, result, answer, met, lapsed, lockFaults>>

AddAndGet(r) ==
  /\ at[r] = "add"
  /\ seq' = seq + 1
  /\ id' = [id EXCEPT ![r] = seq']
  /\ Go(r, "lock")
  /\ UNCHANGED <<kind, locks, bucket, result, answer, met, lapsed, lockFaults>>

\* Redis gives the lock to r.
Grant(r) ==
  \/ /\ Mode(r) = "mutex" /\ mutex = Nobody
     /\ mutex' = r
     /\ UNCHANGED <<writer, readers>>
  \/ /\ Mode(r) = "shared" /\ writer = Nobody
     /\ readers' = readers \cup {r}
     /\ UNCHANGED <<mutex, writer>>
  \/ /\ Mode(r) = "exclusive" /\ writer = Nobody /\ readers = {}
     /\ writer' = r
     /\ UNCHANGED <<mutex, readers>>

\* lock() returns; without a lease of the caller's the client renews it.
Lock(r) ==
  /\ at[r] = "lock" /\ Grant(r)
  /\ renewed' = IF Mode(r) = "mutex" THEN renewed ELSE renewed \cup {r}
  /\ met' = IF kind[r] = "testRedis"
            THEN met \cup {{q, r} : q \in {p \in Inside : kind[p] = "testRedis"}}
            ELSE met
  /\ Go(r, "work")
  /\ UNCHANGED <<kind, store, result, answer, lapsed, lockFaults>>

\* Variant: read returns from the try block without unlocking.
WorkReturns(r) ==
  /\ at[r] = "work"
  /\ bucket' = IF kind[r] = "write" THEN r ELSE bucket
  /\ result' = IF kind[r] = "write" THEN result
               ELSE [result EXCEPT ![r] =
                       IF kind[r] = "read" /\ bucket = Nobody THEN "error" ELSE "ok"]
  /\ answer' = IF kind[r] = "read" THEN [answer EXCEPT ![r] = "value"] ELSE answer
  /\ Go(r, CASE kind[r] = "write" -> "sleep" [] kind[r] = "read" -> "done"
             [] OTHER -> "unlock")
  /\ UNCHANGED <<kind, locks, seq, id, met, lapsed, lockFaults>>

\* The work under the lock; a bucket nobody has written is null in read.
Work(r) ==
  /\ at[r] = "work"
  /\ bucket' = IF kind[r] = "write" THEN r ELSE bucket
  /\ result' = IF kind[r] = "write" THEN result
               ELSE [result EXCEPT ![r] =
                       IF kind[r] = "read" /\ bucket = Nobody THEN "error" ELSE "ok"]
  /\ Go(r, IF kind[r] = "write" THEN "sleep" ELSE "unlock")
  /\ UNCHANGED <<kind, locks, seq, id, answer, met, lapsed, lockFaults>>

\* write stays inside for nine seconds.
Sleep(r) ==
  /\ at[r] = "sleep"
  /\ result' = [result EXCEPT ![r] = "ok"]
  /\ Go(r, "unlock")
  /\ UNCHANGED <<kind, locks, store, answer, met, lapsed, lockFaults>>

Release(r) ==
  /\ mutex' = IF mutex = r THEN Nobody ELSE mutex
  /\ writer' = IF writer = r THEN Nobody ELSE writer
  /\ readers' = readers \ {r}

\* What a request answers when its finally block did not throw: testRedis
\* swallows the exception of its try block.
Answer(r) == IF kind[r] = "testRedis" THEN "success"
             ELSE IF result[r] = "ok" THEN "value" ELSE "error"

\* Variant: unlock only when the lock is held.
UnlockIfHeld(r) ==
  /\ at[r] = "unlock"
  /\ Release(r)
  /\ renewed' = renewed \ {r}
  /\ answer' = [answer EXCEPT ![r] = Answer(r)]
  /\ Go(r, "done")
  /\ UNCHANGED <<kind, store, result, met, lapsed, lockFaults>>

\* The finally block; unlock throws in a thread that does not own the lock.
Unlock(r) ==
  /\ at[r] = "unlock"
  /\ Release(r)
  /\ renewed' = renewed \ {r}
  /\ answer' = [answer EXCEPT ![r] = IF Holds(r) THEN Answer(r) ELSE "threw"]
  /\ Go(r, "done")
  /\ UNCHANGED <<kind, store, result, met, lapsed, lockFaults>>

-----------------------------------------------------------------------------
(* Time and faults.                                                        *)

\* The ten seconds are over, or a lease that nobody renews.
Lapse(r) ==
  /\ Holds(r) /\ r \notin renewed
  /\ Release(r)
  /\ UNCHANGED <<kind, at, renewed, store, result, answer, met, lapsed, lockFaults>>

\* The client cannot reach Redis for thirty seconds, or stops for as long.
RenewalFails(r) ==
  /\ Fault /\ Holds(r) /\ r \in renewed
  /\ Release(r)
  /\ renewed' = renewed \ {r}
  /\ lapsed' = lapsed \cup {r}
  /\ UNCHANGED <<kind, at, store, result, answer, met>>

\* A command of the try block fails; Redis may have carried it out.
CommandFails(r) ==
  /\ Fault
  /\ at[r] \in IF kind[r] = "testRedis" THEN {"lock"} ELSE {"put", "add", "lock", "work"}
  /\ \/ UNCHANGED <<mutex, writer, readers, seq, bucket>>
     \/ /\ at[r] = "put" /\ seq = Nobody /\ seq' = 0
        /\ UNCHANGED <<mutex, writer, readers, bucket>>
     \/ /\ at[r] = "add" /\ seq' = seq + 1
        /\ UNCHANGED <<mutex, writer, readers, bucket>>
     \/ at[r] = "lock" /\ Grant(r) /\ UNCHANGED <<seq, bucket>>
     \/ /\ at[r] = "work" /\ kind[r] = "write" /\ bucket' = r
        /\ UNCHANGED <<mutex, writer, readers, seq>>
  /\ result' = [result EXCEPT ![r] = "error"]
  /\ Go(r, "unlock")
  /\ UNCHANGED <<kind, renewed, id, answer, met, lapsed>>

\* unlock fails before it reaches Redis; the client no longer renews.
UnlockFails(r) ==
  /\ Fault /\ at[r] = "unlock"
  /\ renewed' = renewed \ {r}
  /\ answer' = [answer EXCEPT ![r] = "threw"]
  /\ Go(r, "done")
  /\ UNCHANGED <<kind, mutex, writer, readers, store, result, met, lapsed>>

\* The JVM of the request goes down.
Die(r) ==
  /\ Fault /\ at[r] \notin {"idle", "done", "dead"}
  /\ renewed' = renewed \ {r}
  /\ Go(r, "dead")
  /\ UNCHANGED <<kind, mutex, writer, readers, store, result, answer, met, lapsed>>

-----------------------------------------------------------------------------
Step(r) == \/ PutIfAbsent(r) \/ AddAndGet(r) \/ Lock(r) \/ Work(r) \/ Sleep(r)
           \/ Unlock(r)

Next == \E r \in Requests :
  \/ Begin(r) \/ Step(r) \/ Lapse(r) \/ RenewalFails(r)
  \/ CommandFails(r) \/ UnlockFails(r) \/ Die(r)

Spec == Init /\ [][Next]_lockVars

\* Threads run, Redis wakes whoever can have the lock, leases end.
Fairness == \A r \in Requests : WF_lockVars(Step(r)) /\ WF_lockVars(Lapse(r))

-----------------------------------------------------------------------------
(* Properties.                                                             *)

\* Two calls of testRedis that both answer success did not work at the same
\* time: of calls that overlap because a lease ended too early, unlock throws
\* in all but the last (RedisController.java:39).
SuccessWasExclusive ==
  \A pair \in met : \E r \in pair : answer[r] # "success"

\* A writer of "orderId" is alone inside unless a lease lapsed.
WritersAlone ==
  \A r, q \in Inside \ lapsed :
    r # q /\ kind[r] = "write" => kind[q] = "testRedis"

\* getIncr never gives the same id twice.
IdsUnique ==
  \A r, q \in Requests : r # q /\ id[r] # Nobody => id[r] # id[q]

\* What the locks and the counter keep apart.
LocksExclude == SuccessWasExclusive /\ WritersAlone /\ IdsUnique

\* Whatever fails, every request ends and no lock stays taken: the finally
\* blocks and the leases together leave nothing behind.
EveryoneServed ==
  /\ \A r \in Requests : at[r] # "idle" ~> at[r] \in {"done", "dead"}
  /\ []<>(mutex = Nobody /\ writer = Nobody /\ readers = {})
=============================================================================
