---------------------------- MODULE RequestsProofs ----------------------------
(***************************************************************************)
(* Proofs about the requests: the locks exclude, first calls create whole  *)
(* objects and the limit holds, for any number of threads and any bounds.  *)
(* Each part has an inductive invariant of its own; a scene moves one part *)
(* and leaves the other two alone.                                         *)
(***************************************************************************)
EXTENDS MCRequests, Integers, Sequences, FiniteSetTheorems, TLAPS

(***************************************************************************)
(* Counting threads by where they are.                                     *)
(***************************************************************************)

\* The members of S that f puts into the places X.
In(f, S, X) == {x \in S : f[x] \in X}

\* Moving one thread changes a count by what it leaves and what it comes to.
LEMMA CountMoves ==
  ASSUME NEW S, IsFiniteSet(S), NEW f, NEW g, NEW X, NEW c \in S,
         \A x \in S : x # c => g[x] = f[x]
  PROVE  /\ Cardinality(In(f, S, X)) \in Nat
         /\ Cardinality(In(g, S, X)) = Cardinality(In(f, S, X))
              + (IF g[c] \in X THEN 1 ELSE 0) - (IF f[c] \in X THEN 1 ELSE 0)
<1> DEFINE A == In(f, S, X)
           Others == A \ {c}
<1>1. IsFiniteSet(A) /\ IsFiniteSet(Others) /\ Cardinality(A) \in Nat /\ Cardinality(Others) \in Nat
  <2>1. A \subseteq S /\ Others \subseteq S
    BY DEF In
  <2> HIDE DEF A, Others
  <2> QED
    BY <2>1, FS_Subset, FS_CardinalityType
<1>2. Cardinality(A) = Cardinality(Others) + IF f[c] \in X THEN 1 ELSE 0
  <2>1. f[c] \in X <=> c \in A
    BY DEF In
  <2>2. CASE c \in A
    <3> HIDE DEF A
    <3>1. Cardinality(Others) = Cardinality(A) - 1
      BY <1>1, <2>2, FS_RemoveElement
    <3> HIDE DEF Others
    <3> QED
      BY <1>1, <2>1, <2>2, <3>1
  <2>3. CASE c \notin A
    <3>1. Others = A
      BY <2>3
    <3> HIDE DEF A, Others
    <3> QED
      BY <1>1, <2>1, <2>3, <3>1
  <2> QED
    BY <2>2, <2>3
<1>3. Cardinality(In(g, S, X)) = Cardinality(Others) + IF g[c] \in X THEN 1 ELSE 0
  <2>1. CASE g[c] \in X
    <3>1. In(g, S, X) = Others \cup {c} /\ c \notin Others
      BY <2>1 DEF In
    <3> HIDE DEF Others
    <3>2. Cardinality(Others \cup {c}) = Cardinality(Others) + 1
      BY <1>1, <3>1, FS_AddElement
    <3> QED
      BY <2>1, <3>1, <3>2
  <2>2. CASE g[c] \notin X
    <3>1. In(g, S, X) = Others
      BY <2>2 DEF In
    <3> HIDE DEF Others
    <3> QED
      BY <1>1, <2>2, <3>1
  <2> QED
    BY <2>1, <2>2
<1>4. Cardinality(In(g, S, X)) = Cardinality(A) + (IF g[c] \in X THEN 1 ELSE 0)
                                               - (IF f[c] \in X THEN 1 ELSE 0)
  <2> HIDE DEF A, Others
  <2> QED
    BY <1>1, <1>2, <1>3
<1> QED
  BY <1>1, <1>4

\* A count is at least two if two threads are in it.
LEMMA TwoAreTwo ==
  ASSUME NEW S, IsFiniteSet(S), NEW x \in S, NEW y \in S, x # y
  PROVE  Cardinality(S) >= 2
<1>1. Cardinality(S \ {x}) = Cardinality(S) - 1 /\ IsFiniteSet(S \ {x})
  BY FS_RemoveElement
<1>2. Cardinality(S) \in Nat /\ Cardinality(S \ {x}) \in Nat /\ Cardinality(S \ {x}) # 0
  BY <1>1, FS_CardinalityType, FS_EmptySet
<1> QED
  BY <1>1, <1>2

(***************************************************************************)
(* The locks: the inductive invariant, by parts.                           *)
(***************************************************************************)

Places == {"idle", "put", "add", "lock", "work", "sleep", "unlock", "done", "dead"}

LockTypes ==
  /\ kind \in [Requests -> Redis!Kinds]
  /\ at \in [Requests -> Places]
  /\ id \in [Requests -> Nat \cup {Nobody}]
  /\ answer \in [Requests -> {"none", "success", "value", "error", "threw"}]
  /\ seq \in Nat \cup {Nobody}

\* Only who has answered success is done, and a request is past its work then.
Answered == \A r \in Requests : answer[r] # "none" => at[r] = "done"

\* Ids are numbers the counter has passed, and each is drawn once.
IdsDrawn ==
  /\ \A r \in Requests : at[r] = "add" => seq \in Nat
  /\ \A r \in Requests : id[r] # Nobody => seq \in Nat /\ id[r] <= seq
  /\ Redis!IdsUnique

\* Of two calls that worked at the same time, the one that met the other does not
\* own the lock or does not answer success.
MutexMet ==
  \A pair \in met : \E p \in pair :
    /\ p \in Requests /\ kind[p] = "testRedis" /\ mutex # p
    /\ at[p] \in {"work", "sleep", "unlock", "done", "dead"} /\ answer[p] # "success"

\* Inside the read-write lock a request holds it, unless its lease lapsed.
Renewing ==
  \A r \in Requests :
    at[r] \in {"work", "sleep"} /\ kind[r] # "testRedis" /\ r \notin lapsed =>
      r \in renewed /\ Redis!Holds(r)

OrderLock == writer # Nobody => readers = {}

LockInv == LockTypes /\ Answered /\ IdsDrawn /\ MutexMet /\ Renewing /\ OrderLock

LEMMA LockInit == Redis!Init => LockInv
BY Apart DEF Redis!Init, LockInv, LockTypes, Answered, IdsDrawn, Redis!IdsUnique, MutexMet, Renewing,
       OrderLock, Redis!Kinds, Places

\* Every step of a request, a lease, a fault or Redis keeps it.
LEMMA LockStep == LockInv /\ [Redis!Next]_Redis!lockVars => LockInv'
<1> SUFFICES ASSUME LockInv, [Redis!Next]_Redis!lockVars PROVE LockInv'
  OBVIOUS
<1> USE Apart
<1>1. CASE UNCHANGED Redis!lockVars
  BY <1>1 DEF Redis!lockVars, Redis!locks, Redis!store, LockInv, LockTypes, Answered, IdsDrawn, Redis!IdsUnique,
              MutexMet, Renewing, OrderLock, Redis!Holds, Redis!Mode
<1>2. CASE Redis!Next
  <2> PICK r \in Requests : Redis!Begin(r) \/ Redis!Step(r) \/ Redis!Lapse(r) \/ Redis!RenewalFails(r)
                             \/ Redis!CommandFails(r) \/ Redis!UnlockFails(r) \/ Redis!Die(r)
    BY <1>2 DEF Redis!Next
  <2> USE DEF LockInv, LockTypes
  <2>1. CASE Redis!Begin(r)
    <3>1. LockTypes'
      BY <2>1 DEF Redis!Begin, Redis!Go, Redis!locks, Redis!store, Redis!Kinds, Places, Redis!Mode
    <3>2. Answered'
      BY <2>1 DEF Redis!Begin, Redis!Go, Redis!locks, Redis!store, Answered
    <3>3. IdsDrawn'
      BY <2>1 DEF Redis!Begin, Redis!Go, Redis!locks, Redis!store, IdsDrawn, Redis!IdsUnique
    <3>4. MutexMet'
      BY <2>1 DEF Redis!Begin, Redis!Go, Redis!locks, Redis!store, MutexMet, Answered, Redis!Inside, Redis!Holds, Redis!Mode
    <3>5. Renewing'
      BY <2>1 DEF Redis!Begin, Redis!Go, Redis!locks, Redis!store, Renewing, OrderLock, Redis!Holds, Redis!Mode, Redis!Kinds
    <3>6. OrderLock'
      BY <2>1 DEF Redis!Begin, Redis!Go, Redis!locks, Redis!store, OrderLock
    <3> QED
      BY <3>1, <3>2, <3>3, <3>4, <3>5, <3>6
  <2>2. CASE Redis!PutIfAbsent(r)
    <3>1. LockTypes'
      BY <2>2 DEF Redis!PutIfAbsent, Redis!Go, Redis!locks, Redis!store, Redis!Kinds, Places, Redis!Mode
    <3>2. Answered'
      BY <2>2 DEF Redis!PutIfAbsent, Redis!Go, Redis!locks, Redis!store, Answered
    <3>3. IdsDrawn'
      BY <2>2 DEF Redis!PutIfAbsent, Redis!Go, Redis!locks, Redis!store, IdsDrawn, Redis!IdsUnique
    <3>4. MutexMet'
      BY <2>2 DEF Redis!PutIfAbsent, Redis!Go, Redis!locks, Redis!store, MutexMet, Answered, Redis!Inside, Redis!Holds, Redis!Mode
    <3>5. Renewing'
      BY <2>2 DEF Redis!PutIfAbsent, Redis!Go, Redis!locks, Redis!store, Renewing, OrderLock, Redis!Holds, Redis!Mode, Redis!Kinds
    <3>6. OrderLock'
      BY <2>2 DEF Redis!PutIfAbsent, Redis!Go, Redis!locks, Redis!store, OrderLock
    <3> QED
      BY <3>1, <3>2, <3>3, <3>4, <3>5, <3>6
  <2>3. CASE Redis!AddAndGet(r)
    <3>1. LockTypes'
      BY <2>3 DEF Redis!AddAndGet, Redis!Go, Redis!locks, Redis!store, Redis!Kinds, Places, IdsDrawn
    <3>2. Answered'
      BY <2>3 DEF Redis!AddAndGet, Redis!Go, Redis!locks, Redis!store, Answered
    <3>3. IdsDrawn'
      BY <2>3 DEF Redis!AddAndGet, Redis!Go, Redis!locks, Redis!store, IdsDrawn, Redis!IdsUnique
    <3>4. MutexMet'
      BY <2>3 DEF Redis!AddAndGet, Redis!Go, Redis!locks, Redis!store, MutexMet, Answered, Redis!Inside, Redis!Holds, Redis!Mode
    <3>5. Renewing'
      BY <2>3 DEF Redis!AddAndGet, Redis!Go, Redis!locks, Redis!store, Renewing, OrderLock, Redis!Holds, Redis!Mode, Redis!Kinds
    <3>6. OrderLock'
      BY <2>3 DEF Redis!AddAndGet, Redis!Go, Redis!locks, Redis!store, OrderLock
    <3> QED
      BY <3>1, <3>2, <3>3, <3>4, <3>5, <3>6
  <2>4. CASE Redis!Lock(r)
    <3>1. LockTypes'
      BY <2>4 DEF Redis!Lock, Redis!Grant, Redis!Go, Redis!locks, Redis!store, Redis!Kinds, Places, Redis!Mode
    <3>2. Answered'
      BY <2>4 DEF Redis!Lock, Redis!Grant, Redis!Go, Redis!locks, Redis!store, Answered
    <3>3. IdsDrawn'
      BY <2>4 DEF Redis!Lock, Redis!Grant, Redis!Go, Redis!locks, Redis!store, IdsDrawn, Redis!IdsUnique
    <3>4. MutexMet'
      <4> DEFINE Inv(p) == /\ p \in Requests /\ kind'[p] = "testRedis" /\ mutex' # p
                           /\ at'[p] \in {"work", "sleep", "unlock", "done", "dead"}
                           /\ answer'[p] # "success"
      <4>1. ASSUME NEW pair \in met PROVE \E p \in pair : Inv(p)
        <5> PICK p \in pair :
              /\ p \in Requests /\ kind[p] = "testRedis" /\ mutex # p
              /\ at[p] \in {"work", "sleep", "unlock", "done", "dead"} /\ answer[p] # "success"
          BY DEF MutexMet
        <5>1. p # r
          BY <2>4 DEF Redis!Lock
        <5> QED
          BY <2>4, <5>1 DEF Redis!Lock, Redis!Grant, Redis!Go
      <4>2. ASSUME NEW q \in Redis!Inside, kind[q] = "testRedis", kind[r] = "testRedis"
            PROVE  Inv(q)
        <5>1. q \in Requests /\ q # r /\ at[q] \in {"work", "sleep"} /\ answer[q] = "none"
          BY <2>4 DEF Redis!Lock, Redis!Inside, Answered
        <5>2. mutex' = r
          BY <2>4, <4>2 DEF Redis!Lock, Redis!Grant, Redis!Mode
        <5> QED
          BY <2>4, <4>2, <5>1, <5>2 DEF Redis!Lock, Redis!Go
      <4>3. ASSUME NEW pair \in met' PROVE \E p \in pair : Inv(p)
        <5>1. CASE pair \in met
          BY <4>1, <5>1
        <5>2. CASE pair \notin met
          <6>1. /\ kind[r] = "testRedis"
                /\ pair \in {{q, r} : q \in {p \in Redis!Inside : kind[p] = "testRedis"}}
            BY <2>4, <5>2 DEF Redis!Lock
          <6> PICK q \in Redis!Inside : kind[q] = "testRedis" /\ pair = {q, r}
            BY <6>1
          <6> QED
            BY <4>2, <6>1
        <5> QED
          BY <5>1, <5>2
      <4> QED
        BY <4>3 DEF MutexMet
    <3>5. Renewing'
      <4> SUFFICES ASSUME NEW q \in Requests, at'[q] \in {"work", "sleep"},
                          kind'[q] # "testRedis", q \notin lapsed'
                   PROVE  q \in renewed' /\ Redis!Holds(q)'
        BY DEF Renewing
      <4>1. kind' = kind /\ kind[q] \in {"read", "write"} /\ q \notin lapsed
        BY <2>4 DEF Redis!Lock, Redis!Kinds
      <4>2. CASE q = r
        BY <2>4, <4>1, <4>2 DEF Redis!Lock, Redis!Grant, Redis!Holds, Redis!Mode
      <4>3. CASE q # r
        <5>1. at[q] \in {"work", "sleep"}
          BY <2>4, <4>3 DEF Redis!Lock, Redis!Go
        <5>2. q \in renewed /\ Redis!Holds(q)
          BY <4>1, <5>1 DEF Renewing
        <5>3. renewed \subseteq renewed'
          BY <2>4 DEF Redis!Lock
        <5>4. UNCHANGED <<writer, readers>> \/ Redis!Grant(r)
          BY <2>4 DEF Redis!Lock
        <5>5. Redis!Holds(q)'
          <6>1. CASE UNCHANGED <<writer, readers>>
            BY <4>1, <5>2, <6>1 DEF Redis!Holds, Redis!Mode
          <6>2. CASE Redis!Grant(r)
            <7>1. CASE kind[q] = "read"
              <8>1. q \in readers
                BY <5>2, <7>1 DEF Redis!Holds, Redis!Mode
              <8>2. q \in readers'
                BY <6>2, <8>1 DEF Redis!Grant
              <8> QED
                BY <4>1, <7>1, <8>2 DEF Redis!Holds, Redis!Mode
            <7>2. CASE kind[q] = "write"
              <8>1. writer = q
                BY <5>2, <7>2 DEF Redis!Holds, Redis!Mode
              <8>2. writer' = q
                BY <6>2, <8>1 DEF Redis!Grant
              <8> QED
                BY <4>1, <7>2, <8>2 DEF Redis!Holds, Redis!Mode
            <7> QED
              BY <4>1, <7>1, <7>2
          <6> QED
            BY <5>4, <6>1, <6>2
        <5> QED
          BY <5>2, <5>3, <5>5
      <4> QED
        BY <4>2, <4>3
    <3>6. OrderLock'
      BY <2>4 DEF Redis!Lock, Redis!Grant, Redis!Go, Redis!locks, Redis!store, OrderLock
    <3> QED
      BY <3>1, <3>2, <3>3, <3>4, <3>5, <3>6
  <2>5. CASE Redis!Work(r)
    <3>1. LockTypes'
      BY <2>5 DEF Redis!Work, Redis!Go, Redis!locks, Redis!store, Redis!Kinds, Places, Redis!Mode
    <3>2. Answered'
      BY <2>5 DEF Redis!Work, Redis!Go, Redis!locks, Redis!store, Answered
    <3>3. IdsDrawn'
      BY <2>5 DEF Redis!Work, Redis!Go, Redis!locks, Redis!store, IdsDrawn, Redis!IdsUnique
    <3>4. MutexMet'
      BY <2>5 DEF Redis!Work, Redis!Go, Redis!locks, Redis!store, MutexMet, Answered, Redis!Inside, Redis!Holds, Redis!Mode
    <3>5. Renewing'
      BY <2>5 DEF Redis!Work, Redis!Go, Redis!locks, Redis!store, Renewing, OrderLock, Redis!Holds, Redis!Mode, Redis!Kinds
    <3>6. OrderLock'
      BY <2>5 DEF Redis!Work, Redis!Go, Redis!locks, Redis!store, OrderLock
    <3> QED
      BY <3>1, <3>2, <3>3, <3>4, <3>5, <3>6
  <2>6. CASE Redis!Sleep(r)
    <3>1. LockTypes'
      BY <2>6 DEF Redis!Sleep, Redis!Go, Redis!locks, Redis!store, Redis!Kinds, Places, Redis!Mode
    <3>2. Answered'
      BY <2>6 DEF Redis!Sleep, Redis!Go, Redis!locks, Redis!store, Answered
    <3>3. IdsDrawn'
      BY <2>6 DEF Redis!Sleep, Redis!Go, Redis!locks, Redis!store, IdsDrawn, Redis!IdsUnique
    <3>4. MutexMet'
      BY <2>6 DEF Redis!Sleep, Redis!Go, Redis!locks, Redis!store, MutexMet, Answered, Redis!Inside, Redis!Holds, Redis!Mode
    <3>5. Renewing'
      BY <2>6 DEF Redis!Sleep, Redis!Go, Redis!locks, Redis!store, Renewing, OrderLock, Redis!Holds, Redis!Mode, Redis!Kinds
    <3>6. OrderLock'
      BY <2>6 DEF Redis!Sleep, Redis!Go, Redis!locks, Redis!store, OrderLock
    <3> QED
      BY <3>1, <3>2, <3>3, <3>4, <3>5, <3>6
  <2>7. CASE Redis!Unlock(r)
    <3>1. LockTypes'
      BY <2>7 DEF Redis!Unlock, Redis!Release, Redis!Answer, Redis!Go, Redis!locks, Redis!store, Redis!Kinds, Places, Redis!Mode
    <3>2. Answered'
      BY <2>7 DEF Redis!Unlock, Redis!Release, Redis!Answer, Redis!Go, Redis!locks, Redis!store, Answered
    <3>3. IdsDrawn'
      BY <2>7 DEF Redis!Unlock, Redis!Release, Redis!Answer, Redis!Go, Redis!locks, Redis!store, IdsDrawn, Redis!IdsUnique
    <3>4. MutexMet'
      <4> USE DEF MutexMet
      <4> TAKE pair \in met'
      <4>1. PICK p \in pair :
              /\ p \in Requests /\ kind[p] = "testRedis" /\ mutex # p
              /\ at[p] \in {"work", "sleep", "unlock", "done", "dead"} /\ answer[p] # "success"
        BY <2>7 DEF Redis!Unlock, MutexMet
      <4>2. kind' = kind /\ mutex' # p
        BY <2>7, <4>1 DEF Redis!Unlock, Redis!Release
      <4>3. answer'[p] # "success"
        BY <2>7, <4>1 DEF Redis!Unlock, Redis!Holds, Redis!Mode
      <4>4. at'[p] \in {"work", "sleep", "unlock", "done", "dead"}
        BY <2>7, <4>1 DEF Redis!Unlock, Redis!Go
      <4> QED
        BY <4>1, <4>2, <4>3, <4>4
    <3>5. Renewing'
      BY <2>7 DEF Redis!Unlock, Redis!Release, Redis!Answer, Redis!Go, Redis!locks, Redis!store, Renewing, OrderLock, Redis!Holds, Redis!Mode, Redis!Kinds
    <3>6. OrderLock'
      BY <2>7 DEF Redis!Unlock, Redis!Release, Redis!Answer, Redis!Go, Redis!locks, Redis!store, OrderLock
    <3> QED
      BY <3>1, <3>2, <3>3, <3>4, <3>5, <3>6
  <2>8. CASE Redis!Lapse(r)
    <3>1. LockTypes'
      BY <2>8 DEF Redis!Lapse, Redis!Release, Redis!Go, Redis!locks, Redis!store, Redis!Kinds, Places, Redis!Mode
    <3>2. Answered'
      BY <2>8 DEF Redis!Lapse, Redis!Release, Redis!Go, Redis!locks, Redis!store, Answered
    <3>3. IdsDrawn'
      BY <2>8 DEF Redis!Lapse, Redis!Release, Redis!Go, Redis!locks, Redis!store, IdsDrawn, Redis!IdsUnique
    <3>4. MutexMet'
      BY <2>8 DEF Redis!Lapse, Redis!Release, Redis!Go, Redis!locks, Redis!store, MutexMet, Answered, Redis!Inside, Redis!Holds, Redis!Mode
    <3>5. Renewing'
      BY <2>8, ZenonT(40) DEF Redis!Lapse, Redis!Release, Redis!Go, Redis!locks, Redis!store, Renewing, OrderLock, Redis!Holds, Redis!Mode, Redis!Kinds
    <3>6. OrderLock'
      BY <2>8 DEF Redis!Lapse, Redis!Release, Redis!Go, Redis!locks, Redis!store, OrderLock
    <3> QED
      BY <3>1, <3>2, <3>3, <3>4, <3>5, <3>6
  <2>9. CASE Redis!RenewalFails(r)
    <3>1. LockTypes'
      BY <2>9 DEF Redis!RenewalFails, Redis!Release, Redis!Go, Redis!locks, Redis!store, Redis!Kinds, Places, Redis!Mode
    <3>2. Answered'
      BY <2>9 DEF Redis!RenewalFails, Redis!Release, Redis!Go, Redis!locks, Redis!store, Answered
    <3>3. IdsDrawn'
      BY <2>9 DEF Redis!RenewalFails, Redis!Release, Redis!Go, Redis!locks, Redis!store, IdsDrawn, Redis!IdsUnique
    <3>4. MutexMet'
      BY <2>9 DEF Redis!RenewalFails, Redis!Release, Redis!Go, Redis!locks, Redis!store, MutexMet, Answered, Redis!Inside, Redis!Holds, Redis!Mode
    <3>5. Renewing'
      BY <2>9 DEF Redis!RenewalFails, Redis!Release, Redis!Go, Redis!locks, Redis!store, Renewing, OrderLock, Redis!Holds, Redis!Mode, Redis!Kinds
    <3>6. OrderLock'
      BY <2>9 DEF Redis!RenewalFails, Redis!Release, Redis!Go, Redis!locks, Redis!store, OrderLock
    <3> QED
      BY <3>1, <3>2, <3>3, <3>4, <3>5, <3>6
  <2>10. CASE Redis!CommandFails(r)
    <3>1. LockTypes'
      BY <2>10 DEF Redis!CommandFails, Redis!Go, Redis!Kinds, Places, IdsDrawn
    <3>2. Answered'
      BY <2>10 DEF Redis!CommandFails, Redis!Grant, Redis!Go, Redis!locks, Redis!store, Answered
    <3>3. IdsDrawn'
      BY <2>10 DEF Redis!CommandFails, Redis!Grant, Redis!Go, Redis!locks, Redis!store, IdsDrawn, Redis!IdsUnique
    <3>4. MutexMet'
      BY <2>10 DEF Redis!CommandFails, Redis!Grant, Redis!Go, Redis!locks, Redis!store, MutexMet, Answered, Redis!Inside, Redis!Holds, Redis!Mode
    <3>5. Renewing'
      <4> SUFFICES ASSUME NEW q \in Requests, at'[q] \in {"work", "sleep"},
                          kind'[q] # "testRedis", q \notin lapsed'
                   PROVE  q \in renewed' /\ Redis!Holds(q)'
        BY DEF Renewing
      <4>1. kind' = kind /\ kind[q] \in {"read", "write"} /\ q \notin lapsed
        BY <2>10 DEF Redis!CommandFails, Redis!Kinds
      <4>2. CASE q = r
        BY <2>10, <4>2 DEF Redis!CommandFails, Redis!Go
      <4>3. CASE q # r
        <5>1. at[q] \in {"work", "sleep"}
          BY <2>10, <4>3 DEF Redis!CommandFails, Redis!Go
        <5>2. q \in renewed /\ Redis!Holds(q)
          BY <4>1, <5>1 DEF Renewing
        <5>3. renewed \subseteq renewed'
          BY <2>10 DEF Redis!CommandFails
        <5>4. UNCHANGED <<writer, readers>> \/ Redis!Grant(r)
          BY <2>10 DEF Redis!CommandFails
        <5>5. Redis!Holds(q)'
          <6>1. CASE UNCHANGED <<writer, readers>>
            BY <4>1, <5>2, <6>1 DEF Redis!Holds, Redis!Mode
          <6>2. CASE Redis!Grant(r)
            <7>1. CASE kind[q] = "read"
              <8>1. q \in readers
                BY <5>2, <7>1 DEF Redis!Holds, Redis!Mode
              <8>2. q \in readers'
                BY <6>2, <8>1 DEF Redis!Grant
              <8> QED
                BY <4>1, <7>1, <8>2 DEF Redis!Holds, Redis!Mode
            <7>2. CASE kind[q] = "write"
              <8>1. writer = q
                BY <5>2, <7>2 DEF Redis!Holds, Redis!Mode
              <8>2. writer' = q
                BY <6>2, <8>1 DEF Redis!Grant
              <8> QED
                BY <4>1, <7>2, <8>2 DEF Redis!Holds, Redis!Mode
            <7> QED
              BY <4>1, <7>1, <7>2
          <6> QED
            BY <5>4, <6>1, <6>2
        <5> QED
          BY <5>2, <5>3, <5>5
      <4> QED
        BY <4>2, <4>3
    <3>6. OrderLock'
      BY <2>10 DEF Redis!CommandFails, Redis!Grant, Redis!Go, Redis!locks, Redis!store, OrderLock
    <3> QED
      BY <3>1, <3>2, <3>3, <3>4, <3>5, <3>6
  <2>11. CASE Redis!UnlockFails(r)
    <3>1. LockTypes'
      BY <2>11 DEF Redis!UnlockFails, Redis!Go, Redis!locks, Redis!store, Redis!Kinds, Places, Redis!Mode
    <3>2. Answered'
      BY <2>11 DEF Redis!UnlockFails, Redis!Go, Redis!locks, Redis!store, Answered
    <3>3. IdsDrawn'
      BY <2>11 DEF Redis!UnlockFails, Redis!Go, Redis!locks, Redis!store, IdsDrawn, Redis!IdsUnique
    <3>4. MutexMet'
      BY <2>11 DEF Redis!UnlockFails, Redis!Go, Redis!locks, Redis!store, MutexMet, Answered, Redis!Inside, Redis!Holds, Redis!Mode
    <3>5. Renewing'
      BY <2>11 DEF Redis!UnlockFails, Redis!Go, Redis!locks, Redis!store, Renewing, OrderLock, Redis!Holds, Redis!Mode, Redis!Kinds
    <3>6. OrderLock'
      BY <2>11 DEF Redis!UnlockFails, Redis!Go, Redis!locks, Redis!store, OrderLock
    <3> QED
      BY <3>1, <3>2, <3>3, <3>4, <3>5, <3>6
  <2>12. CASE Redis!Die(r)
    <3>1. LockTypes'
      BY <2>12 DEF Redis!Die, Redis!Go, Redis!locks, Redis!store, Redis!Kinds, Places, Redis!Mode
    <3>2. Answered'
      BY <2>12 DEF Redis!Die, Redis!Go, Redis!locks, Redis!store, Answered, Redis!Fault
    <3>3. IdsDrawn'
      BY <2>12 DEF Redis!Die, Redis!Go, Redis!locks, Redis!store, IdsDrawn, Redis!IdsUnique
    <3>4. MutexMet'
      BY <2>12 DEF Redis!Die, Redis!Go, Redis!locks, Redis!store, MutexMet, Answered, Redis!Inside, Redis!Holds, Redis!Mode
    <3>5. Renewing'
      BY <2>12 DEF Redis!Die, Redis!Go, Redis!locks, Redis!store, Renewing, OrderLock, Redis!Holds, Redis!Mode, Redis!Kinds
    <3>6. OrderLock'
      BY <2>12 DEF Redis!Die, Redis!Go, Redis!locks, Redis!store, OrderLock
    <3> QED
      BY <3>1, <3>2, <3>3, <3>4, <3>5, <3>6
  <2> QED
    BY <2>1, <2>2, <2>3, <2>4, <2>5, <2>6, <2>7, <2>8, <2>9, <2>10, <2>11, <2>12 DEF Redis!Step
<1> QED
  BY <1>1, <1>2

\* What the run checks of the locks follows from the invariant.
LEMMA LocksFollow == LockInv => LocksExclude
<1> SUFFICES ASSUME LockInv PROVE LocksExclude
  OBVIOUS
<1> USE Apart
<1>1. Redis!SuccessWasExclusive
  BY DEF LockInv, MutexMet, Redis!SuccessWasExclusive
<1>2. Redis!WritersAlone
  BY DEF LockInv, LockTypes, Redis!Kinds, Renewing, OrderLock, Redis!Holds, Redis!Mode,
         Redis!Inside, Redis!WritersAlone
<1>3. Redis!IdsUnique
  BY DEF LockInv, IdsDrawn
<1> QED
  BY <1>1, <1>2, <1>3 DEF LocksExclude, Redis!LocksExclude

(***************************************************************************)
(* What the type invariant of the locks says besides.                      *)
(***************************************************************************)

LockRest ==
  /\ mutex \in Requests \cup {Nobody} /\ writer \in Requests \cup {Nobody}
  /\ readers \subseteq Requests /\ renewed \subseteq Requests
  /\ bucket \in Requests \cup {Nobody}
  /\ result \in [Requests -> {"none", "ok", "error"}]
  /\ met \subseteq SUBSET Requests /\ lapsed \subseteq Requests
  /\ lockFaults \in 0 .. MaxLockFaults
  /\ \A r \in Requests : at[r] = "done" => answer[r] # "none"
  /\ \A r \in Requests : id[r] # Nobody => id[r] >= 1

Early == {"idle", "put", "add"}

\* The counter has been raised at most once for every write past it.
Reached == In(at, Requests, Places \ Early)
SeqCounts == seq # Nobody => seq <= Cardinality(Reached)

\* A request never goes back to before the counter.
LEMMA ReachedMoves ==
  ASSUME LockTypes, NEW r \in Requests, \E w \in Places : at' = [at EXCEPT ![r] = w],
         at'[r] \in Early => at[r] \in Early
  PROVE  /\ Cardinality(Reached) \in Nat /\ Cardinality(Reached') \in Nat
         /\ Cardinality(Reached') >= Cardinality(Reached)
         /\ at[r] \in Early /\ at'[r] \notin Early =>
              Cardinality(Reached') = Cardinality(Reached) + 1
<1>1. /\ at \in [Requests -> Places] /\ at[r] \in Places /\ at'[r] \in Places
      /\ \A x \in Requests : x # r => at'[x] = at[x]
  BY DEF LockTypes
<1> DEFINE X == Places \ Early
<1>2. IsFiniteSet(Requests)
  BY Sizes
<1>3. /\ Cardinality(In(at, Requests, X)) \in Nat
      /\ Cardinality(In(at', Requests, X)) = Cardinality(In(at, Requests, X))
           + (IF at'[r] \in X THEN 1 ELSE 0) - (IF at[r] \in X THEN 1 ELSE 0)
  <2> HIDE DEF X
  <2> QED
    BY ONLY <1>1, <1>2, CountMoves, r \in Requests
<1>4. (at'[r] \in X <=> at'[r] \notin Early) /\ (at[r] \in X <=> at[r] \notin Early)
  BY <1>1
<1>5. Cardinality(In(at', Requests, X)) \in Nat
  BY <1>2, FS_Subset, FS_CardinalityType DEF In
<1> HIDE DEF X
<1>6. /\ Cardinality(In(at', Requests, X)) >= Cardinality(In(at, Requests, X))
      /\ at[r] \in Early /\ at'[r] \notin Early =>
           Cardinality(In(at', Requests, X)) = Cardinality(In(at, Requests, X)) + 1
  BY <1>3, <1>4
<1> QED
  BY <1>3, <1>5, <1>6 DEF Reached, X

LEMMA LockRestStep ==
  LockInv /\ LockRest /\ SeqCounts /\ [Redis!Next]_Redis!lockVars => LockRest' /\ SeqCounts'
<1> SUFFICES ASSUME LockInv, LockRest, SeqCounts, [Redis!Next]_Redis!lockVars
             PROVE  LockRest' /\ SeqCounts'
  OBVIOUS
<1> USE Apart
<1>1. CASE UNCHANGED Redis!lockVars
  BY <1>1 DEF Redis!lockVars, Redis!locks, Redis!store, LockRest, SeqCounts, Reached, In
<1>2. CASE Redis!Next
  <2> PICK r \in Requests : Redis!Begin(r) \/ Redis!Step(r) \/ Redis!Lapse(r) \/ Redis!RenewalFails(r)
                             \/ Redis!CommandFails(r) \/ Redis!UnlockFails(r) \/ Redis!Die(r)
    BY <1>2 DEF Redis!Next
  <2>0. LockTypes /\ IdsDrawn /\ Cardinality(Reached) \in Nat
    BY Sizes, FS_Subset, FS_CardinalityType DEF LockInv, Reached, In
  <2>1. CASE Redis!Begin(r)
    <3>1. LockRest'
      BY <2>0, <2>1 DEF Redis!Begin, Redis!Go, Redis!locks, Redis!store, LockRest, LockTypes, Redis!Kinds
    <3>2. /\ Cardinality(Reached) \in Nat /\ Cardinality(Reached') \in Nat
          /\ Cardinality(Reached') >= Cardinality(Reached)
          /\ at[r] \in Early /\ at'[r] \notin Early =>
               Cardinality(Reached') = Cardinality(Reached) + 1
      <4>1. (\E w \in Places : at' = [at EXCEPT ![r] = w]) /\ (at'[r] \in Early => at[r] \in Early)
        BY <2>0, <2>1 DEF Redis!Begin, Redis!Go, LockTypes, Places, Early
      <4> QED
        BY <2>0, <4>1, ReachedMoves
    <3>3. seq' = seq
      BY <2>1 DEF Redis!Begin, Redis!store
    <3>4. SeqCounts'
      BY <2>0, <3>2, <3>3 DEF SeqCounts, LockTypes
    <3> QED
      BY <3>1, <3>4
  <2>2. CASE Redis!PutIfAbsent(r)
    <3>1. LockRest'
      BY <2>0, <2>2 DEF Redis!PutIfAbsent, Redis!Go, Redis!locks, Redis!store, LockRest, LockTypes, Redis!Kinds
    <3>2. /\ Cardinality(Reached) \in Nat /\ Cardinality(Reached') \in Nat
          /\ Cardinality(Reached') >= Cardinality(Reached)
          /\ at[r] \in Early /\ at'[r] \notin Early =>
               Cardinality(Reached') = Cardinality(Reached) + 1
      <4>1. (\E w \in Places : at' = [at EXCEPT ![r] = w]) /\ (at'[r] \in Early => at[r] \in Early)
        BY <2>0, <2>2 DEF Redis!PutIfAbsent, Redis!Go, LockTypes, Places, Early
      <4> QED
        BY <2>0, <4>1, ReachedMoves
    <3>3. SeqCounts'
      BY <2>0, <2>2, <3>2 DEF Redis!PutIfAbsent, SeqCounts, LockTypes
    <3> QED
      BY <3>1, <3>3
  <2>3. CASE Redis!AddAndGet(r)
    <3>1. LockRest'
      BY <2>0, <2>3 DEF Redis!AddAndGet, Redis!Go, Redis!locks, Redis!store, LockRest, LockTypes, IdsDrawn, Redis!Kinds
    <3>2. /\ Cardinality(Reached) \in Nat /\ Cardinality(Reached') \in Nat
          /\ Cardinality(Reached') >= Cardinality(Reached)
          /\ at[r] \in Early /\ at'[r] \notin Early =>
               Cardinality(Reached') = Cardinality(Reached) + 1
      <4>1. (\E w \in Places : at' = [at EXCEPT ![r] = w]) /\ (at'[r] \in Early => at[r] \in Early)
        BY <2>0, <2>3 DEF Redis!AddAndGet, Redis!Go, LockTypes, Places, Early
      <4> QED
        BY <2>0, <4>1, ReachedMoves
    <3>3. seq' = seq + 1 /\ seq \in Nat /\ seq <= Cardinality(Reached)
          /\ Cardinality(Reached') = Cardinality(Reached) + 1
      BY <2>0, <2>3, <3>2 DEF Redis!AddAndGet, Redis!Go, SeqCounts, IdsDrawn, LockTypes, Early
    <3>4. SeqCounts'
      BY <2>0, <3>3 DEF SeqCounts
    <3> QED
      BY <3>1, <3>4
  <2>4. CASE Redis!Lock(r)
    <3>1. LockRest'
      BY <2>0, <2>4 DEF Redis!Lock, Redis!Grant, Redis!Go, Redis!locks, Redis!store, LockRest, LockTypes, Redis!Inside, Redis!Kinds, Redis!Mode
    <3>2. /\ Cardinality(Reached) \in Nat /\ Cardinality(Reached') \in Nat
          /\ Cardinality(Reached') >= Cardinality(Reached)
          /\ at[r] \in Early /\ at'[r] \notin Early =>
               Cardinality(Reached') = Cardinality(Reached) + 1
      <4>1. (\E w \in Places : at' = [at EXCEPT ![r] = w]) /\ (at'[r] \in Early => at[r] \in Early)
        BY <2>0, <2>4 DEF Redis!Lock, Redis!Go, LockTypes, Places, Early
      <4> QED
        BY <2>0, <4>1, ReachedMoves
    <3>3. seq' = seq
      BY <2>4 DEF Redis!Lock, Redis!store
    <3>4. SeqCounts'
      BY <2>0, <3>2, <3>3 DEF SeqCounts, LockTypes
    <3> QED
      BY <3>1, <3>4
  <2>5. CASE Redis!Work(r)
    <3>1. LockRest'
      BY <2>0, <2>5 DEF Redis!Work, Redis!Go, Redis!locks, Redis!store, LockRest, LockTypes, Redis!Kinds
    <3>2. /\ Cardinality(Reached) \in Nat /\ Cardinality(Reached') \in Nat
          /\ Cardinality(Reached') >= Cardinality(Reached)
          /\ at[r] \in Early /\ at'[r] \notin Early =>
               Cardinality(Reached') = Cardinality(Reached) + 1
      <4>1. (\E w \in Places : at' = [at EXCEPT ![r] = w]) /\ (at'[r] \in Early => at[r] \in Early)
        BY <2>0, <2>5 DEF Redis!Work, Redis!Go, LockTypes, Places, Early
      <4> QED
        BY <2>0, <4>1, ReachedMoves
    <3>3. seq' = seq
      BY <2>5 DEF Redis!Work, Redis!store
    <3>4. SeqCounts'
      BY <2>0, <3>2, <3>3 DEF SeqCounts, LockTypes
    <3> QED
      BY <3>1, <3>4
  <2>6. CASE Redis!Sleep(r)
    <3>1. LockRest'
      BY <2>0, <2>6 DEF Redis!Sleep, Redis!Go, Redis!locks, Redis!store, LockRest, LockTypes, Redis!Kinds
    <3>2. /\ Cardinality(Reached) \in Nat /\ Cardinality(Reached') \in Nat
          /\ Cardinality(Reached') >= Cardinality(Reached)
          /\ at[r] \in Early /\ at'[r] \notin Early =>
               Cardinality(Reached') = Cardinality(Reached) + 1
      <4>1. (\E w \in Places : at' = [at EXCEPT ![r] = w]) /\ (at'[r] \in Early => at[r] \in Early)
        BY <2>0, <2>6 DEF Redis!Sleep, Redis!Go, LockTypes, Places, Early
      <4> QED
        BY <2>0, <4>1, ReachedMoves
    <3>3. seq' = seq
      BY <2>6 DEF Redis!Sleep, Redis!store
    <3>4. SeqCounts'
      BY <2>0, <3>2, <3>3 DEF SeqCounts, LockTypes
    <3> QED
      BY <3>1, <3>4
  <2>7. CASE Redis!Unlock(r)
    <3>1. LockRest'
      BY <2>0, <2>7 DEF Redis!Unlock, Redis!Release, Redis!Answer, Redis!Go, Redis!locks, Redis!store, LockRest, LockTypes, Redis!Kinds, Redis!Mode
    <3>2. /\ Cardinality(Reached) \in Nat /\ Cardinality(Reached') \in Nat
          /\ Cardinality(Reached') >= Cardinality(Reached)
          /\ at[r] \in Early /\ at'[r] \notin Early =>
               Cardinality(Reached') = Cardinality(Reached) + 1
      <4>1. (\E w \in Places : at' = [at EXCEPT ![r] = w]) /\ (at'[r] \in Early => at[r] \in Early)
        BY <2>0, <2>7 DEF Redis!Unlock, Redis!Go, LockTypes, Places, Early
      <4> QED
        BY <2>0, <4>1, ReachedMoves
    <3>3. seq' = seq
      BY <2>7 DEF Redis!Unlock, Redis!store
    <3>4. SeqCounts'
      BY <2>0, <3>2, <3>3 DEF SeqCounts, LockTypes
    <3> QED
      BY <3>1, <3>4
  <2>8. CASE Redis!Lapse(r)
    <3>1. LockRest'
      BY <2>0, <2>8 DEF Redis!Lapse, Redis!Release, Redis!Go, Redis!locks, Redis!store, LockRest, LockTypes, Redis!Kinds, Redis!Mode
    <3>2. SeqCounts'
      BY <2>8 DEF Redis!Lapse, Redis!Release, Redis!locks, Redis!store, SeqCounts, Reached, In
    <3> QED
      BY <3>1, <3>2
  <2>9. CASE Redis!RenewalFails(r)
    <3>1. LockRest'
      BY <2>0, Sizes, <2>9 DEF Redis!RenewalFails, Redis!Release, Redis!Go, Redis!locks, Redis!store, LockRest, LockTypes, Redis!Kinds, Redis!Mode, Redis!Fault
    <3>2. SeqCounts'
      BY <2>9 DEF Redis!RenewalFails, Redis!Release, Redis!locks, Redis!store, SeqCounts, Reached, In
    <3> QED
      BY <3>1, <3>2
  <2>10. CASE Redis!CommandFails(r)
    <3>1. LockRest'
      BY <2>0, Sizes, <2>10 DEF Redis!CommandFails, Redis!Grant, Redis!Go, Redis!locks, Redis!store, LockRest, LockTypes, Redis!Kinds, Redis!Mode, Redis!Fault
    <3>2. /\ Cardinality(Reached) \in Nat /\ Cardinality(Reached') \in Nat
          /\ Cardinality(Reached') >= Cardinality(Reached)
          /\ at[r] \in Early /\ at'[r] \notin Early =>
               Cardinality(Reached') = Cardinality(Reached) + 1
      <4>1. (\E w \in Places : at' = [at EXCEPT ![r] = w]) /\ (at'[r] \in Early => at[r] \in Early)
        BY <2>0, <2>10 DEF Redis!CommandFails, Redis!Go, LockTypes, Places, Early
      <4> QED
        BY <2>0, <4>1, ReachedMoves
    <3>3. seq' = seq \/ seq' = 0 \/ (at[r] = "add" /\ seq' = seq + 1)
      BY <2>10 DEF Redis!CommandFails
    <3>4. CASE at[r] = "add" /\ seq' = seq + 1
      <4>1. seq \in Nat /\ seq <= Cardinality(Reached) /\ Cardinality(Reached') = Cardinality(Reached) + 1
        BY <2>0, <2>10, <3>2, <3>4 DEF Redis!CommandFails, Redis!Go, SeqCounts, IdsDrawn, LockTypes, Early
      <4> QED
        BY ONLY <3>1, <3>2, <3>4, <4>1 DEF SeqCounts
    <3>5. CASE seq' = seq \/ seq' = 0
      <4>1. SeqCounts /\ seq \in Nat \cup {Nobody}
        BY <2>0 DEF LockTypes
      <4>2. CASE seq' = seq
        BY ONLY <3>1, <3>2, <4>1, <4>2 DEF SeqCounts
      <4>3. CASE seq' = 0
        BY ONLY <3>1, <3>2, <4>3 DEF SeqCounts
      <4> QED
        BY <3>5, <4>2, <4>3
    <3>6. SeqCounts'
      BY <3>3, <3>4, <3>5
    <3> QED
      BY <3>1, <3>6
  <2>11. CASE Redis!UnlockFails(r)
    <3>1. LockRest'
      BY <2>0, Sizes, <2>11 DEF Redis!UnlockFails, Redis!Go, Redis!locks, Redis!store, LockRest, LockTypes, Redis!Kinds, Redis!Fault
    <3>2. /\ Cardinality(Reached) \in Nat /\ Cardinality(Reached') \in Nat
          /\ Cardinality(Reached') >= Cardinality(Reached)
          /\ at[r] \in Early /\ at'[r] \notin Early =>
               Cardinality(Reached') = Cardinality(Reached) + 1
      <4>1. (\E w \in Places : at' = [at EXCEPT ![r] = w]) /\ (at'[r] \in Early => at[r] \in Early)
        BY <2>0, <2>11 DEF Redis!UnlockFails, Redis!Go, LockTypes, Places, Early
      <4> QED
        BY <2>0, <4>1, ReachedMoves
    <3>3. seq' = seq
      BY <2>11 DEF Redis!UnlockFails, Redis!store
    <3>4. SeqCounts'
      BY <2>0, <3>2, <3>3 DEF SeqCounts, LockTypes
    <3> QED
      BY <3>1, <3>4
  <2>12. CASE Redis!Die(r)
    <3>1. LockRest'
      BY <2>0, Sizes, <2>12 DEF Redis!Die, Redis!Go, Redis!locks, Redis!store, LockRest, LockTypes, Redis!Kinds, Redis!Fault
    <3>2. /\ Cardinality(Reached) \in Nat /\ Cardinality(Reached') \in Nat
          /\ Cardinality(Reached') >= Cardinality(Reached)
          /\ at[r] \in Early /\ at'[r] \notin Early =>
               Cardinality(Reached') = Cardinality(Reached) + 1
      <4>1. (\E w \in Places : at' = [at EXCEPT ![r] = w]) /\ (at'[r] \in Early => at[r] \in Early)
        BY <2>0, <2>12 DEF Redis!Die, Redis!Go, LockTypes, Places, Early
      <4> QED
        BY <2>0, <4>1, ReachedMoves
    <3>3. seq' = seq
      BY <2>12 DEF Redis!Die, Redis!store
    <3>4. SeqCounts'
      BY <2>0, <3>2, <3>3 DEF SeqCounts, LockTypes
    <3> QED
      BY <3>1, <3>4
  <2> QED
    BY <2>1, <2>2, <2>3, <2>4, <2>5, <2>6, <2>7, <2>8, <2>9, <2>10, <2>11, <2>12 DEF Redis!Step
<1> QED
  BY <1>1, <1>2

\* RedisLock and this module count alike.
LEMMA SameCardinality == \A S : Redis!Cardinality(S) = Cardinality(S)
BY DEF Redis!Cardinality, Cardinality

\* The type invariant of the locks follows.
LEMMA LockTypeFollows == LockInv /\ LockRest /\ SeqCounts => Redis!TypeOK
<1> SUFFICES ASSUME LockInv, LockRest, SeqCounts PROVE Redis!TypeOK
  OBVIOUS
<1>1. LockTypes /\ Answered /\ IdsDrawn /\ OrderLock
  BY DEF LockInv
<1>2. /\ Cardinality(Reached) \in Nat /\ Cardinality(Requests) \in Nat
      /\ Cardinality(Reached) <= Cardinality(Requests)
  BY Sizes, FS_Subset, FS_CardinalityType DEF Reached, In
<1>3. seq \in 0 .. Cardinality(Requests) \cup {Nobody}
  BY Apart, <1>1, <1>2 DEF LockTypes, SeqCounts
<1>4. id \in [Requests -> 1 .. Cardinality(Requests) \cup {Nobody}]
  <2>1. ASSUME NEW r \in Requests PROVE id[r] \in 1 .. Cardinality(Requests) \cup {Nobody}
    BY Apart, <1>1, <1>2, <1>3 DEF LockTypes, IdsDrawn, LockRest
  <2> QED
    BY <1>1, <2>1 DEF LockTypes
<1>5. \A r \in Requests : answer[r] # "none" <=> at[r] = "done"
  BY <1>1 DEF Answered, LockRest
<1> QED
  <2>1. /\ kind \in [Requests -> Redis!Kinds] /\ at \in [Requests -> Places]
        /\ answer \in [Requests -> {"none", "success", "value", "error", "threw"}]
        /\ writer # Nobody => readers = {}
    BY <1>1 DEF LockTypes, OrderLock
  <2>2. at \in [Requests -> {"idle", "put", "add", "lock", "work", "sleep", "unlock", "done", "dead"}]
    BY <2>1 DEF Places
  <2>3. /\ mutex \in Requests \cup {Nobody} /\ writer \in Requests \cup {Nobody}
        /\ readers \subseteq Requests /\ renewed \subseteq Requests
        /\ bucket \in Requests \cup {Nobody} /\ result \in [Requests -> {"none", "ok", "error"}]
    BY DEF LockRest
  <2>4. met \subseteq SUBSET Requests /\ lapsed \subseteq Requests /\ lockFaults \in 0 .. MaxLockFaults
    BY DEF LockRest
  <2> QED
    BY ONLY <1>3, <1>4, <1>5, <2>1, <2>2, <2>3, <2>4, SameCardinality DEF Redis!TypeOK

LEMMA LockRestInit == Redis!Init => LockRest /\ SeqCounts
BY Sizes DEF Redis!Init, LockRest, SeqCounts
(***************************************************************************)
(* The first calls: the inductive invariant, by parts.                     *)
(***************************************************************************)

Turns == {"idle", "create", "assign", "open", "configure", "login", "hand"}

LazyTypes ==
  /\ site \in Lazy!Sites
  /\ objs \in Seq(Lazy!Object) /\ shared \in 0 .. Len(objs)
  /\ turn \in [Callers -> Turns]
  /\ mine \in [Callers -> 0 .. Len(objs)]
  /\ calls \in [Callers -> 0 .. MaxCalls]
  /\ handed \in [Callers -> Lazy!Object]
  /\ settled \in BOOLEAN /\ early \in Nat

\* Where a caller can be at each site, and what it has then.
LazyPlaces ==
  /\ \A c \in Callers :
       /\ turn[c] \in {"assign", "open"} => mine[c] # 0
       /\ turn[c] = "assign" => site \in {"headler", "connection"}
       /\ turn[c] = "open" => site = "thrift"
       /\ turn[c] \in {"configure", "login"} => site = "cxf" /\ shared # 0
  /\ settled => shared # 0

Busy == In(turn, Callers, Turns \ {"idle"})
Making == In(turn, Callers, Turns \ {"idle", "hand"})
Creating == In(turn, Callers, {"create"})
AddingLogin == In(turn, Callers, {"create", "configure", "login"})

\* Calls in progress began before the first answer, or use what it answered.
EarlyCounts ==
  /\ ~settled => Cardinality(Busy) <= early
  /\ settled => Cardinality(Making) + 1 <= early

\* A caller that is about to create, or to add an interceptor, has not yet.
ObjectsCount ==
  /\ Len(objs) + Cardinality(Creating) <= early
  /\ Cardinality(AddingLogin) <= early
  /\ \A i \in DOMAIN objs :
       objs[i].logins + Cardinality(AddingLogin) <= early

\* What is not complete is in somebody's hands.
Unfinished ==
  /\ site \in {"headler", "connection"} => \A i \in DOMAIN objs : objs[i] = Lazy!Ready
  /\ site = "thrift" => \A i \in DOMAIN objs :
       objs[i].state = "raw" => \E c \in Callers : turn[c] = "open" /\ mine[c] = i
  /\ site = "cxf" => \A i \in DOMAIN objs : objs[i].state # "failed"
  /\ site = "cxf" /\ shared # 0 =>
       /\ objs[shared].state = "ready" \/ \E c \in Callers : turn[c] = "configure"
       /\ objs[shared].logins > 0 \/ \E c \in Callers : turn[c] \in {"configure", "login"}

LazyInv ==
  /\ LazyTypes /\ LazyPlaces /\ EarlyCounts /\ ObjectsCount /\ Unfinished
  /\ Lazy!IncompleteOnlyIfEarly

\* What a step of one caller changes in the counts.
CountsMove(c) ==
  /\ Cardinality(Busy) \in Nat /\ Cardinality(Making) \in Nat
  /\ Cardinality(Creating) \in Nat /\ Cardinality(AddingLogin) \in Nat
  /\ Cardinality(Busy') = Cardinality(Busy) + (IF turn'[c] = "idle" THEN 0 ELSE 1)
       - (IF turn[c] = "idle" THEN 0 ELSE 1)
  /\ Cardinality(Making') = Cardinality(Making) + (IF turn'[c] \in {"idle", "hand"} THEN 0 ELSE 1)
       - (IF turn[c] \in {"idle", "hand"} THEN 0 ELSE 1)
  /\ Cardinality(Creating') = Cardinality(Creating) + (IF turn'[c] = "create" THEN 1 ELSE 0)
       - (IF turn[c] = "create" THEN 1 ELSE 0)
  /\ Cardinality(AddingLogin') = Cardinality(AddingLogin)
       + (IF turn'[c] \in {"create", "configure", "login"} THEN 1 ELSE 0)
       - (IF turn[c] \in {"create", "configure", "login"} THEN 1 ELSE 0)

LEMMA LazyCounts ==
  ASSUME LazyTypes, NEW c \in Callers, \E w \in Turns : turn' = [turn EXCEPT ![c] = w]
  PROVE  CountsMove(c)
<1>1. turn \in [Callers -> Turns] /\ IsFiniteSet(Callers) /\ turn[c] \in Turns
      /\ turn'[c] \in Turns
  BY Sizes DEF LazyTypes
<1> DEFINE Moves(X) == /\ Cardinality(In(turn, Callers, X)) \in Nat
                       /\ Cardinality(In(turn', Callers, X)) =
                            Cardinality(In(turn, Callers, X)) + (IF turn'[c] \in X THEN 1 ELSE 0)
                                                    - (IF turn[c] \in X THEN 1 ELSE 0)
<1>2. ASSUME NEW X PROVE Moves(X)
  <2>1. \A x \in Callers : x # c => turn'[x] = turn[x]
    BY <1>1
  <2> QED
    BY ONLY <1>1, <2>1, CountMoves, c \in Callers
<1>3. Moves(Turns \ {"idle"}) /\ Moves(Turns \ {"idle", "hand"}) /\ Moves({"create"})
      /\ Moves({"create", "configure", "login"})
  <2> HIDE DEF Moves
  <2> QED
    BY <1>2
<1>4. /\ (turn'[c] \in Turns \ {"idle"} <=> turn'[c] # "idle")
      /\ (turn[c] \in Turns \ {"idle"} <=> turn[c] # "idle")
      /\ (turn'[c] \in Turns \ {"idle", "hand"} <=> turn'[c] \notin {"idle", "hand"})
      /\ (turn[c] \in Turns \ {"idle", "hand"} <=> turn[c] \notin {"idle", "hand"})
      /\ (turn'[c] \in {"create"} <=> turn'[c] = "create")
      /\ (turn[c] \in {"create"} <=> turn[c] = "create")
  BY <1>1
<1>5. Moves(Turns \ {"idle"}) => /\ Cardinality(Busy) \in Nat
         /\ Cardinality(Busy') = Cardinality(Busy) + (IF turn'[c] = "idle" THEN 0 ELSE 1)
              - (IF turn[c] = "idle" THEN 0 ELSE 1)
  BY <1>4 DEF Busy
<1>6. Moves(Turns \ {"idle", "hand"}) => /\ Cardinality(Making) \in Nat
         /\ Cardinality(Making') = Cardinality(Making) + (IF turn'[c] \in {"idle", "hand"} THEN 0 ELSE 1)
              - (IF turn[c] \in {"idle", "hand"} THEN 0 ELSE 1)
  BY <1>4 DEF Making
<1>7. Moves({"create"}) => /\ Cardinality(Creating) \in Nat
         /\ Cardinality(Creating') = Cardinality(Creating) + (IF turn'[c] = "create" THEN 1 ELSE 0)
              - (IF turn[c] = "create" THEN 1 ELSE 0)
  BY <1>4 DEF Creating
<1>8. Moves({"create", "configure", "login"}) => /\ Cardinality(AddingLogin) \in Nat
         /\ Cardinality(AddingLogin') = Cardinality(AddingLogin)
              + (IF turn'[c] \in {"create", "configure", "login"} THEN 1 ELSE 0)
              - (IF turn[c] \in {"create", "configure", "login"} THEN 1 ELSE 0)
  BY DEF AddingLogin
<1> HIDE DEF Moves
<1> QED
  BY <1>3, <1>5, <1>6, <1>7, <1>8 DEF CountsMove

LEMMA LazyInit == Lazy!Init => LazyInv
<1> SUFFICES ASSUME Lazy!Init PROVE LazyInv
  OBVIOUS
<1> USE DEF Lazy!Init
<1>1. LazyTypes
  <2>1. Lazy!NoObject \in Lazy!Object
    BY DEF Lazy!Object, Lazy!NoObject
  <2>2. objs \in Seq(Lazy!Object) /\ Len(objs) = 0
    OBVIOUS
  <2>3. 0 \in 0 .. 0 /\ 0 \in 0 .. MaxCalls
    BY Sizes
  <2> QED
    BY <2>1, <2>2, <2>3, Zenon DEF LazyTypes, Turns
<1>2. LazyPlaces /\ Unfinished /\ Lazy!IncompleteOnlyIfEarly
  BY DEF LazyPlaces, Unfinished, Lazy!IncompleteOnlyIfEarly, Lazy!NoObject, Lazy!Sites, Lazy!Ready
<1>3. Busy = {} /\ Creating = {} /\ AddingLogin = {}
  BY DEF Busy, Creating, AddingLogin, In
<1>4. EarlyCounts /\ ObjectsCount
  BY <1>3, FS_EmptySet DEF EarlyCounts, ObjectsCount
<1> QED
  BY <1>1, <1>2, <1>4 DEF LazyInv

\* Every object is a record of the sequence; one more, or one changed.
LEMMA ObjectAdded ==
  ASSUME objs \in Seq(Lazy!Object), NEW o \in Lazy!Object, objs' = Append(objs, o)
  PROVE  /\ objs' \in Seq(Lazy!Object) /\ Len(objs') = Len(objs) + 1 /\ Len(objs) \in Nat
         /\ DOMAIN objs = 1 .. Len(objs) /\ DOMAIN objs' = 1 .. Len(objs')
         /\ \A i \in 1 .. Len(objs) : objs'[i] = objs[i]
         /\ objs'[Len(objs')] = o
OBVIOUS

LEMMA ObjectChanged ==
  ASSUME objs \in Seq(Lazy!Object), NEW k \in 1 .. Len(objs), NEW o \in Lazy!Object,
         objs' = [objs EXCEPT ![k] = o]
  PROVE  /\ objs' \in Seq(Lazy!Object) /\ Len(objs') = Len(objs) /\ Len(objs) \in Nat
         /\ DOMAIN objs = 1 .. Len(objs) /\ DOMAIN objs' = 1 .. Len(objs)
         /\ \A i \in 1 .. Len(objs) : i # k => objs'[i] = objs[i]
         /\ objs'[k] = o
OBVIOUS

\* A caller that hands out is busy and makes nothing.
LEMMA HandIsBusy ==
  ASSUME LazyTypes, NEW c \in Callers, turn[c] = "hand"
  PROVE  Cardinality(Making) + 1 <= Cardinality(Busy)
<1>1. /\ Making \subseteq Busy \ {c} /\ Busy \subseteq Callers /\ c \in Busy
  BY DEF LazyTypes, Making, Busy, In, Turns
<1>2. IsFiniteSet(Busy) /\ IsFiniteSet(Busy \ {c})
  BY <1>1, Sizes, FS_Subset
<1>3. Cardinality(Busy \ {c}) = Cardinality(Busy) - 1 /\ Cardinality(Busy) \in Nat
  BY <1>1, <1>2, FS_RemoveElement, FS_CardinalityType
<1>4. Cardinality(Making) <= Cardinality(Busy \ {c}) /\ Cardinality(Making) \in Nat
  BY <1>1, <1>2, FS_Subset, FS_CardinalityType
<1> QED
  BY <1>3, <1>4

\* A caller that still makes something is not alone with one that hands out.
LEMMA MakerIsEarly ==
  ASSUME LazyTypes, EarlyCounts, NEW c \in Callers, turn[c] = "hand",
         NEW d \in Callers, turn[d] \in Turns \ {"idle", "hand"}
  PROVE  early > 1
<1>1. d \in Making /\ Making \subseteq Callers
  BY DEF Making, In
<1>2. IsFiniteSet(Making) /\ Cardinality(Making) \in Nat /\ Cardinality(Making) # 0
  BY <1>1, Sizes, FS_Subset, FS_CardinalityType, FS_EmptySet
<1>3. Cardinality(Busy) \in Nat
  BY Sizes, FS_Subset, FS_CardinalityType DEF Busy, In
<1>4. Cardinality(Making) + 1 <= Cardinality(Busy)
  BY HandIsBusy
<1> QED
  BY <1>2, <1>3, <1>4 DEF EarlyCounts, LazyTypes

\* Every step of a call keeps it.
LEMMA LazyStep == LazyInv /\ [Lazy!Next]_Lazy!lazyVars => LazyInv'
<1> SUFFICES ASSUME LazyInv, [Lazy!Next]_Lazy!lazyVars PROVE LazyInv'
  OBVIOUS
<1>1. LazyTypes /\ LazyPlaces /\ EarlyCounts /\ ObjectsCount /\ Unfinished
      /\ Lazy!IncompleteOnlyIfEarly
  BY DEF LazyInv
<1>2. /\ Cardinality(Busy) \in Nat /\ Cardinality(Making) \in Nat
      /\ Cardinality(Creating) \in Nat /\ Cardinality(AddingLogin) \in Nat
  BY Sizes, FS_Subset, FS_CardinalityType DEF Busy, Making, Creating, AddingLogin, In
<1>3. /\ DOMAIN objs = 1 .. Len(objs) /\ Len(objs) \in Nat /\ early \in Nat
      /\ \A i \in DOMAIN objs : objs[i] \in Lazy!Object /\ objs[i].logins \in Nat
  <2>1. objs \in Seq(Lazy!Object) /\ early \in Nat
    BY <1>1 DEF LazyTypes
  <2>2. DOMAIN objs = 1 .. Len(objs) /\ Len(objs) \in Nat /\ \A i \in DOMAIN objs : objs[i] \in Lazy!Object
    BY <2>1
  <2>3. \A o \in Lazy!Object : o.logins \in Nat
    BY DEF Lazy!Object
  <2> QED
    BY <2>1, <2>2, <2>3
<1>4. CASE UNCHANGED Lazy!lazyVars
  BY <1>1, <1>4 DEF Lazy!lazyVars, LazyInv, LazyTypes, LazyPlaces, EarlyCounts, ObjectsCount, Unfinished,
                    Busy, Making, Creating, AddingLogin, In, Lazy!IncompleteOnlyIfEarly
<1>5. ASSUME NEW c \in Callers, Lazy!Call(c) PROVE LazyInv'
  <2> USE <1>5 DEF Lazy!Call, Lazy!Goto
  <2>1. LazyTypes'
    BY <1>1, Sizes DEF LazyTypes, Turns
  <2>2. LazyPlaces'
    BY <1>1 DEF LazyPlaces, LazyTypes
  <2>3. shared = 0 \/ shared # 0
    OBVIOUS
  <2>4. EarlyCounts' /\ ObjectsCount'
    <3>1. CASE shared = 0
      <4>1. (\E w \in Turns : turn' = [turn EXCEPT ![c] = w]) /\ turn'[c] = "create"
            /\ ~settled /\ turn[c] = "idle"
            /\ early' = early + 1 /\ objs' = objs /\ settled' = settled
        BY <1>1, <3>1 DEF LazyPlaces, LazyTypes, Turns
      <4>2. CountsMove(c)
        BY <1>1, <4>1, LazyCounts
      <4> QED
        BY ONLY <1>1, <1>2, <1>3, <4>1, <4>2, SMTT(30) DEF CountsMove, EarlyCounts, ObjectsCount
    <3>2. CASE shared # 0
      <4>1. (\E w \in Turns : turn' = [turn EXCEPT ![c] = w]) /\ turn'[c] = "hand"
            /\ turn[c] = "idle" /\ early' \in Nat
            /\ early' >= early /\ (~settled => early' = early + 1) /\ objs' = objs
            /\ settled' = settled
        BY <1>1, <1>3, <3>2 DEF LazyTypes, Turns
      <4>2. CountsMove(c)
        BY <1>1, <4>1, LazyCounts
      <4> QED
        BY ONLY <1>1, <1>2, <1>3, <4>1, <4>2 DEF CountsMove, EarlyCounts, ObjectsCount
    <3> QED
      BY <3>1, <3>2
  <2>5. Unfinished'
    BY <1>1 DEF Unfinished, LazyTypes
  <2>6. Lazy!IncompleteOnlyIfEarly'
    BY <1>1, <1>3 DEF Lazy!IncompleteOnlyIfEarly
  <2> QED
    BY <2>1, <2>2, <2>4, <2>5, <2>6 DEF LazyInv
<1>6. ASSUME NEW c \in Callers, Lazy!CreatePool(c) PROVE LazyInv'
  <2> USE <1>6 DEF Lazy!CreatePool, Lazy!Goto, Lazy!New
  <2>1. Lazy!Ready \in Lazy!Object /\ Lazy!Ready.logins = 0
    BY DEF Lazy!Ready, Lazy!Object
  <2>2. /\ objs' \in Seq(Lazy!Object) /\ Len(objs') = Len(objs) + 1
        /\ DOMAIN objs' = 1 .. Len(objs') /\ objs'[Len(objs')] = Lazy!Ready
        /\ \A i \in 1 .. Len(objs) : objs'[i] = objs[i]
    BY <1>1, <2>1, ObjectAdded DEF LazyTypes
  <2>3. LazyTypes'
    BY <1>1, <1>3, <2>2 DEF LazyTypes, Turns
  <2>4. LazyPlaces'
    BY <1>1, <1>3, <2>2 DEF LazyPlaces, LazyTypes
  <2>5. CountsMove(c) /\ turn[c] = "create" /\ turn'[c] = "assign"
    BY <1>1, LazyCounts DEF LazyTypes, Turns
  <2>6. EarlyCounts' /\ ObjectsCount'
    BY <1>1, <1>2, <1>3, <2>1, <2>2, <2>5, SMTT(30) DEF CountsMove, EarlyCounts, ObjectsCount
  <2>7. Unfinished'
    BY <1>1, <1>3, <2>2 DEF Unfinished
  <2>8. Lazy!IncompleteOnlyIfEarly'
    BY <1>1 DEF Lazy!IncompleteOnlyIfEarly
  <2> QED
    BY <2>3, <2>4, <2>6, <2>7, <2>8 DEF LazyInv
<1>7. ASSUME NEW c \in Callers, Lazy!Connect(c) PROVE LazyInv'
  <2> USE <1>7 DEF Lazy!Connect, Lazy!Goto, Lazy!New
  <2>1. Lazy!Ready \in Lazy!Object /\ Lazy!Ready.logins = 0
    BY DEF Lazy!Ready, Lazy!Object
  <2>2. CASE objs' = Append(objs, Lazy!Ready) /\ mine' = [mine EXCEPT ![c] = Len(objs')]
             /\ turn' = [turn EXCEPT ![c] = "assign"]
    <3>2. /\ objs' \in Seq(Lazy!Object) /\ Len(objs') = Len(objs) + 1
          /\ DOMAIN objs' = 1 .. Len(objs') /\ objs'[Len(objs')] = Lazy!Ready
          /\ \A i \in 1 .. Len(objs) : objs'[i] = objs[i]
      BY <1>1, <2>1, <2>2, ObjectAdded DEF LazyTypes
    <3>3. LazyTypes'
      BY <1>1, <1>3, <2>2, <3>2 DEF LazyTypes, Turns
    <3>4. LazyPlaces'
      BY <1>1, <1>3, <2>2, <3>2 DEF LazyPlaces, LazyTypes
    <3>5. CountsMove(c) /\ turn[c] = "create" /\ turn'[c] = "assign"
      BY <1>1, <2>2, LazyCounts DEF LazyTypes, Turns
    <3>6. EarlyCounts' /\ ObjectsCount'
      <4>1. early' = early /\ settled' = settled
        OBVIOUS
      <4>2. EarlyCounts'
        BY ONLY <1>1, <1>2, <1>3, <3>5, <4>1 DEF CountsMove, EarlyCounts
      <4>3. /\ Cardinality(Creating') = Cardinality(Creating) - 1
            /\ Cardinality(AddingLogin') = Cardinality(AddingLogin) - 1
        BY ONLY <1>2, <3>5 DEF CountsMove
      <4>4. ObjectsCount'
        <5>1. Len(objs') + Cardinality(Creating') <= early' /\ Cardinality(AddingLogin') <= early'
          BY ONLY <1>1, <1>2, <1>3, <3>2, <4>1, <4>3 DEF ObjectsCount
        <5>2. ASSUME NEW i \in DOMAIN objs'
              PROVE  objs'[i].logins + Cardinality(AddingLogin') <= early'
          <6>1. CASE i \in 1 .. Len(objs)
            <7>1. objs'[i] = objs[i] /\ objs[i].logins \in Nat
              BY ONLY <1>3, <3>2, <6>1
            <7>2. objs[i].logins + Cardinality(AddingLogin) <= early
              BY <1>1, <1>3, <6>1 DEF ObjectsCount
            <7> QED
              BY ONLY <1>2, <1>3, <4>1, <4>3, <7>1, <7>2
          <6>2. CASE i = Len(objs')
            <7>1. objs'[i].logins = 0
              BY ONLY <2>1, <3>2, <6>2
            <7> QED
              BY ONLY <1>2, <1>3, <4>1, <4>3, <5>1, <7>1
          <6> QED
            BY <1>3, <3>2, <6>1, <6>2
        <5> QED
          BY <5>1, <5>2 DEF ObjectsCount
      <4> QED
        BY <4>2, <4>4
    <3>7. Unfinished'
      BY <1>1, <1>3, <3>2 DEF Unfinished
    <3>8. Lazy!IncompleteOnlyIfEarly'
      BY <1>1 DEF Lazy!IncompleteOnlyIfEarly
    <3> QED
      BY <3>3, <3>4, <3>6, <3>7, <3>8 DEF LazyInv
  <2>3. CASE turn' = [turn EXCEPT ![c] = "hand"] /\ UNCHANGED <<objs, mine>>
    <3>3. LazyTypes' /\ LazyPlaces'
      BY <1>1, <2>3 DEF LazyTypes, LazyPlaces, Turns
    <3>5. CountsMove(c) /\ turn[c] = "create" /\ turn'[c] = "hand"
      BY <1>1, <2>3, LazyCounts DEF LazyTypes, Turns
    <3>6. EarlyCounts' /\ ObjectsCount'
      BY <1>1, <1>2, <1>3, <2>3, <3>5, SMTT(30) DEF CountsMove, EarlyCounts, ObjectsCount
    <3>7. Unfinished' /\ Lazy!IncompleteOnlyIfEarly'
      BY <1>1, <2>3 DEF Unfinished, Lazy!IncompleteOnlyIfEarly
    <3> QED
      BY <3>3, <3>6, <3>7 DEF LazyInv
  <2> QED
    BY <2>2, <2>3
<1>8. ASSUME NEW c \in Callers, Lazy!Assign(c) PROVE LazyInv'
  <2> USE <1>8 DEF Lazy!Assign, Lazy!Goto
  <2>1. LazyTypes' /\ LazyPlaces'
    BY <1>1 DEF LazyTypes, LazyPlaces, Turns
  <2>2. CountsMove(c) /\ turn[c] = "assign" /\ turn'[c] = "hand"
    BY <1>1, LazyCounts DEF LazyTypes, Turns
  <2>3. EarlyCounts' /\ ObjectsCount'
    BY <1>1, <1>2, <1>3, <2>2 DEF CountsMove, EarlyCounts, ObjectsCount
  <2>4. Unfinished' /\ Lazy!IncompleteOnlyIfEarly'
    BY <1>1 DEF Unfinished, LazyPlaces, Lazy!IncompleteOnlyIfEarly
  <2> QED
    BY <2>1, <2>3, <2>4 DEF LazyInv
<1>9. ASSUME NEW c \in Callers, Lazy!CreateAssigned(c) PROVE LazyInv'
  <2> USE <1>9 DEF Lazy!CreateAssigned, Lazy!Goto, Lazy!New
  <2>1. Lazy!Raw \in Lazy!Object /\ Lazy!Raw.logins = 0 /\ Lazy!Raw.state = "raw"
    BY DEF Lazy!Raw, Lazy!Object
  <2>2. /\ objs' \in Seq(Lazy!Object) /\ Len(objs') = Len(objs) + 1
        /\ DOMAIN objs' = 1 .. Len(objs') /\ objs'[Len(objs')] = Lazy!Raw
        /\ \A i \in 1 .. Len(objs) : objs'[i] = objs[i]
    BY <1>1, <2>1, ObjectAdded DEF LazyTypes
  <2>3. LazyTypes'
    BY <1>1, <1>3, <2>2 DEF LazyTypes, Turns
  <2>4. LazyPlaces'
    BY <1>1, <1>3, <2>2 DEF LazyPlaces, LazyTypes
  <2>5. CountsMove(c) /\ turn[c] = "create" /\ turn'[c] \in {"open", "configure"}
    BY <1>1, LazyCounts DEF LazyTypes, Turns
  <2>6. EarlyCounts' /\ ObjectsCount'
    <3>1. EarlyCounts'
      BY <1>1, <1>2, <2>5 DEF CountsMove, EarlyCounts
    <3>2. /\ Cardinality(Creating') = Cardinality(Creating) - 1
          /\ Cardinality(AddingLogin') <= Cardinality(AddingLogin)
          /\ Cardinality(AddingLogin') \in Int
      BY <1>2, <2>5 DEF CountsMove
    <3>3. ObjectsCount'
      BY <1>1, <1>2, <1>3, <2>1, <2>2, <3>2, SMTT(30) DEF ObjectsCount
    <3> QED
      BY <3>1, <3>3
  <2>7. Unfinished'
    <3>1. CASE site = "thrift"
      <4>1. turn'[c] = "open" /\ mine'[c] = Len(objs')
        BY <1>1, <3>1 DEF LazyTypes
      <4>2. ASSUME NEW i \in DOMAIN objs', objs'[i].state = "raw"
            PROVE  \E d \in Callers : turn'[d] = "open" /\ mine'[d] = i
        <5>1. CASE i = Len(objs')
          BY <4>1, <5>1
        <5>2. CASE i # Len(objs')
          <6>1. i \in DOMAIN objs /\ objs[i].state = "raw"
            BY <1>3, <2>2, <4>2, <5>2
          <6>2. PICK d \in Callers : turn[d] = "open" /\ mine[d] = i
            BY <1>1, <3>1, <6>1 DEF Unfinished
          <6> QED
            BY <1>1, <6>2 DEF LazyTypes
        <5> QED
          BY <5>1, <5>2
      <4> QED
        BY <3>1, <4>2 DEF Unfinished
    <3>2. CASE site = "cxf"
      <4>1. shared' = Len(objs') /\ turn'[c] = "configure"
        BY <1>1, <3>2 DEF LazyTypes
      <4>2. \A i \in DOMAIN objs' : objs'[i].state # "failed"
        BY <1>1, <1>3, <2>1, <2>2, <3>2 DEF Unfinished, LazyTypes
      <4> QED
        BY <3>2, <4>1, <4>2 DEF Unfinished
    <3> QED
      BY <3>1, <3>2
  <2>8. Lazy!IncompleteOnlyIfEarly'
    BY <1>1 DEF Lazy!IncompleteOnlyIfEarly
  <2> QED
    BY <2>3, <2>4, <2>6, <2>7, <2>8 DEF LazyInv
<1>10. ASSUME NEW c \in Callers, Lazy!Open(c) PROVE LazyInv'
  <2> USE <1>10 DEF Lazy!Open, Lazy!Goto
  <2>1. PICK s \in {"ready", "failed"} : objs' = [objs EXCEPT ![mine[c]].state = s]
    OBVIOUS
  <2>2. mine[c] \in 1 .. Len(objs) /\ site = "thrift" /\ objs[mine[c]] \in Lazy!Object
    BY <1>1, <1>3 DEF LazyTypes, LazyPlaces
  <2> DEFINE o == [objs[mine[c]] EXCEPT !.state = s]
  <2>3. o \in Lazy!Object /\ o.state = s /\ o.logins = objs[mine[c]].logins
    BY <2>2 DEF Lazy!Object
  <2>4. objs' = [objs EXCEPT ![mine[c]] = o]
    BY <2>1
  <2> HIDE DEF o
  <2>5. /\ objs' \in Seq(Lazy!Object) /\ Len(objs') = Len(objs) /\ DOMAIN objs' = 1 .. Len(objs)
        /\ \A i \in 1 .. Len(objs) : i # mine[c] => objs'[i] = objs[i]
        /\ objs'[mine[c]] = o
    BY <1>1, <2>2, <2>3, <2>4, ObjectChanged DEF LazyTypes
  <2>6. LazyTypes' /\ LazyPlaces'
    BY <1>1, <2>2, <2>5 DEF LazyTypes, LazyPlaces, Turns
  <2>7. CountsMove(c) /\ turn[c] = "open" /\ turn'[c] = "hand"
    BY <1>1, LazyCounts DEF LazyTypes, Turns
  <2>8. EarlyCounts'
    <3>1. Cardinality(Busy') = Cardinality(Busy) /\ Cardinality(Making') = Cardinality(Making) - 1
      BY ONLY <1>2, <2>7 DEF CountsMove
    <3>2. early' = early /\ settled' = settled
      OBVIOUS
    <3> QED
      BY ONLY <1>1, <1>2, <1>3, <3>1, <3>2 DEF EarlyCounts
  <2>9. ObjectsCount'
    <3>1. /\ Cardinality(Creating') = Cardinality(Creating)
          /\ Cardinality(AddingLogin') = Cardinality(AddingLogin)
      BY <1>2, <2>7 DEF CountsMove
    <3>2. \A i \in DOMAIN objs' : objs'[i].logins = objs[i].logins
      BY <1>3, <2>3, <2>5
    <3> QED
      BY <1>1, <1>3, <2>5, <3>1, <3>2 DEF ObjectsCount
  <2>10. Unfinished'
    <3>1. ASSUME NEW i \in DOMAIN objs', objs'[i].state = "raw"
          PROVE  \E d \in Callers : turn'[d] = "open" /\ mine'[d] = i
      <4>1. i # mine[c] /\ i \in DOMAIN objs /\ objs[i].state = "raw"
        BY <1>3, <2>3, <2>5, <3>1
      <4>2. PICK d \in Callers : turn[d] = "open" /\ mine[d] = i
        BY <1>1, <2>2, <4>1 DEF Unfinished
      <4> QED
        BY <1>1, <4>1, <4>2 DEF LazyTypes
    <3> QED
      BY <2>2, <3>1 DEF Unfinished
  <2>11. Lazy!IncompleteOnlyIfEarly'
    BY <1>1 DEF Lazy!IncompleteOnlyIfEarly
  <2> QED
    BY <2>6, <2>8, <2>9, <2>10, <2>11 DEF LazyInv
<1>11. ASSUME NEW c \in Callers, Lazy!Configure(c) PROVE LazyInv'
  <2> USE <1>11 DEF Lazy!Configure, Lazy!Goto
  <2>2. shared \in 1 .. Len(objs) /\ site = "cxf" /\ objs[shared] \in Lazy!Object
    BY <1>1, <1>3 DEF LazyTypes, LazyPlaces
  <2> DEFINE o == [objs[shared] EXCEPT !.state = "ready"]
  <2>3. o \in Lazy!Object /\ o.state = "ready" /\ o.logins = objs[shared].logins
    BY <2>2 DEF Lazy!Object
  <2>4. objs' = [objs EXCEPT ![shared] = o]
    OBVIOUS
  <2> HIDE DEF o
  <2>5. /\ objs' \in Seq(Lazy!Object) /\ Len(objs') = Len(objs) /\ DOMAIN objs' = 1 .. Len(objs)
        /\ \A i \in 1 .. Len(objs) : i # shared => objs'[i] = objs[i]
        /\ objs'[shared] = o
    BY <1>1, <2>2, <2>3, <2>4, ObjectChanged DEF LazyTypes
  <2>6. LazyTypes' /\ LazyPlaces'
    BY <1>1, <2>2, <2>5 DEF LazyTypes, LazyPlaces, Turns
  <2>7. CountsMove(c) /\ turn[c] = "configure" /\ turn'[c] = "login"
    BY <1>1, LazyCounts DEF LazyTypes, Turns
  <2>8. EarlyCounts'
    BY <1>1, <1>2, <2>7 DEF CountsMove, EarlyCounts
  <2>9. ObjectsCount'
    <3>1. /\ Cardinality(Creating') = Cardinality(Creating)
          /\ Cardinality(AddingLogin') = Cardinality(AddingLogin)
      BY <1>2, <2>7 DEF CountsMove
    <3>2. \A i \in DOMAIN objs' : objs'[i].logins = objs[i].logins
      BY <1>3, <2>3, <2>5
    <3> QED
      BY <1>1, <1>3, <2>5, <3>1, <3>2 DEF ObjectsCount
  <2>10. Unfinished'
    BY <1>1, <1>3, <2>2, <2>3, <2>5, <2>7 DEF Unfinished
  <2>11. Lazy!IncompleteOnlyIfEarly'
    BY <1>1 DEF Lazy!IncompleteOnlyIfEarly
  <2> QED
    BY <2>6, <2>8, <2>9, <2>10, <2>11 DEF LazyInv
<1>12. ASSUME NEW c \in Callers, Lazy!Login(c) PROVE LazyInv'
  <2> USE <1>12 DEF Lazy!Login, Lazy!Goto
  <2>2. shared \in 1 .. Len(objs) /\ site = "cxf" /\ objs[shared] \in Lazy!Object
    BY <1>1, <1>3 DEF LazyTypes, LazyPlaces
  <2> DEFINE o == [objs[shared] EXCEPT !.logins = @ + 1]
  <2>3. o \in Lazy!Object /\ o.state = objs[shared].state /\ o.logins = objs[shared].logins + 1
    BY <2>2 DEF Lazy!Object
  <2>4. objs' = [objs EXCEPT ![shared] = o]
    OBVIOUS
  <2> HIDE DEF o
  <2>5. /\ objs' \in Seq(Lazy!Object) /\ Len(objs') = Len(objs) /\ DOMAIN objs' = 1 .. Len(objs)
        /\ \A i \in 1 .. Len(objs) : i # shared => objs'[i] = objs[i]
        /\ objs'[shared] = o
    BY <1>1, <2>2, <2>3, <2>4, ObjectChanged DEF LazyTypes
  <2>6. LazyTypes' /\ LazyPlaces'
    BY <1>1, <2>2, <2>5 DEF LazyTypes, LazyPlaces, Turns
  <2>7. CountsMove(c) /\ turn[c] = "login" /\ turn'[c] = "hand"
    BY <1>1, LazyCounts DEF LazyTypes, Turns
  <2>8. EarlyCounts'
    <3>1. Cardinality(Busy') = Cardinality(Busy) /\ Cardinality(Making') = Cardinality(Making) - 1
      BY ONLY <1>2, <2>7 DEF CountsMove
    <3>2. early' = early /\ settled' = settled
      OBVIOUS
    <3> QED
      BY ONLY <1>1, <1>2, <1>3, <3>1, <3>2 DEF EarlyCounts
  <2>9. ObjectsCount'
    <3>1. /\ Cardinality(Creating') = Cardinality(Creating)
          /\ Cardinality(AddingLogin') = Cardinality(AddingLogin) - 1
      BY <1>2, <2>7 DEF CountsMove
    <3>2. \A i \in DOMAIN objs' : objs'[i].logins \in Nat /\ objs'[i].logins <= objs[i].logins + 1
      BY <1>3, <2>3, <2>5
    <3>3. early' = early /\ DOMAIN objs' = DOMAIN objs
      BY <1>3, <2>5
    <3> QED
      BY ONLY <1>1, <1>2, <1>3, <2>5, <3>1, <3>2, <3>3, SMTT(30) DEF ObjectsCount
  <2>10. Unfinished'
    <3>1. \A i \in DOMAIN objs' : objs'[i].state # "failed"
      BY <1>1, <1>3, <2>2, <2>3, <2>5 DEF Unfinished
    <3>2. o.logins > 0 /\ objs'[shared] = o
      BY <1>3, <2>2, <2>3, <2>5
    <3>3. o.state = "ready" \/ \E d \in Callers : turn'[d] = "configure"
      <4>1. o.state = "ready" \/ \E d \in Callers : turn[d] = "configure"
        BY <1>1, <2>2, <2>3 DEF Unfinished
      <4> QED
        BY <1>1, <2>7, <4>1 DEF LazyTypes
    <3> QED
      BY <2>2, <3>1, <3>2, <3>3 DEF Unfinished
  <2>11. Lazy!IncompleteOnlyIfEarly'
    BY <1>1 DEF Lazy!IncompleteOnlyIfEarly
  <2> QED
    BY <2>6, <2>8, <2>9, <2>10, <2>11 DEF LazyInv
<1>13. ASSUME NEW c \in Callers, Lazy!Hand(c) PROVE LazyInv'
  <2> USE <1>13 DEF Lazy!Hand, Lazy!Goto
  <2>1. Lazy!NoObject \in Lazy!Object /\ Lazy!NoObject.state = "failed"
    BY DEF Lazy!NoObject, Lazy!Object
  <2>2. shared # 0 => shared \in DOMAIN objs /\ objs[shared] \in Lazy!Object
    BY <1>1, <1>3 DEF LazyTypes
  <2>3. LazyTypes' /\ LazyPlaces'
    BY <1>1, <2>1, <2>2 DEF LazyTypes, LazyPlaces, Turns
  <2>4. CountsMove(c) /\ turn[c] = "hand" /\ turn'[c] = "idle"
    BY <1>1, LazyCounts DEF LazyTypes, Turns
  <2>5. Cardinality(Making) + 1 <= Cardinality(Busy)
    BY <1>1, HandIsBusy
  <2>6. EarlyCounts' /\ ObjectsCount'
    <3>1. /\ Cardinality(Busy') = Cardinality(Busy) - 1 /\ Cardinality(Making') = Cardinality(Making)
          /\ Cardinality(Creating') = Cardinality(Creating)
          /\ Cardinality(AddingLogin') = Cardinality(AddingLogin)
      BY ONLY <1>2, <2>4 DEF CountsMove
    <3>2. early' = early /\ objs' = objs /\ settled' \in BOOLEAN /\ (settled => settled')
      BY <1>1 DEF LazyTypes
    <3>3. EarlyCounts'
      BY ONLY <1>1, <1>2, <1>3, <2>5, <3>1, <3>2 DEF EarlyCounts
    <3>4. ObjectsCount'
      BY ONLY <1>1, <1>2, <1>3, <3>1, <3>2 DEF ObjectsCount
    <3> QED
      BY <3>3, <3>4
  <2>7. Unfinished'
    BY <1>1 DEF Unfinished
  <2>8. Lazy!IncompleteOnlyIfEarly'
    <3>1. ASSUME shared # 0,
                 objs[shared].state = "raw"
                   \/ (site = "cxf" /\ objs[shared].state = "ready" /\ objs[shared].logins = 0)
          PROVE  site \in {"thrift", "cxf"} /\ early > 1
      <4>1. site \in {"thrift", "cxf"}
        <5>1. Lazy!Ready.state = "ready"
          BY DEF Lazy!Ready
        <5> QED
          BY <1>1, <2>2, <3>1, <5>1 DEF Unfinished, LazyTypes, Lazy!Sites
      <4>2. PICK d \in Callers : turn[d] \in {"open", "configure", "login"}
        BY <1>1, <2>2, <3>1, <4>1 DEF Unfinished
      <4>3. turn[d] \in Turns \ {"idle", "hand"}
        BY <4>2 DEF Turns
      <4> QED
        BY <1>1, <4>1, <4>3, <2>4, MakerIsEarly
    <3>2. ASSUME NEW e \in Callers,
                 handed'[e].state = "raw"
                   \/ (site = "cxf" /\ handed'[e].state = "ready" /\ handed'[e].logins = 0)
          PROVE  site \in {"thrift", "cxf"} /\ early > 1
      <4>1. CASE e # c \/ shared = 0
        BY <1>1, <2>1, <3>2, <4>1 DEF Lazy!IncompleteOnlyIfEarly, LazyTypes
      <4>2. CASE e = c /\ shared # 0
        <5>1. handed'[e] = objs[shared]
          BY <1>1, <4>2 DEF LazyTypes
        <5> QED
          BY <3>1, <3>2, <4>2, <5>1
      <4> QED
        BY <4>1, <4>2
    <3> QED
      BY <3>2 DEF Lazy!IncompleteOnlyIfEarly
  <2> QED
    BY <2>3, <2>6, <2>7, <2>8 DEF LazyInv
<1> QED
  BY <1>4, <1>5, <1>6, <1>7, <1>8, <1>9, <1>10, <1>11, <1>12, <1>13 DEF Lazy!Next

\* What the run checks of the first calls follows from the invariant.
LEMMA LazyFollows == LazyInv => CreatedWhole /\ Lazy!TypeOK
<1> SUFFICES ASSUME LazyInv PROVE CreatedWhole /\ Lazy!TypeOK
  OBVIOUS
<1>1. LazyTypes /\ LazyPlaces /\ ObjectsCount /\ Unfinished /\ Lazy!IncompleteOnlyIfEarly
  BY DEF LazyInv
<1>2. Lazy!TypeOK
  BY <1>1 DEF Lazy!TypeOK, LazyTypes, LazyPlaces, Turns
<1>3. /\ DOMAIN objs = 1 .. Len(objs) /\ Len(objs) \in Nat /\ early \in Nat
      /\ \A i \in DOMAIN objs : objs[i] \in Lazy!Object
  BY <1>1 DEF LazyTypes
<1>4. Cardinality(Creating) \in Nat /\ Cardinality(AddingLogin) \in Nat
  BY Sizes, FS_Subset, FS_CardinalityType DEF Creating, AddingLogin, In
<1>5. Lazy!CreatedOnlyTogether
  <2>1. \A i \in DOMAIN objs : objs[i].logins \in Nat
    BY <1>3 DEF Lazy!Object
  <2> QED
    BY <1>1, <1>3, <1>4, <2>1 DEF ObjectsCount, Lazy!CreatedOnlyTogether
<1>6. Lazy!CompleteAtRest
  <2> SUFFICES ASSUME \A c \in Callers : turn[c] = "idle", shared # 0
               PROVE  Lazy!Complete(objs[shared]) \/ (site = "thrift" /\ Lazy!OpenFailed)
    BY DEF Lazy!CompleteAtRest
  <2>1. shared \in DOMAIN objs /\ objs[shared] \in Lazy!Object
    BY <1>1, <1>3 DEF LazyTypes
  <2>2. objs[shared].state \in {"raw", "ready", "failed"}
    BY <2>1 DEF Lazy!Object
  <2>3. CASE site \in {"headler", "connection"}
    BY <1>1, <2>1, <2>3 DEF Unfinished, Lazy!Ready, Lazy!Complete
  <2>4. CASE site = "thrift"
    BY <1>1, <2>1, <2>2, <2>4 DEF Unfinished, Lazy!OpenFailed, Lazy!Complete
  <2>5. CASE site = "cxf"
    BY <1>1, <2>1, <2>5 DEF Unfinished, Lazy!Complete
  <2> QED
    BY <1>1, <2>3, <2>4, <2>5 DEF LazyTypes, Lazy!Sites
<1> QED
  BY <1>1, <1>2, <1>5, <1>6 DEF CreatedWhole, Lazy!CreatedWhole

(***************************************************************************)
(* The limit: the inductive invariant, by parts.                           *)
(***************************************************************************)

\* The points below a curve: how the admissions of all limiters are added up.
Below(f, n, k) == {p \in (1 .. n) \X (1 .. k) : p[2] <= f[p[1]]}

Limiter == [free : 0 .. MaxClock + 1, saved : 0 .. LimitCount]

RateTypes ==
  /\ clock \in 0 .. MaxClock
  /\ limiters \in Seq(Limiter) /\ rateMap \in 0 .. Len(limiters)
  /\ where \in [RateCallers -> {"idle", "create", "put", "acquire"}]
  /\ own \in [RateCallers -> 0 .. Len(limiters)]
  /\ tries \in [RateCallers -> 0 .. MaxRateCalls]
  /\ admitted \in Nat /\ burst \in 0 .. admitted
  /\ began \in Nat /\ answered \in BOOLEAN

\* Whoever is at a limiter has one, and then the map has one too.
RatePlaces ==
  /\ \A c \in RateCallers :
       /\ where[c] \in {"put", "acquire"} => own[c] # 0
       /\ where[c] = "acquire" => rateMap # 0
  /\ answered => rateMap # 0

Fresh == In(where, RateCallers, {"create"})

\* A caller about to make a limiter began before the first answer.
LimitersCount == Len(limiters) + Cardinality(Fresh) <= began

\* One permit is taken in advance at most, and none is saved that time did not give.
PermitsFit == \A i \in DOMAIN limiters :
  limiters[i].free <= clock + 1 /\ limiters[i].saved <= limiters[i].free

\* What a limiter can have admitted so far, and in the tick t.
Taken(l) == l.free - l.saved
TakenIn(l, t) == IF l.free > t THEN LimitCount + 1
                 ELSE IF l.free = t THEN LimitCount - l.saved ELSE 0

\* The same as curves over all limiters.
SoFar(ls) == [i \in 1 .. Len(ls) |-> Taken(ls[i])]
Now(ls, t) == [i \in 1 .. Len(ls) |-> TakenIn(ls[i], t)]

AdmissionsCount ==
  /\ admitted <= Cardinality(Below(SoFar(limiters), Len(limiters), MaxClock + 1))
  /\ burst <= Cardinality(Below(Now(limiters, clock), Len(limiters), LimitCount + 1))

RateInv == RateTypes /\ RatePlaces /\ LimitersCount /\ PermitsFit /\ AdmissionsCount

\* The points below a curve are finitely many, and fit a rectangle it fits.
LEMMA BelowFits ==
  ASSUME NEW n \in Nat, NEW k \in Nat, NEW f
  PROVE  /\ IsFiniteSet(Below(f, n, k)) /\ Cardinality(Below(f, n, k)) \in Nat
         /\ \A b, h \in Nat : n <= b /\ (\A i \in 1 .. n : f[i] \in Int /\ f[i] <= h) =>
              Cardinality(Below(f, n, k)) <= b * h
<1>1. ASSUME NEW b \in Nat, NEW h \in Nat
      PROVE  IsFiniteSet((1 .. b) \X (1 .. h)) /\ Cardinality((1 .. b) \X (1 .. h)) = b * h
  <2>1. /\ IsFiniteSet(1 .. b) /\ IsFiniteSet(1 .. h)
        /\ Cardinality(1 .. b) = b /\ Cardinality(1 .. h) = h
    BY FS_Interval
  <2> DEFINE A == 1 .. b
             B == 1 .. h
  <2> HIDE DEF A, B
  <2>2. IsFiniteSet(A) /\ IsFiniteSet(B) /\ Cardinality(A) = b /\ Cardinality(B) = h
    BY <2>1 DEF A, B
  <2>3. IsFiniteSet(A \X B) /\ Cardinality(A \X B) = Cardinality(A) * Cardinality(B)
    BY <2>2, FS_Product
  <2> QED
    BY <2>2, <2>3 DEF A, B
<1>2. Below(f, n, k) \subseteq (1 .. n) \X (1 .. k)
  BY DEF Below
<1>3. IsFiniteSet(Below(f, n, k)) /\ Cardinality(Below(f, n, k)) \in Nat
  BY <1>1, <1>2, FS_Subset, FS_CardinalityType
<1>4. ASSUME NEW b \in Nat, NEW h \in Nat, n <= b, \A i \in 1 .. n : f[i] \in Int /\ f[i] <= h
      PROVE  Cardinality(Below(f, n, k)) <= b * h
  <2>1. Below(f, n, k) \subseteq (1 .. b) \X (1 .. h)
    BY <1>4 DEF Below
  <2> DEFINE R == (1 .. b) \X (1 .. h)
  <2>2. IsFiniteSet(R) /\ Cardinality(R) = b * h
    BY <1>1
  <2> HIDE DEF R
  <2>3. Cardinality(Below(f, n, k)) <= Cardinality(R)
    <3>1. Below(f, n, k) \subseteq R
      BY <2>1 DEF R
    <3> QED
      BY <2>2, <3>1, FS_Subset
  <2> QED
    BY <2>2, <2>3
<1> QED
  BY <1>3, <1>4

\* They grow with the curve, and by one at least where it rises.
LEMMA BelowGrows ==
  ASSUME NEW n \in Nat, NEW m \in Nat, n <= m, NEW k \in Nat, NEW f, NEW g,
         \A i \in 1 .. n : f[i] \in Int /\ g[i] \in Int /\ f[i] <= g[i]
  PROVE  /\ Cardinality(Below(f, n, k)) <= Cardinality(Below(g, m, k))
         /\ (\E j \in 1 .. n : f[j] < g[j] /\ g[j] \in 1 .. k) =>
              Cardinality(Below(f, n, k)) + 1 <= Cardinality(Below(g, m, k))
<1> DEFINE F == Below(f, n, k)
           G == Below(g, m, k)
<1>1. IsFiniteSet(F) /\ IsFiniteSet(G) /\ Cardinality(F) \in Nat /\ Cardinality(G) \in Nat
  BY BelowFits
<1>2. F \subseteq G
  BY DEF Below
<1>3. ASSUME NEW j \in 1 .. n, f[j] < g[j], g[j] \in 1 .. k
      PROVE  Cardinality(F) + 1 <= Cardinality(G)
  <2> DEFINE p == <<j, g[j]>>
  <2>1. p \in G /\ p \notin F
    BY <1>3 DEF Below
  <2> HIDE DEF F, G, p
  <2>2. F \subseteq G \ {p}
    BY <1>2, <2>1
  <2>3. IsFiniteSet(G \ {p}) /\ Cardinality(G \ {p}) = Cardinality(G) - 1
    BY <1>1, <2>1, FS_RemoveElement
  <2>4. Cardinality(F) <= Cardinality(G \ {p})
    BY <2>2, <2>3, FS_Subset
  <2> QED
    BY <1>1, <2>3, <2>4
<1> HIDE DEF F, G
<1>4. Cardinality(F) <= Cardinality(G)
  BY <1>1, <1>2, FS_Subset
<1> QED
  BY <1>3, <1>4 DEF F, G

\* What a permit does to a limiter.
LEMMA PermitTaken ==
  ASSUME RateTypes, NEW l \in Limiter, l.free <= clock, l.saved <= l.free,
         NEW m, m = Rate!Used(Rate!Refreshed(l))
  PROVE  /\ m \in Limiter /\ m.free <= clock + 1 /\ m.saved <= m.free
         /\ Taken(m) >= Taken(l) + 1
         /\ TakenIn(m, clock) >= TakenIn(l, clock) + 1
<1>1. /\ clock \in 0 .. MaxClock /\ clock \in Nat /\ MaxClock \in Nat /\ LimitCount \in Nat
      /\ l.free \in Nat /\ l.saved \in 0 .. LimitCount
  BY Sizes DEF RateTypes, Limiter
<1> DEFINE q == Rate!Refreshed(l)
<1>2. /\ q \in Limiter /\ q.free = clock /\ q.saved \in 0 .. LimitCount /\ q.saved <= clock
      /\ q.free - q.saved >= l.free - l.saved
      /\ (l.free = clock => q.saved = l.saved)
  <2>1. CASE clock > l.free
    <3>1. q = [free |-> clock, saved |-> Rate!Least(LimitCount, l.saved + clock - l.free)]
      BY <2>1 DEF Rate!Refreshed
    <3>2. /\ Rate!Least(LimitCount, l.saved + clock - l.free) \in 0 .. LimitCount
          /\ Rate!Least(LimitCount, l.saved + clock - l.free) <= l.saved + clock - l.free
      BY <1>1, <2>1 DEF Rate!Least
    <3> HIDE DEF q
    <3> QED
      BY <1>1, <2>1, <3>1, <3>2 DEF Limiter
  <2>2. CASE ~(clock > l.free)
    <3>1. q = l /\ l.free = clock
      BY <1>1, <2>2 DEF Rate!Refreshed
    <3> HIDE DEF q
    <3> QED
      BY <1>1, <3>1
  <2> QED
    BY <2>1, <2>2
<1> HIDE DEF q
<1>3. m = Rate!Used(q)
  BY DEF q
<1>4. CASE q.saved > 0
  <2>1. m = [q EXCEPT !.saved = @ - 1]
    BY <1>3, <1>4 DEF Rate!Used
  <2>2. m \in Limiter /\ m.free = clock /\ m.saved = q.saved - 1
    BY <1>1, <1>2, <1>4, <2>1 DEF Limiter
  <2> QED
    BY <1>1, <1>2, <1>4, <2>2 DEF Taken, TakenIn
<1>5. CASE q.saved = 0
  <2>1. m = [q EXCEPT !.free = @ + 1]
    BY <1>3, <1>5 DEF Rate!Used
  <2>2. m \in Limiter /\ m.free = clock + 1 /\ m.saved = 0
    BY <1>1, <1>2, <1>5, <2>1 DEF Limiter
  <2> QED
    BY <1>1, <1>2, <1>5, <2>2 DEF Taken, TakenIn
<1> QED
  BY <1>2, <1>4, <1>5

LEMMA RateInit == Rate!Init => RateInv
<1> SUFFICES ASSUME Rate!Init PROVE RateInv
  OBVIOUS
<1> USE DEF Rate!Init
<1>1. Len(limiters) = 0 /\ limiters \in Seq(Limiter) /\ DOMAIN limiters = {}
  OBVIOUS
<1>2. RateTypes
  <2>1. 0 \in 0 .. MaxClock /\ 0 \in 0 .. Len(limiters) /\ 0 \in 0 .. MaxRateCalls /\ 0 \in 0 .. 0
    BY <1>1, Sizes
  <2> QED
    BY <1>1, <2>1, Zenon DEF RateTypes
<1>3. RatePlaces /\ PermitsFit
  BY <1>1 DEF RatePlaces, PermitsFit
<1>4. Fresh = {}
  BY DEF Fresh, In
<1>5. LimitersCount
  BY <1>1, <1>4, FS_EmptySet DEF LimitersCount
<1>6. AdmissionsCount
  <2>1. Len(limiters) \in Nat /\ MaxClock + 1 \in Nat /\ LimitCount + 1 \in Nat
    BY <1>1, Sizes
  <2>2. /\ Cardinality(Below(SoFar(limiters), Len(limiters), MaxClock + 1)) \in Nat
        /\ Cardinality(Below(Now(limiters, clock), Len(limiters), LimitCount + 1)) \in Nat
    BY ONLY <2>1, BelowFits
  <2>3. admitted = 0 /\ burst = 0
    OBVIOUS
  <2> QED
    BY ONLY <2>2, <2>3 DEF AdmissionsCount
<1> QED
  BY <1>2, <1>3, <1>5, <1>6 DEF RateInv

\* The curves of the limiters stay under their bounds.
LEMMA CurvesFit ==
  ASSUME NEW ls \in Seq(Limiter), NEW t \in 0 .. MaxClock,
         \A i \in 1 .. Len(ls) : ls[i].free <= t + 1 /\ ls[i].saved <= ls[i].free
  PROVE  \A i \in 1 .. Len(ls) :
           /\ ls[i] \in Limiter
           /\ SoFar(ls)[i] = Taken(ls[i]) /\ SoFar(ls)[i] \in Nat
           /\ SoFar(ls)[i] <= t + 1 /\ SoFar(ls)[i] <= MaxClock + 1
           /\ Now(ls, t)[i] = TakenIn(ls[i], t) /\ Now(ls, t)[i] \in Nat
           /\ Now(ls, t)[i] <= LimitCount + 1
<1> TAKE i \in 1 .. Len(ls)
<1>1. ls[i] \in Limiter
  OBVIOUS
<1>2. /\ ls[i].free \in Nat /\ ls[i].saved \in 0 .. LimitCount
      /\ t \in Nat /\ t <= MaxClock /\ MaxClock \in Nat /\ LimitCount \in Nat
      /\ ls[i].free <= t + 1 /\ ls[i].saved <= ls[i].free
  BY <1>1, Sizes DEF Limiter
<1>3. SoFar(ls)[i] = Taken(ls[i]) /\ Now(ls, t)[i] = TakenIn(ls[i], t)
  BY DEF SoFar, Now
<1>4. /\ Taken(ls[i]) \in Nat /\ Taken(ls[i]) <= t + 1 /\ Taken(ls[i]) <= MaxClock + 1
      /\ TakenIn(ls[i], t) \in Nat /\ TakenIn(ls[i], t) <= LimitCount + 1
  BY ONLY <1>2 DEF Taken, TakenIn
<1> QED
  BY <1>1, <1>3, <1>4

\* Every step of a limited call, or of the clock, keeps it.
LEMMA RateStep == RateInv /\ [Rate!Next]_Rate!rateVars => RateInv'
<1> SUFFICES ASSUME RateInv, [Rate!Next]_Rate!rateVars PROVE RateInv'
  OBVIOUS
<1>1. RateTypes /\ RatePlaces /\ LimitersCount /\ PermitsFit /\ AdmissionsCount
  BY DEF RateInv
<1>2. /\ limiters \in Seq(Limiter) /\ Len(limiters) \in Nat /\ DOMAIN limiters = 1 .. Len(limiters)
      /\ clock \in 0 .. MaxClock /\ clock \in Nat /\ MaxClock \in Nat /\ LimitCount \in Nat
      /\ began \in Nat /\ admitted \in Nat /\ burst \in 0 .. admitted
  BY <1>1, Sizes DEF RateTypes
<1>c. \A i \in 1 .. Len(limiters) :
        /\ limiters[i] \in Limiter
        /\ SoFar(limiters)[i] = Taken(limiters[i]) /\ SoFar(limiters)[i] \in Nat
        /\ SoFar(limiters)[i] <= MaxClock + 1
        /\ Now(limiters, clock)[i] = TakenIn(limiters[i], clock) /\ Now(limiters, clock)[i] \in Nat
        /\ Now(limiters, clock)[i] <= LimitCount + 1
  <2>1. \A i \in 1 .. Len(limiters) : limiters[i].free <= clock + 1
                                     /\ limiters[i].saved <= limiters[i].free
    BY <1>1, <1>2 DEF PermitsFit
  <2> QED
    BY ONLY <1>2, <2>1, CurvesFit
<1>3. /\ Cardinality(Fresh) \in Nat
      /\ Cardinality(Below(SoFar(limiters), Len(limiters), MaxClock + 1)) \in Nat
      /\ Cardinality(Below(Now(limiters, clock), Len(limiters), LimitCount + 1)) \in Nat
  <2>1. Cardinality(Fresh) \in Nat
    BY Sizes, FS_Subset, FS_CardinalityType DEF Fresh, In
  <2>2. Len(limiters) \in Nat /\ MaxClock + 1 \in Nat /\ LimitCount + 1 \in Nat
    BY <1>2
  <2> QED
    BY <2>1, <2>2, BelowFits
<1>4. ASSUME NEW c \in RateCallers, \A x \in RateCallers : x # c => where'[x] = where[x]
      PROVE  Cardinality(Fresh') = Cardinality(Fresh)
               + (IF where'[c] = "create" THEN 1 ELSE 0) - (IF where[c] = "create" THEN 1 ELSE 0)
  <2>1. IsFiniteSet(RateCallers) /\ \A x \in RateCallers : x # c => where'[x] = where[x]
    BY <1>4, Sizes
  <2>2. Cardinality(In(where', RateCallers, {"create"})) = Cardinality(In(where, RateCallers, {"create"}))
               + (IF where'[c] \in {"create"} THEN 1 ELSE 0) - (IF where[c] \in {"create"} THEN 1 ELSE 0)
    BY ONLY <2>1, CountMoves, c \in RateCallers
  <2> QED
    BY <2>2 DEF Fresh
<1>5. CASE UNCHANGED Rate!rateVars
  BY <1>1, <1>5 DEF Rate!rateVars, RateInv, RateTypes, RatePlaces, LimitersCount, Fresh, In, PermitsFit,
                    AdmissionsCount
<1>6. ASSUME UNCHANGED <<limiters, clock, admitted, burst>> PROVE PermitsFit' /\ AdmissionsCount'
  BY <1>1, <1>6 DEF PermitsFit, AdmissionsCount
<1>7. CASE Rate!Tick
  <2> USE <1>7 DEF Rate!Tick
  <2>1. RateTypes' /\ RatePlaces' /\ LimitersCount'
    BY <1>1, <1>2 DEF RateTypes, RatePlaces, LimitersCount, Fresh, In
  <2>2. PermitsFit'
    <3>1. \A i \in DOMAIN limiters : limiters[i].free \in Nat
      BY <1>2, <1>c DEF Limiter
    <3> QED
      BY <1>1, <1>2, <3>1 DEF PermitsFit
  <2>3. AdmissionsCount'
    <3>1. limiters' = limiters
      OBVIOUS
    <3>2. Len(limiters) \in Nat /\ LimitCount + 1 \in Nat
      BY <1>2
    <3>3. Cardinality(Below(Now(limiters', clock'), Len(limiters'), LimitCount + 1)) \in Nat
      BY ONLY <3>1, <3>2, BelowFits
    <3>4. burst' = 0 /\ admitted' = admitted
      OBVIOUS
    <3> QED
      BY <1>1, <3>1, <3>3, <3>4 DEF AdmissionsCount
  <2> QED
    BY <2>1, <2>2, <2>3 DEF RateInv
<1>8. ASSUME NEW c \in RateCallers, Rate!Get(c) PROVE RateInv'
  <2> USE <1>8 DEF Rate!Get, Rate!Goto
  <2>1. RateTypes' /\ RatePlaces'
    BY <1>1, <1>2, Sizes DEF RateTypes, RatePlaces
  <2>2. /\ where[c] = "idle" /\ where'[c] = IF rateMap = 0 THEN "create" ELSE "acquire"
        /\ \A x \in RateCallers : x # c => where'[x] = where[x]
    BY <1>1 DEF RateTypes
  <2>3. Cardinality(Fresh') = Cardinality(Fresh) + IF rateMap = 0 THEN 1 ELSE 0
    BY ONLY <1>3, <1>4, <2>2, c \in RateCallers
  <2>4. LimitersCount'
    BY <1>1, <1>2, <1>3, <2>3 DEF LimitersCount, RatePlaces
  <2> QED
    BY <1>6, <2>1, <2>4 DEF RateInv
<1>9. ASSUME NEW c \in RateCallers, Rate!Create(c) PROVE RateInv'
  <2> USE <1>9 DEF Rate!Create, Rate!Goto
  <2> DEFINE new == [free |-> clock, saved |-> 0]
  <2>1. new \in Limiter /\ new.free = clock /\ new.saved = 0
    BY <1>2 DEF Limiter
  <2>2. limiters' = Append(limiters, new)
    OBVIOUS
  <2> HIDE DEF new
  <2>3. /\ limiters' \in Seq(Limiter) /\ Len(limiters') = Len(limiters) + 1
        /\ limiters'[Len(limiters')] = new /\ DOMAIN limiters' = 1 .. Len(limiters')
        /\ \A i \in 1 .. Len(limiters) : limiters'[i] = limiters[i]
    BY <1>2, <2>1, <2>2
  <2>4. RateTypes' /\ RatePlaces'
    BY <1>1, <1>2, <2>3 DEF RateTypes, RatePlaces
  <2>5. PermitsFit'
    BY <1>1, <1>2, <2>1, <2>3 DEF PermitsFit
  <2>6. LimitersCount'
    <3>1. /\ where[c] = "create" /\ where'[c] = "put"
          /\ \A x \in RateCallers : x # c => where'[x] = where[x]
      BY <1>1 DEF RateTypes
    <3>2. Cardinality(Fresh') = Cardinality(Fresh) - 1
      BY ONLY <1>3, <1>4, <3>1, c \in RateCallers
    <3> QED
      BY <1>1, <1>2, <1>3, <2>3, <3>2 DEF LimitersCount
  <2>7. AdmissionsCount'
    <3>1. \A i \in 1 .. Len(limiters') :
            /\ SoFar(limiters')[i] = Taken(limiters'[i]) /\ SoFar(limiters')[i] \in Nat
            /\ SoFar(limiters')[i] <= MaxClock + 1
            /\ Now(limiters', clock)[i] = TakenIn(limiters'[i], clock)
            /\ Now(limiters', clock)[i] \in Nat /\ Now(limiters', clock)[i] <= LimitCount + 1
      <4>1. \A i \in 1 .. Len(limiters') : limiters'[i].free <= clock + 1
                                          /\ limiters'[i].saved <= limiters'[i].free
        BY <2>3, <2>5 DEF PermitsFit
      <4> QED
        BY ONLY <1>2, <2>3, <4>1, CurvesFit
    <3>2. \A i \in 1 .. Len(limiters) : /\ SoFar(limiters)[i] <= SoFar(limiters')[i]
                                        /\ Now(limiters, clock)[i] <= Now(limiters', clock)[i]
      BY ONLY <1>2, <1>c, <2>3, <3>1
    <3>3. clock' = clock /\ admitted' = admitted /\ burst' = burst
      OBVIOUS
    <3>4. /\ Cardinality(Below(SoFar(limiters), Len(limiters), MaxClock + 1))
               <= Cardinality(Below(SoFar(limiters'), Len(limiters'), MaxClock + 1))
          /\ Cardinality(Below(Now(limiters, clock), Len(limiters), LimitCount + 1))
               <= Cardinality(Below(Now(limiters', clock'), Len(limiters'), LimitCount + 1))
      <4>1. /\ Len(limiters') \in Nat /\ Len(limiters) <= Len(limiters')
            /\ MaxClock + 1 \in Nat /\ LimitCount + 1 \in Nat
        BY <1>2, <2>3
      <4>2. Cardinality(Below(SoFar(limiters), Len(limiters), MaxClock + 1))
               <= Cardinality(Below(SoFar(limiters'), Len(limiters'), MaxClock + 1))
        <5>1. \A i \in 1 .. Len(limiters) : SoFar(limiters)[i] \in Int /\ SoFar(limiters')[i] \in Int
          BY <1>2, <2>3, <1>c, <3>1
        <5> QED
          BY ONLY <1>2, <3>2, <4>1, <5>1, BelowGrows
      <4>3. Cardinality(Below(Now(limiters, clock), Len(limiters), LimitCount + 1))
               <= Cardinality(Below(Now(limiters', clock), Len(limiters'), LimitCount + 1))
        <5>1. \A i \in 1 .. Len(limiters) : Now(limiters, clock)[i] \in Int /\ Now(limiters', clock)[i] \in Int
          BY <1>2, <2>3, <1>c, <3>1
        <5> QED
          BY ONLY <1>2, <3>2, <4>1, <5>1, BelowGrows
      <4> QED
        BY <3>3, <4>2, <4>3
    <3>5. /\ Cardinality(Below(SoFar(limiters'), Len(limiters'), MaxClock + 1)) \in Nat
          /\ Cardinality(Below(Now(limiters', clock), Len(limiters'), LimitCount + 1)) \in Nat
      <4>1. Len(limiters') \in Nat /\ MaxClock + 1 \in Nat /\ LimitCount + 1 \in Nat
        BY <1>2, <2>3
      <4> QED
        BY ONLY <4>1, BelowFits
    <3> QED
      BY <1>1, <1>2, <1>3, <3>3, <3>4, <3>5 DEF AdmissionsCount
  <2> QED
    BY <2>4, <2>5, <2>6, <2>7 DEF RateInv
<1>10. ASSUME NEW c \in RateCallers, Rate!Put(c) PROVE RateInv'
  <2> USE <1>10 DEF Rate!Put, Rate!Goto
  <2>1. RateTypes' /\ RatePlaces'
    BY <1>1, <1>2 DEF RateTypes, RatePlaces
  <2>2. /\ where[c] = "put" /\ where'[c] = "acquire"
        /\ \A x \in RateCallers : x # c => where'[x] = where[x]
    BY <1>1 DEF RateTypes
  <2>3. Cardinality(Fresh') = Cardinality(Fresh)
    BY ONLY <1>3, <1>4, <2>2, c \in RateCallers
  <2>4. LimitersCount'
    BY <1>1, <1>2, <1>3, <2>3 DEF LimitersCount
  <2> QED
    BY <1>6, <2>1, <2>4 DEF RateInv
<1>11. ASSUME NEW c \in RateCallers, Rate!Acquire(c) PROVE RateInv'
  <2> USE <1>11 DEF Rate!Acquire, Rate!Goto
  <2> DEFINE j == own[c]
             l == limiters[j]
             m == Rate!Used(Rate!Refreshed(l))
  <2>1. /\ where[c] = "acquire" /\ where'[c] = "idle"
        /\ \A x \in RateCallers : x # c => where'[x] = where[x]
        /\ j \in 1 .. Len(limiters) /\ rateMap # 0
    BY <1>1, <1>2 DEF RateTypes, RatePlaces
  <2>2. Cardinality(Fresh') = Cardinality(Fresh)
    BY ONLY <1>3, <1>4, <2>1, c \in RateCallers
  <2>3. CASE l.free <= clock
    <3>1. /\ limiters' = [limiters EXCEPT ![j] = m]
          /\ admitted' = admitted + 1 /\ burst' = burst + 1 /\ clock' = clock
      BY <2>3
    <3>2. l \in Limiter /\ l.saved <= l.free
      BY <1>1, <1>2, <2>1 DEF PermitsFit
    <3>3. /\ m \in Limiter /\ m.free <= clock + 1 /\ m.saved <= m.free
          /\ Taken(m) >= Taken(l) + 1 /\ TakenIn(m, clock) >= TakenIn(l, clock) + 1
      BY <1>1, <2>3, <3>2, PermitTaken
    <3> HIDE DEF m
    <3>4. /\ limiters' \in Seq(Limiter) /\ Len(limiters') = Len(limiters)
          /\ DOMAIN limiters' = 1 .. Len(limiters) /\ limiters'[j] = m
          /\ \A i \in 1 .. Len(limiters) : i # j => limiters'[i] = limiters[i]
      BY <1>2, <2>1, <3>1, <3>3
    <3>5. RateTypes' /\ RatePlaces'
      BY <1>1, <1>2, <2>1, <3>1, <3>4 DEF RateTypes, RatePlaces
    <3>6. PermitsFit'
      BY <1>1, <1>2, <3>1, <3>3, <3>4 DEF PermitsFit
    <3>7. LimitersCount'
      BY <1>1, <1>2, <1>3, <2>2, <3>4 DEF LimitersCount
    <3>8. \A i \in 1 .. Len(limiters') :
            /\ SoFar(limiters')[i] = Taken(limiters'[i]) /\ SoFar(limiters')[i] \in Nat
            /\ SoFar(limiters')[i] <= MaxClock + 1
            /\ Now(limiters', clock)[i] = TakenIn(limiters'[i], clock)
            /\ Now(limiters', clock)[i] \in Nat /\ Now(limiters', clock)[i] <= LimitCount + 1
      <4>1. \A i \in 1 .. Len(limiters') : limiters'[i].free <= clock + 1
                                          /\ limiters'[i].saved <= limiters'[i].free
        BY <3>1, <3>4, <3>6 DEF PermitsFit
      <4> QED
        BY ONLY <1>2, <3>4, <4>1, CurvesFit
    <3>9. /\ SoFar(limiters)[j] + 1 <= SoFar(limiters')[j]
          /\ Now(limiters, clock)[j] + 1 <= Now(limiters', clock)[j]
          /\ SoFar(limiters)[j] \in Nat /\ SoFar(limiters')[j] \in 1 .. MaxClock + 1
          /\ Now(limiters, clock)[j] \in Nat /\ Now(limiters', clock)[j] \in 1 .. LimitCount + 1
      <4>1. /\ SoFar(limiters)[j] = Taken(l) /\ SoFar(limiters')[j] = Taken(m)
            /\ Now(limiters, clock)[j] = TakenIn(l, clock) /\ Now(limiters', clock)[j] = TakenIn(m, clock)
            /\ SoFar(limiters)[j] \in Nat /\ SoFar(limiters')[j] \in Nat /\ SoFar(limiters')[j] <= MaxClock + 1
            /\ Now(limiters, clock)[j] \in Nat /\ Now(limiters', clock)[j] \in Nat
            /\ Now(limiters', clock)[j] <= LimitCount + 1
        BY <1>c, <2>1, <3>4, <3>8
      <4> QED
        BY ONLY <1>2, <3>3, <4>1
    <3>10. \A i \in 1 .. Len(limiters) :
             /\ SoFar(limiters)[i] \in Int /\ SoFar(limiters')[i] \in Int
             /\ SoFar(limiters)[i] <= SoFar(limiters')[i]
             /\ Now(limiters, clock)[i] \in Int /\ Now(limiters', clock)[i] \in Int
             /\ Now(limiters, clock)[i] <= Now(limiters', clock)[i]
      <4> TAKE i \in 1 .. Len(limiters)
      <4>1. CASE i = j
        BY ONLY <3>9, <4>1
      <4>2. CASE i # j
        BY ONLY <1>c, <3>4, <3>8, <4>2, i \in 1 .. Len(limiters)
      <4> QED
        BY <4>1, <4>2
    <3>11. AdmissionsCount'
      <4>1. /\ Len(limiters) \in Nat /\ Len(limiters) <= Len(limiters)
            /\ MaxClock + 1 \in Nat /\ LimitCount + 1 \in Nat
        BY <1>2
      <4>2. Cardinality(Below(SoFar(limiters), Len(limiters), MaxClock + 1)) + 1
              <= Cardinality(Below(SoFar(limiters'), Len(limiters), MaxClock + 1))
        <5>1. \E i \in 1 .. Len(limiters) : /\ SoFar(limiters)[i] < SoFar(limiters')[i]
                                            /\ SoFar(limiters')[i] \in 1 .. MaxClock + 1
          BY <2>1, <3>9
        <5> QED
          BY ONLY <3>10, <4>1, <5>1, BelowGrows
      <4>3. Cardinality(Below(Now(limiters, clock), Len(limiters), LimitCount + 1)) + 1
              <= Cardinality(Below(Now(limiters', clock), Len(limiters), LimitCount + 1))
        <5>1. \E i \in 1 .. Len(limiters) : /\ Now(limiters, clock)[i] < Now(limiters', clock)[i]
                                            /\ Now(limiters', clock)[i] \in 1 .. LimitCount + 1
          BY <2>1, <3>9
        <5> QED
          BY ONLY <3>10, <4>1, <5>1, BelowGrows
      <4>4. /\ Cardinality(Below(SoFar(limiters'), Len(limiters), MaxClock + 1)) \in Nat
            /\ Cardinality(Below(Now(limiters', clock), Len(limiters), LimitCount + 1)) \in Nat
        BY ONLY <4>1, BelowFits
      <4>5. /\ admitted <= Cardinality(Below(SoFar(limiters), Len(limiters), MaxClock + 1))
            /\ burst <= Cardinality(Below(Now(limiters, clock), Len(limiters), LimitCount + 1))
        BY <1>1 DEF AdmissionsCount
      <4>6. admitted' <= Cardinality(Below(SoFar(limiters'), Len(limiters), MaxClock + 1))
        BY ONLY <1>2, <1>3, <3>1, <4>2, <4>4, <4>5
      <4>7. burst' <= Cardinality(Below(Now(limiters', clock), Len(limiters), LimitCount + 1))
        BY ONLY <1>2, <1>3, <3>1, <4>3, <4>4, <4>5
      <4>8. Len(limiters') = Len(limiters) /\ clock' = clock
        BY <3>1, <3>4
      <4> QED
        BY ONLY <4>6, <4>7, <4>8 DEF AdmissionsCount
    <3> QED
      BY <3>5, <3>6, <3>7, <3>11 DEF RateInv
  <2>4. CASE ~(l.free <= clock)
    <3>1. UNCHANGED <<limiters, clock, admitted, burst>>
      BY <2>4
    <3>2. RateTypes' /\ RatePlaces'
      BY <1>1, <1>2, <2>1, <3>1 DEF RateTypes, RatePlaces
    <3>3. LimitersCount'
      BY <1>1, <2>2, <3>1 DEF LimitersCount
    <3> QED
      BY <1>6, <3>1, <3>2, <3>3 DEF RateInv
  <2> QED
    BY <2>3, <2>4
<1> QED
  BY <1>5, <1>7, <1>8, <1>9, <1>10, <1>11 DEF Rate!Next

\* What the run checks of the limit follows from the invariant.
LEMMA RateFollows == RateInv => RateHolds /\ Rate!TypeOK
<1> SUFFICES ASSUME RateInv PROVE RateHolds /\ Rate!TypeOK
  OBVIOUS
<1>1. RateTypes /\ RatePlaces /\ LimitersCount /\ PermitsFit /\ AdmissionsCount
  BY DEF RateInv
<1>2. Rate!TypeOK
  BY <1>1 DEF Rate!TypeOK, RateTypes, RatePlaces, Limiter
<1>3. /\ limiters \in Seq(Limiter) /\ Len(limiters) \in Nat /\ clock \in 0 .. MaxClock
      /\ clock + 1 \in Nat /\ MaxClock + 1 \in Nat /\ LimitCount + 1 \in Nat
      /\ began \in Nat /\ admitted \in Nat /\ burst \in Nat
      /\ DOMAIN limiters = 1 .. Len(limiters)
  BY <1>1, Sizes DEF RateTypes
<1>4. Len(limiters) <= began
  <2>1. Cardinality(Fresh) \in Nat
    BY Sizes, FS_Subset, FS_CardinalityType DEF Fresh, In
  <2> QED
    BY ONLY <1>1, <1>3, <2>1 DEF LimitersCount
<1>5. \A i \in 1 .. Len(limiters) :
        /\ SoFar(limiters)[i] \in Int /\ SoFar(limiters)[i] <= clock + 1
        /\ Now(limiters, clock)[i] \in Int /\ Now(limiters, clock)[i] <= LimitCount + 1
  <2>1. \A i \in 1 .. Len(limiters) : limiters[i].free <= clock + 1
                                     /\ limiters[i].saved <= limiters[i].free
    BY <1>1, <1>3 DEF PermitsFit
  <2> QED
    BY ONLY <1>3, <2>1, CurvesFit
<1>6. /\ Cardinality(Below(SoFar(limiters), Len(limiters), MaxClock + 1)) \in Nat
      /\ Cardinality(Below(SoFar(limiters), Len(limiters), MaxClock + 1)) <= began * (clock + 1)
  BY ONLY <1>3, <1>4, <1>5, BelowFits
<1>7. /\ Cardinality(Below(Now(limiters, clock), Len(limiters), LimitCount + 1)) \in Nat
      /\ Cardinality(Below(Now(limiters, clock), Len(limiters), LimitCount + 1))
           <= began * (LimitCount + 1)
  BY ONLY <1>3, <1>4, <1>5, BelowFits
<1> DEFINE P == began * (clock + 1)
           Q == began * (LimitCount + 1)
<1>8. P \in Nat /\ Q \in Nat
  BY <1>3
<1>9. admitted <= P /\ burst <= Q
  <2> HIDE DEF P, Q
  <2>1. /\ Cardinality(Below(SoFar(limiters), Len(limiters), MaxClock + 1)) <= P
        /\ Cardinality(Below(Now(limiters, clock), Len(limiters), LimitCount + 1)) <= Q
    BY <1>6, <1>7 DEF P, Q
  <2> QED
    BY ONLY <1>1, <1>3, <1>6, <1>7, <1>8, <2>1 DEF AdmissionsCount
<1> QED
  BY <1>2, <1>9 DEF RateHolds, Rate!RateHolds

(***************************************************************************)
(* The three together.                                                     *)
(***************************************************************************)

RequestsInv == LockInv /\ LockRest /\ SeqCounts /\ LazyInv /\ RateInv

LEMMA RequestsInit == Init => RequestsInv
BY LockInit, LockRestInit, LazyInit, RateInit DEF Init, RequestsInv

\* A scene moves its own part and leaves the others alone.
LEMMA RequestsStep == RequestsInv /\ [Next]_vars => RequestsInv'
<1> SUFFICES ASSUME RequestsInv, [Next]_vars PROVE RequestsInv'
  OBVIOUS
<1>1. [Redis!Next]_Redis!lockVars
  BY DEF Next, vars, lockVars, Redis!lockVars, Redis!locks, Redis!store
<1>2. [Lazy!Next]_Lazy!lazyVars
  BY DEF Next, vars, lazyVars, Lazy!lazyVars
<1>3. [Rate!Next]_Rate!rateVars
  BY DEF Next, vars, rateVars, Rate!rateVars
<1> QED
  BY <1>1, <1>2, <1>3, LockStep, LockRestStep, LazyStep, RateStep DEF RequestsInv

LEMMA RequestsKept == Spec => []RequestsInv
BY RequestsInit, RequestsStep, PTL DEF Spec

\* Two calls of testRedis that both answer success never worked at the same time,
\* a writer of "orderId" is alone unless a lease lapsed, and no id is drawn twice,
\* for any number of requests and faults.
THEOREM RequestsExclude == Spec => []LocksExclude
<1>1. RequestsInv => LocksExclude
  BY LocksFollow DEF RequestsInv
<1> QED
  BY <1>1, RequestsKept, PTL

\* Objects created at the first call: no more than calls that overlapped it, a
\* complete one at rest, and an incomplete one given out only to overlapping calls.
THEOREM RequestsCreateWhole == Spec => []CreatedWhole
<1>1. RequestsInv => CreatedWhole
  BY LazyFollows DEF RequestsInv
<1> QED
  BY <1>1, RequestsKept, PTL

\* The limit holds over any time and for a burst, for each limiter that the calls
\* before the first answer can have made, whatever the limit and the clock.
THEOREM RequestsLimited == Spec => []RateHolds
<1>1. RequestsInv => RateHolds
  BY RateFollows DEF RequestsInv
<1> QED
  BY <1>1, RequestsKept, PTL

\* Every variable of the three has its type.
THEOREM RequestsTyped == Spec => []TypeOK
<1>1. RequestsInv => TypeOK
  BY LockTypeFollows, LazyFollows, RateFollows DEF RequestsInv, TypeOK
<1> QED
  BY <1>1, RequestsKept, PTL
=============================================================================
