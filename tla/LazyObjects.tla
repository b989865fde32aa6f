------------------------------ MODULE LazyObjects ------------------------------
(***************************************************************************)
(* Four places that create a shared object at the first call, none of them *)
(* synchronized:                                                           *)
(*   headler     RabbitmqHeadler.init, the connection pool                 *)
(*   connection  RabbitmqUtil.createConnection                             *)
(*   thrift      ThriftClient.init, then getClient                         *)
(*   cxf         CxfClientProxyFactory.createObject                        *)
(* The first two assign the field when the object is complete; thrift      *)
(* assigns it before open, cxf before it is configured, and cxf configures *)
(* whatever the field holds at that moment.  The fields are not volatile;  *)
(* every access here reads memory, as the compiled code does between calls.*)
(***************************************************************************)
EXTENDS Naturals, Sequences, FiniteSets

CONSTANTS
  Callers,  \* threads
  MaxCalls  \* bound: calls of each

VARIABLES
  site,     \* which of the places is called
  shared,   \* the static field (of cxf: of the bean), 0 for null
  objs,     \* the objects created, in order
  turn,     \* where each caller is
  mine,     \* the object a caller has created in its call, or 0
  calls,    \* calls each caller has begun
  handed,   \* the object each caller's last call gave out, as it was then
  settled,  \* history: has a call given out an object?
  early     \* history: calls begun before that

lazyVars == <<site, shared, objs, turn, mine, calls, handed, settled, early>>

Sites == {"headler", "connection", "thrift", "cxf"}

\* state: "raw" as created, "ready", or "failed"; logins: how many login
\* interceptors a proxy factory has.
Object == [state : {"raw", "ready", "failed"}, logins : Nat]
Raw == [state |-> "raw", logins |-> 0]
Ready == [state |-> "ready", logins |-> 0]
NoObject == [state |-> "failed", logins |-> 0]

TypeOK ==
  /\ site \in Sites
  /\ objs \in Seq(Object) /\ shared \in 0 .. Len(objs)
  /\ turn \in [Callers -> {"idle", "create", "assign", "open", "configure", "login", "hand"}]
  /\ mine \in [Callers -> 0 .. Len(objs)]
  /\ calls \in [Callers -> 0 .. MaxCalls]
  /\ handed \in [Callers -> Object]
  /\ settled \in BOOLEAN /\ early \in Nat
  /\ \A c \in Callers : turn[c] \in {"assign", "open"} => mine[c] # 0

Init ==
  /\ site \in Sites
  /\ shared = 0 /\ objs = <<>>
  /\ turn = [c \in Callers |-> "idle"]
  /\ mine = [c \in Callers |-> 0]
  /\ calls = [c \in Callers |-> 0]
  /\ handed = [c \in Callers |-> NoObject]
  /\ settled = FALSE /\ early = 0

Goto(c, where) == turn' = [turn EXCEPT ![c] = where]

\* The null check.
Call(c) ==
  /\ turn[c] = "idle" /\ calls[c] < MaxCalls
  /\ calls' = [calls EXCEPT ![c] = @ + 1]
  /\ early' = IF settled THEN early ELSE early + 1
  /\ Goto(c, IF shared = 0 THEN "create" ELSE "hand")
  /\ mine' = [mine EXCEPT ![c] = 0]
  /\ UNCHANGED <<site, shared, objs, handed, settled>>

New(c, object) ==
  /\ objs' = Append(objs, object)
  /\ mine' = [mine EXCEPT ![c] = Len(objs')]

\* Variant: the pool is assigned first and connected afterwards.
CreatePoolAssigned(c) ==
  /\ site = "headler" /\ turn[c] = "create"
  /\ New(c, Raw)
  /\ shared' = Len(objs')
  /\ Goto(c, "open")
  /\ UNCHANGED <<site, calls, handed, settled, early>>

\* new MQConnectionPool(poolProperties)
CreatePool(c) ==
  /\ site = "headler" /\ turn[c] = "create"
  /\ New(c, Ready)
  /\ Goto(c, "assign")
  /\ UNCHANGED <<site, shared, calls, handed, settled, early>>

\* Variant: after a failure the caller assigns a connection it does not have.
ConnectNull(c) ==
  /\ site = "connection" /\ turn[c] = "create"
  /\ New(c, Ready) \/ UNCHANGED <<objs, mine>>
  /\ Goto(c, "assign")
  /\ UNCHANGED <<site, shared, calls, handed, settled, early>>

\* newConnection succeeds, or fails and leaves the field as it is.
Connect(c) ==
  /\ site = "connection" /\ turn[c] = "create"
  /\ \/ New(c, Ready) /\ Goto(c, "assign")
     \/ Goto(c, "hand") /\ UNCHANGED <<objs, mine>>
  /\ UNCHANGED <<site, shared, calls, handed, settled, early>>

Assign(c) ==
  /\ turn[c] = "assign"
  /\ shared' = mine[c]
  /\ Goto(c, "hand")
  /\ UNCHANGED <<site, objs, mine, calls, handed, settled, early>>

\* tProtocol = new TBinaryProtocol(..); the factory's field = new ..
CreateAssigned(c) ==
  /\ site \in {"thrift", "cxf"} /\ turn[c] = "create"
  /\ New(c, Raw)
  /\ shared' = Len(objs')
  /\ Goto(c, IF site = "thrift" THEN "open" ELSE "configure")
  /\ UNCHANGED <<site, calls, handed, settled, early>>

\* tTransport.open(), on the caller's own transport.
Open(c) ==
  /\ turn[c] = "open"
  /\ \E s \in {"ready", "failed"} : objs' = [objs EXCEPT ![mine[c]].state = s]
  /\ Goto(c, "hand")
  /\ UNCHANGED <<site, shared, mine, calls, handed, settled, early>>

\* setAddress, setUsername and setPassword of the factory in the field.
Configure(c) ==
  /\ turn[c] = "configure"
  /\ objs' = [objs EXCEPT ![shared].state = "ready"]
  /\ Goto(c, "login")
  /\ UNCHANGED <<site, shared, mine, calls, handed, settled, early>>

\* getOutInterceptors().add(interceptor) of the factory in the field.
Login(c) ==
  /\ turn[c] = "login"
  /\ objs' = [objs EXCEPT ![shared].logins = @ + 1]
  /\ Goto(c, "hand")
  /\ UNCHANGED <<site, shared, mine, calls, handed, settled, early>>

\* The call gives out what the field holds: sendMsg, the return of
\* createConnection, getClient, create(t).
Hand(c) ==
  /\ turn[c] = "hand"
  /\ handed' = [handed EXCEPT ![c] = IF shared = 0 THEN NoObject ELSE objs[shared]]
  /\ settled' = (settled \/ shared # 0)
  /\ Goto(c, "idle")
  /\ UNCHANGED <<site, shared, objs, mine, calls, early>>

Next == \E c \in Callers :
  \/ Call(c) \/ CreatePool(c) \/ Connect(c) \/ Assign(c)
  \/ CreateAssigned(c) \/ Open(c) \/ Configure(c) \/ Login(c) \/ Hand(c)

Spec == Init /\ [][Next]_lazyVars

-----------------------------------------------------------------------------
(* Properties.                                                             *)

Complete(o) == o.state = "ready" /\ (site = "cxf" => o.logins > 0)

OpenFailed == \E i \in DOMAIN objs : objs[i].state = "failed"

\* Only calls that overlap the first successful one create objects: there are
\* no more objects, and no more login interceptors, than such calls, so a first
\* call that is alone creates the only one.
CreatedOnlyTogether ==
  /\ Len(objs) <= early
  /\ \A i \in DOMAIN objs : objs[i].logins <= early

\* When no call is in progress the field holds a complete object, whoever won
\* the race, except for thrift after a failed open.
CompleteAtRest ==
  (\A c \in Callers : turn[c] = "idle") /\ shared # 0 =>
    Complete(objs[shared]) \/ (site = "thrift" /\ OpenFailed)

\* A call gives out an incomplete object only where the field is assigned too
\* early, and then only when calls overlapped or the open failed.
IncompleteOnlyIfEarly ==
  \A c \in Callers :
    handed[c].state = "raw" \/ (site = "cxf" /\ handed[c].state = "ready" /\ handed[c].logins = 0)
      => site \in {"thrift", "cxf"} /\ early > 1

\* How many objects there can be, and how complete the ones given out are.
CreatedWhole == CreatedOnlyTogether /\ CompleteAtRest /\ IncompleteOnlyIfEarly
=============================================================================
