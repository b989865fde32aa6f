-------------------------- MODULE MQConnectionPool --------------------------
(***************************************************************************)
(* The RabbitMQ pool of util/mq: MQConnectionPool and its client           *)
(* RabbitmqHeadler.sendMsg.                                                *)
(*                                                                         *)
(* All four methods of the pool are synchronized on one monitor.  The pool *)
(* is filled once, with MinConn connections; a client gets an idle channel *)
(* or, when there is none, takes a connection out of the pool and opens a  *)
(* channel on it.  Channels come back to the pool, connections do not, so  *)
(* a connection carries at most one channel and both have one number here. *)
(* A client that finds neither sleeps and retries inside the monitor.      *)
(*                                                                         *)
(* Senders go through sendMsg, which holds the class monitor for the whole *)
(* call and gives the channel back only on the path without IOException.   *)
(* Users call the pool's public methods themselves and always give back    *)
(* what they got.                                                          *)
(***************************************************************************)
EXTENDS Integers, FiniteSets, Sequences

CONSTANTS
  Senders,   \* threads calling RabbitmqHeadler.sendMsg
  Users,     \* threads calling the pool directly
  MinConn,   \* PoolProperties.minConn after its default of 1
  Calls,     \* bound: calls made by each thread
  Faults,    \* the kinds of fault that may happen
  NoClient   \* owner of a free monitor

FaultKinds == {"connect", "channel", "publish", "interrupt"}
Clients == Senders \cup Users
Conns == 1 .. MinConn

ASSUME PoolSize == MinConn \in Nat \ {0}
ASSUME ClientsApart == Senders \cap Users = {}
ASSUME CallsBound == Calls \in Nat
ASSUME KnownFaults == Faults \subseteq FaultKinds

ASSUME NobodyIsNoClient == NoClient \notin Clients

VARIABLES
  alive,      \* connections whose creation succeeded (createConnection may give null)
  taken,      \* connections polled from connectionStreams so far
  idle,       \* channelStreams
  useQty,     \* useQuantity of each channel
  closed,     \* connections closed by removeConnectionStream
  monitor,    \* owner of the pool's monitor
  classLock,  \* owner of RabbitmqHeadler's class monitor
  pc,         \* where each client is
  goal,       \* what it asked the pool for
  item,       \* the connection or channel it holds, 0 for none
  left        \* calls it may still make

vars == <<alive, taken, idle, useQty, closed, monitor, classLock, pc, goal, item,
          left>>
poolVars == <<alive, taken, idle, useQty, closed>>

TypeOK ==
  /\ alive \subseteq Conns
  /\ taken \in 0 .. MinConn
  /\ idle \in Seq(Conns)
  /\ useQty \in [Conns -> Int]
  /\ closed \subseteq Conns
  /\ monitor \in Clients \cup {NoClient}
  /\ classLock \in Senders \cup {NoClient}
  /\ pc \in [Clients -> {"out", "ask", "poll", "open", "sleep", "use", "give",
                         "leave"}]
  /\ goal \in [Clients -> {"channel", "connection"}]
  /\ item \in [Clients -> 0 .. MinConn]
  /\ left \in [Clients -> 0 .. Calls]

\* init(): MinConn streams are offered, whether or not the connection exists.
Init ==
  /\ alive \in IF "connect" \in Faults THEN SUBSET Conns ELSE {Conns}
  /\ taken = 0
  /\ idle = <<>>
  /\ useQty = [n \in Conns |-> 0]
  /\ closed = {}
  /\ monitor = NoClient
  /\ classLock = NoClient
  /\ pc = [c \in Clients |-> "out"]
  /\ goal = [c \in Clients |-> "channel"]
  /\ item = [c \in Clients |-> 0]
  /\ left = [c \in Clients |-> Calls]

Go(c, to) == pc' = [pc EXCEPT ![c] = to]

-----------------------------------------------------------------------------
\* sendMsg enters the class monitor and asks for a channel.
EnterSend(c) ==
  /\ c \in Senders
  /\ pc[c] = "out" /\ left[c] > 0
  /\ classLock = NoClient
  /\ classLock' = c
  /\ left' = [left EXCEPT ![c] = @ - 1]
  /\ Go(c, "ask")
  /\ UNCHANGED <<poolVars, monitor, goal, item>>

\* A direct user asks for a channel or for a connection.
EnterUse(c) ==
  /\ c \in Users
  /\ pc[c] = "out" /\ left[c] > 0
  /\ \E g \in {"channel", "connection"} : goal' = [goal EXCEPT ![c] = g]
  /\ left' = [left EXCEPT ![c] = @ - 1]
  /\ Go(c, "ask")
  /\ UNCHANGED <<poolVars, monitor, classLock, item>>

\* getChannelStream, and getConnectionStream for a connection: enter the
\* monitor; an idle channel is handed out at once.
GetStream(c) ==
  /\ pc[c] = "ask"
  /\ monitor = NoClient
  /\ \/ /\ goal[c] = "channel" /\ idle # <<>>
        /\ item' = [item EXCEPT ![c] = Head(idle)]
        /\ idle' = Tail(idle)
        /\ useQty' = [useQty EXCEPT ![Head(idle)] = @ + 1]
        /\ Go(c, "use")
        /\ UNCHANGED monitor
     \/ /\ goal[c] = "connection" \/ idle = <<>>
        /\ monitor' = c
        /\ Go(c, "poll")
        /\ UNCHANGED <<idle, useQty, item>>
  /\ UNCHANGED <<alive, taken, closed, classLock, goal, left>>

\* Variant: wait() instead of Thread.sleep gives the monitor up.
PollLettingGo(c) ==
  /\ pc[c] = "poll"
  /\ \/ /\ taken < MinConn
        /\ taken' = taken + 1
        /\ item' = [item EXCEPT ![c] = taken + 1]
        /\ \/ /\ goal[c] = "channel"
              /\ Go(c, "open")
              /\ UNCHANGED monitor
           \/ /\ goal[c] = "connection"
              /\ monitor' = NoClient
              /\ Go(c, "use")
     \/ /\ taken = MinConn
        /\ Go(c, "ask")
        /\ monitor' = NoClient
        /\ UNCHANGED <<taken, item>>
  /\ UNCHANGED <<alive, idle, useQty, closed, classLock, goal, left>>

\* Variant: the emptiness test is off by one.
PollPastEnd(c) ==
  /\ pc[c] = "poll"
  /\ taken <= MinConn
  /\ taken' = taken + 1
  /\ item' = [item EXCEPT ![c] = taken + 1]
  /\ Go(c, "open")
  /\ UNCHANGED <<alive, idle, useQty, closed, classLock, goal, left, monitor>>

\* getConnectionStream inside the monitor: poll, or sleep with it held.
PollConnection(c) ==
  /\ pc[c] = "poll"
  /\ \/ /\ taken < MinConn
        /\ taken' = taken + 1
        /\ item' = [item EXCEPT ![c] = taken + 1]
        /\ \/ /\ goal[c] = "channel"
              /\ Go(c, "open")
              /\ UNCHANGED monitor
           \/ /\ goal[c] = "connection"
              /\ monitor' = NoClient
              /\ Go(c, "use")
     \/ /\ taken = MinConn
        /\ Go(c, "sleep")
        /\ UNCHANGED <<taken, item, monitor>>
  /\ UNCHANGED <<alive, idle, useQty, closed, classLock, goal, left>>

\* After three seconds the method calls itself; an interrupt leaves it with a
\* null stream and a NullPointerException.
Wake(c) ==
  /\ pc[c] = "sleep"
  /\ \/ /\ Go(c, "poll")
        /\ UNCHANGED monitor
     \/ /\ "interrupt" \in Faults
        /\ monitor' = NoClient
        /\ Go(c, "leave")
  /\ UNCHANGED <<poolVars, classLock, goal, item, left>>

\* Variant: an explicit lock, released only when createChannel returns.
OpenChannelNoFinally(c) ==
  /\ pc[c] = "open"
  /\ \/ /\ item[c] \in alive
        /\ useQty' = [useQty EXCEPT ![item[c]] = 1]
        /\ monitor' = NoClient
        /\ Go(c, "use")
        /\ UNCHANGED item
     \/ /\ item[c] \notin alive \/ "channel" \in Faults
        /\ item' = [item EXCEPT ![c] = 0]
        /\ Go(c, "leave")
        /\ UNCHANGED <<useQty, monitor>>
  /\ UNCHANGED <<alive, taken, idle, closed, classLock, goal, left>>

\* createChannel, still inside the monitor: a null connection or a failing
\* broker throws, and the connection just polled is not put back.
OpenChannel(c) ==
  /\ pc[c] = "open"
  /\ \/ /\ item[c] \in alive
        /\ useQty' = [useQty EXCEPT ![item[c]] = 1]
        /\ Go(c, "use")
        /\ UNCHANGED item
     \/ /\ item[c] \notin alive \/ "channel" \in Faults
        /\ item' = [item EXCEPT ![c] = 0]
        /\ Go(c, "leave")
        /\ UNCHANGED useQty
  /\ monitor' = NoClient
  /\ UNCHANGED <<alive, taken, idle, closed, classLock, goal, left>>

\* Declare and publish.  In sendMsg an IOException is printed and the channel
\* is not released; a direct user releases what it got in any case.
Work(c) ==
  /\ pc[c] = "use"
  /\ \/ /\ Go(c, "give")
        /\ UNCHANGED item
     \/ /\ c \in Senders /\ "publish" \in Faults
        /\ item' = [item EXCEPT ![c] = 0]
        /\ Go(c, "leave")
  /\ UNCHANGED <<poolVars, monitor, classLock, goal, left>>

\* Variant: releaseChannelStream without synchronized.
ReleaseUnlocked(c) ==
  /\ pc[c] = "give" /\ goal[c] = "channel"
  /\ useQty' = [useQty EXCEPT ![item[c]] = @ - 1]
  /\ idle' = Append(idle, item[c])
  /\ item' = [item EXCEPT ![c] = 0]
  /\ Go(c, "leave")
  /\ UNCHANGED <<alive, taken, closed, monitor, classLock, goal, left>>

\* Variant: a released channel is offered while the releaser goes on using it.
ReleaseKeepsUsing(c) ==
  /\ pc[c] = "give" /\ goal[c] = "channel"
  /\ monitor = NoClient
  /\ useQty' = [useQty EXCEPT ![item[c]] = @ - 1]
  /\ idle' = Append(idle, item[c])
  /\ Go(c, IF c \in Users /\ Len(idle) = 0 THEN "use" ELSE "leave")
  /\ item' = [item EXCEPT ![c] = IF c \in Users /\ Len(idle) = 0 THEN @ ELSE 0]
  /\ UNCHANGED <<alive, taken, closed, monitor, classLock, goal, left>>

\* releaseChannelStream
ReleaseChannel(c) ==
  /\ pc[c] = "give" /\ goal[c] = "channel"
  /\ monitor = NoClient
  /\ useQty' = [useQty EXCEPT ![item[c]] = @ - 1]
  /\ idle' = Append(idle, item[c])
  /\ item' = [item EXCEPT ![c] = 0]
  /\ Go(c, "leave")
  /\ UNCHANGED <<alive, taken, closed, monitor, classLock, goal, left>>

\* Variant: the connection goes back to the pool (as the last one taken).
RemoveGivesBack(c) ==
  /\ pc[c] = "give" /\ goal[c] = "connection"
  /\ taken' = taken - 1
  /\ item' = [item EXCEPT ![c] = 0]
  /\ Go(c, "leave")
  /\ UNCHANGED <<alive, idle, useQty, closed, monitor, classLock, goal, left>>

\* removeConnectionStream closes the connection (a null one throws); nothing is
\* put back.
RemoveConnection(c) ==
  /\ pc[c] = "give" /\ goal[c] = "connection"
  /\ monitor = NoClient
  /\ closed' = closed \cup ({item[c]} \cap alive)
  /\ item' = [item EXCEPT ![c] = 0]
  /\ Go(c, "leave")
  /\ UNCHANGED <<alive, taken, idle, useQty, monitor, classLock, goal, left>>

\* The end of the call, normal or by exception.
Leave(c) ==
  /\ pc[c] = "leave"
  /\ classLock' = IF c \in Senders THEN NoClient ELSE classLock
  /\ Go(c, "out")
  /\ UNCHANGED <<poolVars, monitor, goal, item, left>>

-----------------------------------------------------------------------------
Step(c) ==
  EnterSend(c) \/ EnterUse(c) \/ GetStream(c) \/ PollConnection(c) \/ Wake(c)
  \/ OpenChannel(c) \/ Work(c) \/ ReleaseChannel(c) \/ RemoveConnection(c)
  \/ Leave(c)

AllEnded == \A c \in Clients : pc[c] = "out" /\ left[c] = 0

Finished == AllEnded /\ UNCHANGED vars

Next == (\E c \in Clients : Step(c)) \/ Finished

Spec == Init /\ [][Next]_vars

\* Every thread runs on when it can; a monitor that stays free is entered.
FairSpec == Spec /\ \A c \in Clients : WF_vars(Step(c))

-----------------------------------------------------------------------------
(* Properties.                                                             *)

Waiting(c) == pc[c] \in {"poll", "sleep"} /\ taken = MinConn

\* A channel is in one place: idle once, or with one client, never both, and
\* its useQuantity says which (lines 63-92 under one monitor).
ChannelsExclusive ==
  /\ \A i, j \in DOMAIN idle : idle[i] = idle[j] => i = j
  /\ \A c \in Clients : pc[c] \in {"use", "give"} /\ goal[c] = "channel" =>
       /\ \A i \in DOMAIN idle : idle[i] # item[c]
       /\ \A d \in Clients \ {c} : item[d] # item[c]
       /\ useQty[item[c]] = 1
  /\ \A i \in DOMAIN idle : useQty[idle[i]] = 0

\* Only the owner of the monitor waits for a connection, and it does so only
\* with every connection taken and, if it wants a channel, none idle.
WaitsOnlyWhenDry ==
  \A c \in Clients : Waiting(c) =>
    monitor = c /\ (goal[c] = "channel" => idle = <<>>)

\* A client that has to wait for a connection is never served: it holds the
\* monitor that every release needs (lines 42-52 against 63-70), and
\* connections never come back (lines 33-39).  It can only leave by exception.
NeverServed ==
  [][\A c \in Clients : Waiting(c) => Waiting(c)' \/ pc'[c] = "leave"]_vars

\* While one client waits, no other gets or gives a channel or a connection.
WaitingFreezesPool ==
  [][(\E c \in Clients : Waiting(c)) => UNCHANGED poolVars]_vars

\* Nothing but a wait for a connection stops a call: with every fault allowed,
\* again and again either all calls have ended or somebody is waiting for a
\* connection.  An exception inside a monitor must not leave it taken (line 82).
OnlyAWaitStops == []<>(AllEnded \/ \E c \in Clients : Waiting(c))

\* "当前没有rabbitmq空闲连接, 等待3秒..." (line 47): a client that finds no
\* idle connection waits for one and gets on.
WaitEnds == \A c \in Clients : Waiting(c) ~> pc[c] \in {"use", "leave"}
=============================================================================
