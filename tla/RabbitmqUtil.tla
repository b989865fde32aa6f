---------------------------- MODULE RabbitmqUtil ----------------------------
(***************************************************************************)
(* RabbitmqUtil: sendMsg (declare, bind, publish with confirms, close) and *)
(* receive (bind, declare, consume with manual acknowledgement), around    *)
(* one work queue and the dead-letter queue its messages may go to.        *)
(*                                                                         *)
(* The broker is external; it is modelled from what the code asks of it:   *)
(* a queue declared again must be declared with the same arguments, a      *)
(* message is pushed to the consumer, is given back when it is rejected    *)
(* with requeue or when the connection breaks, and expires at the head of  *)
(* the queue.  The client library recovers a broken connection and then    *)
(* ignores acknowledgements of deliveries made before the break.           *)
(***************************************************************************)
EXTENDS Integers, FiniteSets, Sequences, SequencesExt

CONSTANTS
  Msgs,      \* messages sent, one call of sendMsg each
  Poison,    \* messages for which consume always throws
  Expiring,  \* messages sent with exp
  DlxMsgs,   \* messages sent with dlxExchangeName
  Faults     \* the kinds of fault that may happen

FaultKinds == {"connect", "channel", "reject", "break"}

ASSUME MsgKinds == Poison \subseteq Msgs /\ Expiring \subseteq Msgs /\ DlxMsgs \subseteq Msgs
ASSUME KnownFaults == Faults \subseteq FaultKinds
ASSUME FiniteMsgs == IsFiniteSet(Msgs)

VARIABLES
  connection,  \* the static connection is set
  args,        \* arguments the work queue was declared with
  dlxBound,    \* the dead-letter exchange has its queue
  ready,       \* messages waiting in the work queue
  flight,      \* messages pushed to the consumer and not acknowledged
  dead,        \* messages in the dead-letter queue
  acked,       \* messages removed by basicAck
  lost,        \* messages the broker refused or dropped on expiry
  sending,     \* where each sendMsg is
  consumer,    \* where receive is
  handling,    \* the stage of handleDelivery for the head of flight
  processed    \* history: messages whose consume returned normally

vars == <<connection, args, dlxBound, ready, flight, dead, acked, lost, sending,
          consumer, handling, processed>>
queueVars == <<ready, flight, dead, acked, lost>>

TypeOK ==
  /\ connection \in BOOLEAN
  /\ args \in {"absent", "plain", "dlx"}
  /\ dlxBound \in BOOLEAN
  /\ ready \in BoundedSeq(Msgs, Cardinality(Msgs))
  /\ flight \in BoundedSeq(Msgs, Cardinality(Msgs))
  /\ dead \subseteq Msgs /\ acked \subseteq Msgs /\ lost \subseteq Msgs
  /\ sending \in [Msgs -> {"no", "bound", "published", "sent", "failed"}]
  /\ consumer \in {"off", "bound", "on", "failed"}
  /\ handling \in {"none", "ack", "nack", "stale"}
  /\ processed \subseteq Msgs

Init ==
  /\ connection = FALSE
  /\ args = "absent"
  /\ dlxBound \in BOOLEAN
  /\ ready = <<>> /\ flight = <<>>
  /\ dead = {} /\ acked = {} /\ lost = {}
  /\ sending = [m \in Msgs |-> "no"]
  /\ consumer = "off"
  /\ handling = "none"
  /\ processed = {}

-----------------------------------------------------------------------------
\* createConnection: nothing when there is one, and a failure leaves null.
CreateConnection ==
  /\ ~connection
  /\ connection' = TRUE
  /\ UNCHANGED <<args, dlxBound, queueVars, sending, consumer, handling, processed>>

\* The arguments sendMsg declares the queue with.
ArgsOf(m) == IF m \in DlxMsgs THEN "dlx" ELSE "plain"

\* createChannel, exchangeDeclare, queueDeclare and queueBind of sendMsg: a null
\* connection and a queue declared with other arguments throw.
Declare(m) ==
  /\ sending[m] = "no"
  /\ \/ /\ connection
        /\ args \in {"absent", ArgsOf(m)}
        /\ args' = ArgsOf(m)
        /\ sending' = [sending EXCEPT ![m] = "bound"]
     \/ /\ ~connection \/ args \notin {"absent", ArgsOf(m)} \/ "connect" \in Faults
        /\ sending' = [sending EXCEPT ![m] = "failed"]
        /\ UNCHANGED args
  /\ UNCHANGED <<connection, dlxBound, queueVars, consumer, handling, processed>>

\* basicPublish: the broker takes the message, or refuses it (handleNack, which
\* only logs), or the channel breaks and nobody knows.
Publish(m) ==
  /\ sending[m] = "bound"
  /\ \/ /\ ready' = Append(ready, m)
        /\ UNCHANGED lost
     \/ /\ "reject" \in Faults
        /\ lost' = lost \cup {m}
        /\ UNCHANGED ready
  /\ sending' = [sending EXCEPT ![m] = "published"]
  /\ UNCHANGED <<connection, args, dlxBound, flight, dead, acked, consumer,
                 handling, processed>>

\* channel.close ends the call; it waits for no confirm.  When it throws, the
\* message has been taken all the same.
Close(m) ==
  /\ sending[m] = "published"
  /\ \/ sending' = [sending EXCEPT ![m] = "sent"]
     \/ /\ "channel" \in Faults
        /\ sending' = [sending EXCEPT ![m] = "failed"]
  /\ UNCHANGED <<connection, args, dlxBound, queueVars, consumer, handling, processed>>

-----------------------------------------------------------------------------
\* The broker drops an expired message at the head of the queue, into the
\* dead-letter queue when the queue names one and it is there.
Expire ==
  /\ ready # <<>> /\ Head(ready) \in Expiring
  /\ ready' = Tail(ready)
  /\ IF args = "dlx" /\ dlxBound
       THEN dead' = dead \cup {Head(ready)} /\ UNCHANGED lost
       ELSE lost' = lost \cup {Head(ready)} /\ UNCHANGED dead
  /\ UNCHANGED <<connection, args, dlxBound, flight, acked, sending, consumer,
                 handling, processed>>

\* The broker pushes the next n messages; the consumer sets no prefetch limit.
PushSome(n) ==
  /\ consumer = "on"
  /\ flight' = flight \o SubSeq(ready, 1, n)
  /\ ready' = SubSeq(ready, n + 1, Len(ready))
  /\ UNCHANGED <<connection, args, dlxBound, dead, acked, lost, sending, consumer,
                 handling, processed>>

Push == \E n \in 1 .. Len(ready) : PushSome(n)
PushAll == ready # <<>> /\ PushSome(Len(ready))

\* The connection breaks and is recovered: what was not acknowledged is put
\* back in its old place, and the delivery being handled is stale.
Break ==
  /\ "break" \in Faults
  /\ consumer = "on"
  /\ ready' = flight \o ready
  /\ flight' = <<>>
  /\ handling' = IF handling \in {"ack", "nack"} THEN "stale" ELSE handling
  /\ UNCHANGED <<connection, args, dlxBound, dead, acked, lost, sending, consumer,
                 processed>>

-----------------------------------------------------------------------------
\* receive, first half: queueBind of a queue that does not exist throws.
BindConsumer ==
  /\ consumer = "off"
  /\ consumer' = IF connection /\ args # "absent" THEN "bound" ELSE "failed"
  /\ UNCHANGED <<connection, args, dlxBound, queueVars, sending, handling, processed>>

\* receive, second half: queueDeclare with null arguments, then basicConsume.
StartConsumer ==
  /\ consumer = "bound"
  /\ consumer' = IF args = "plain" THEN "on" ELSE "failed"
  /\ UNCHANGED <<connection, args, dlxBound, queueVars, sending, handling, processed>>

\* Variant: the acknowledgement comes before the business code.
ConsumeAfterAck ==
  /\ handling = "none" /\ flight # <<>>
  /\ handling' = "ack"
  /\ processed' = IF Head(flight) \in Poison THEN processed
                  ELSE processed \cup {Head(flight)}
  /\ UNCHANGED <<connection, args, dlxBound, queueVars, sending, consumer>>

\* handleDelivery runs the business code; an exception leads to basicNack.
Consume ==
  /\ handling = "none" /\ flight # <<>>
  /\ IF Head(flight) \in Poison
       THEN handling' = "nack" /\ UNCHANGED processed
       ELSE handling' = "ack" /\ processed' = processed \cup {Head(flight)}
  /\ UNCHANGED <<connection, args, dlxBound, queueVars, sending, consumer>>

Acknowledge ==
  /\ handling = "ack"
  /\ handling' = "none"
  /\ acked' = acked \cup {Head(flight)}
  /\ flight' = Tail(flight)
  /\ UNCHANGED <<connection, args, dlxBound, ready, dead, lost, sending, consumer,
                 processed>>

\* Variant: requeue = false.
RejectForGood ==
  /\ handling = "nack"
  /\ handling' = "none"
  /\ flight' = Tail(flight)
  /\ UNCHANGED <<connection, args, dlxBound, ready, dead, acked, lost, sending,
                 consumer, processed>>

\* Variant: without the catch the client library closes the channel.
ExceptionClosesChannel ==
  /\ handling = "nack"
  /\ handling' = "none"
  /\ consumer' = "failed"
  /\ ready' = flight \o ready
  /\ flight' = <<>>
  /\ UNCHANGED <<connection, args, dlxBound, dead, acked, lost, sending, processed>>

\* Variant: the failed message is sent again and stays unacknowledged.
RequeueCopy ==
  /\ handling = "nack"
  /\ handling' = "none"
  /\ ready' = <<Head(flight)>> \o ready
  /\ UNCHANGED <<connection, args, dlxBound, flight, dead, acked, lost, sending,
                 consumer, processed>>

\* basicNack with requeue = true puts the message back at the head.
Requeue ==
  /\ handling = "nack"
  /\ handling' = "none"
  /\ ready' = <<Head(flight)>> \o ready
  /\ flight' = Tail(flight)
  /\ UNCHANGED <<connection, args, dlxBound, dead, acked, lost, sending, consumer,
                 processed>>

\* basicAck or basicNack of a delivery made before the break does nothing.
StaleEnd ==
  /\ handling = "stale"
  /\ handling' = "none"
  /\ UNCHANGED <<connection, args, dlxBound, queueVars, sending, consumer, processed>>

-----------------------------------------------------------------------------
SendStep == \E m \in Msgs : Declare(m) \/ Publish(m) \/ Close(m)
ConsumerStep == Consume \/ Acknowledge \/ Requeue \/ StaleEnd

Finished ==
  /\ connection
  /\ \A m \in Msgs : sending[m] \in {"sent", "failed"}
  /\ consumer = "failed" \/ (consumer = "on" /\ ready = <<>> /\ flight = <<>>)
  /\ UNCHANGED vars

Next ==
  \/ CreateConnection \/ SendStep \/ Expire \/ Push \/ Break
  \/ BindConsumer \/ StartConsumer \/ ConsumerStep \/ Finished

Spec == Init /\ [][Next]_vars

\* The broker pushes all it has, as no prefetch limit stops it, and the consumer
\* thread runs on.
FairSpec == Spec /\ WF_vars(PushAll) /\ WF_vars(ConsumerStep)

-----------------------------------------------------------------------------
(* Properties.                                                             *)

Offered(m) == sending[m] \in {"published", "sent"}

Places(m) ==
  Cardinality({i \in DOMAIN ready : ready[i] = m})
    + Cardinality({i \in DOMAIN flight : flight[i] = m})
    + Cardinality({s \in {<<"acked", acked>>, <<"dead", dead>>, <<"lost", lost>>} :
                     m \in s[2]})

\* A message whose publication the sender saw is in exactly one place: waiting,
\* pushed, acknowledged, dead-lettered, or refused by the broker; no order of
\* pushes, requeues, breaks and expiries loses or doubles it (lines 132, 177-187).
NeverLostOrDoubled ==
  \A m \in Msgs : Places(m) <= 1 /\ (Offered(m) => Places(m) = 1)

\* A message leaves by acknowledgement only after consume returned normally for
\* it, also when the connection broke in between, and for the dead-letter queue
\* only by expiry: requeue = true keeps a poisonous one (lines 177-195).
AckedWasProcessed == acked \subseteq processed /\ dead \subseteq Expiring

\* When the connection breaks no more, a message that waits while the consumer
\* runs is acknowledged or, if it may expire, expires: a poisonous one that comes
\* back to the head for ever does not hold the others up (lines 170-195).
Stable == <>[][~Break]_vars
GoodIsConsumed ==
  Stable => \A m \in Msgs \ Poison :
    (consumer = "on" /\ m \in ToSet(ready)) ~> m \in acked \cup dead \cup lost

\* "订阅者在启动的时候绑定的队列必须是已存在(或先启动生产者程序)"
\* (TestRabbitmq.java:21): a subscriber starts when its queue exists.
StartsOnExistingQueue == [][consumer = "bound" => consumer' # "failed"]_vars
=============================================================================
