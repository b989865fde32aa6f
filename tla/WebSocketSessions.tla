-------------------------- MODULE WebSocketSessions --------------------------
(***************************************************************************)
(* The WebSocket part: WebsocketController (login and send),               *)
(* WebsocketInterceptHandler (the user name is copied at the handshake)    *)
(* and WebSocketConfig.MarcoHandler, which keeps every session in a static *)
(* HashSet and walks through it to deliver a message to one user.          *)
(*                                                                         *)
(* Sessions come and go on the container's threads while senders iterate,  *)
(* and nothing is synchronized.  A change of the set takes two steps here; *)
(* when two changes overlap, of either the element, the count of changes   *)
(* and the update of the size may be lost, as in a HashMap written by two  *)
(* threads.  A HashMap counts a change and changes its size only when it   *)
(* adds or finds the element.  The iterator looks for a first element only *)
(* if the size is above zero, checks the count before it gives out each    *)
(* element and not after the last.  Up to twelve sessions the table is     *)
(* never resized, so elements keep their places.                           *)
(***************************************************************************)
EXTENDS Integers, FiniteSets

CONSTANTS
  Sessions,  \* WebSocket sessions, one per browser
  Senders,   \* requests to /websocket/send, one call each
  Names,     \* user names
  Nobody,    \* a browser that has not logged in
  NoSession, \* the iterator stands at no session
  SendMayFail \* may sendMessage fail on an open session?

ASSUME NobodyIsNoName == Nobody \notin Names
ASSUME FiniteActors == IsFiniteSet(Sessions) /\ IsFiniteSet(Senders)
ASSUME FailBoolean == SendMayFail \in BOOLEAN

VARIABLES
  login,     \* the user name in each browser's HTTP session
  user,      \* the user name copied into the WebSocket session
  state,     \* where each session is
  open,      \* sessions whose connection is open
  userSessionSet,
  modCount,  \* modification count of the set
  size,      \* size of the set as the HashMap keeps it
  clashed,   \* history: sessions whose change overlapped another
  pc, to, expected, todo, at,  \* each sender and its iterator
  base,      \* history: the set when the sender began
  blind,     \* history: senders whose iterator began empty over a set that was not
  got        \* the messages each session has received

sessionVars ==
  <<login, user, state, open, userSessionSet, modCount, size, clashed>>
senderVars == <<pc, to, expected, todo, at, base, blind, got>>
vars == <<sessionVars, senderVars>>

TypeOK ==
  /\ login \in [Sessions -> Names \cup {Nobody}]
  /\ user \in [Sessions -> Names \cup {Nobody}]
  /\ state \in [Sessions -> {"new", "adding", "up", "removing", "gone"}]
  /\ open \subseteq Sessions
  /\ userSessionSet \subseteq Sessions
  /\ modCount \in 0 .. 2 * Cardinality(Sessions)
  /\ size \in (- Cardinality(Sessions)) .. Cardinality(Sessions)
  /\ clashed \subseteq Sessions
  /\ pc \in [Senders -> {"idle", "next", "visit", "send", "done", "aborted", "threw"}]
  /\ to \in [Senders -> Names]
  /\ expected \in [Senders -> 0 .. 2 * Cardinality(Sessions)]
  /\ todo \in [Senders -> SUBSET Sessions]
  /\ at \in [Senders -> Sessions \cup {NoSession}]
  /\ base \in [Senders -> SUBSET Sessions]
  /\ blind \subseteq Senders
  /\ got \in [Sessions -> SUBSET Senders]

Init ==
  /\ login = [s \in Sessions |-> Nobody]
  /\ user = [s \in Sessions |-> Nobody]
  /\ state = [s \in Sessions |-> "new"]
  /\ open = {} /\ userSessionSet = {} /\ modCount = 0 /\ size = 0
  /\ clashed = {}
  /\ pc = [d \in Senders |-> "idle"]
  /\ to \in [Senders -> Names]
  /\ expected = [d \in Senders |-> 0]
  /\ todo = [d \in Senders |-> {}]
  /\ at = [d \in Senders |-> NoSession]
  /\ base = [d \in Senders |-> {}]
  /\ blind = {}
  /\ got = [s \in Sessions |-> {}]

-----------------------------------------------------------------------------
(* Sessions.                                                               *)

\* /websocket/login, also after the handshake.
Login(s) ==
  /\ \E n \in Names : n # login[s] /\ login' = [login EXCEPT ![s] = n]
  /\ UNCHANGED <<user, state, open, userSessionSet, modCount, size, clashed,
                 senderVars>>

Changing == {s \in Sessions : state[s] \in {"adding", "removing"}}

\* beforeHandshake copies the name, then afterConnectionEstablished starts to
\* add the session.
Connect(s) ==
  /\ state[s] = "new"
  /\ user' = [user EXCEPT ![s] = login[s]]
  /\ open' = open \cup {s}
  /\ state' = [state EXCEPT ![s] = "adding"]
  /\ clashed' = IF Changing = {} THEN clashed ELSE clashed \cup Changing \cup {s}
  /\ UNCHANGED <<login, userSessionSet, modCount, size, senderVars>>

\* The end of a change of the set, which moves the size by one if it adds or finds
\* the session; of an overlapping change each of the three effects may be lost.
EndChange(s, set, by, next) ==
  LET found == set # userSessionSet
      After(old, new) == {new} \cup (IF s \in clashed THEN {old} ELSE {})
  IN  /\ userSessionSet' \in After(userSessionSet, set)
      /\ modCount' \in After(modCount, IF found THEN modCount + 1 ELSE modCount)
      /\ size' \in After(size, IF found THEN size + by ELSE size)
      /\ state' = [state EXCEPT ![s] = next]
      /\ UNCHANGED <<login, user, open, clashed, senderVars>>

EndAdd(s) ==
  state[s] = "adding" /\ EndChange(s, userSessionSet \cup {s}, 1, "up")

\* The connection breaks or is closed; the handler hears of it later.
Disconnect(s) ==
  /\ s \in open /\ state[s] \in {"adding", "up"}
  /\ open' = open \ {s}
  /\ UNCHANGED <<login, user, state, userSessionSet, modCount, size, clashed,
                 senderVars>>

\* afterConnectionClosed
BeginRemove(s) ==
  /\ state[s] = "up" /\ s \notin open
  /\ state' = [state EXCEPT ![s] = "removing"]
  /\ clashed' = IF Changing = {} THEN clashed ELSE clashed \cup Changing \cup {s}
  /\ UNCHANGED <<login, user, open, userSessionSet, modCount, size, senderVars>>

\* Variant: afterConnectionClosed only logs.
EndRemoveLogsOnly(s) ==
  state[s] = "removing" /\ EndChange(s, userSessionSet, -1, "gone")

\* Variant: the object of a closed session serves the next handshake.
EndRemoveReuses(s) ==
  state[s] = "removing" /\ EndChange(s, userSessionSet \ {s}, -1, "new")

EndRemove(s) ==
  state[s] = "removing" /\ EndChange(s, userSessionSet \ {s}, -1, "gone")

-----------------------------------------------------------------------------
(* sendMsgToUser, called by /websocket/send with the one target user.      *)

Go(d, where) == pc' = [pc EXCEPT ![d] = where]

\* The iterator keeps its session only for sendMessage, and is gone after the walk.
Stay(d) ==
  /\ at' = IF pc'[d] = "send" THEN at ELSE [at EXCEPT ![d] = NoSession]
  /\ IF pc'[d] \in {"next", "send"}
     THEN UNCHANGED <<todo, expected>>
     ELSE todo' = [todo EXCEPT ![d] = {}] /\ expected' = [expected EXCEPT ![d] = 0]

\* The iterator of a set whose size is not above zero has no first element.
BeginSend(d) ==
  /\ pc[d] = "idle"
  /\ todo' = [todo EXCEPT ![d] = IF size > 0 THEN userSessionSet ELSE {}]
  /\ blind' = IF size > 0 \/ userSessionSet = {} THEN blind ELSE blind \cup {d}
  /\ base' = [base EXCEPT ![d] = userSessionSet]
  /\ expected' = [expected EXCEPT ![d] = modCount]
  /\ Go(d, "next")
  /\ UNCHANGED <<sessionVars, to, at, got>>

\* The for loop: no element left, the next element, or
\* ConcurrentModificationException, which is thrown outside the try.
NextSession(d) ==
  /\ pc[d] = "next"
  /\ \/ /\ todo[d] = {}
        /\ Go(d, "done") /\ Stay(d)
     \/ /\ todo[d] # {} /\ modCount # expected[d]
        /\ Go(d, "threw") /\ Stay(d)
     \/ /\ modCount = expected[d]
        /\ \E s \in todo[d] :
             at' = [at EXCEPT ![d] = s] /\ todo' = [todo EXCEPT ![d] = @ \ {s}]
        /\ Go(d, "visit") /\ UNCHANGED expected
  /\ UNCHANGED <<sessionVars, to, base, blind, got>>

\* Variant: the break of the inner loop leaves the outer one at a closed session.
VisitStopsAtClosed(d) ==
  /\ pc[d] = "visit"
  /\ Go(d, IF at[d] \notin open THEN "done"
           ELSE IF user[at[d]] = Nobody THEN "aborted"
           ELSE IF user[at[d]] = to[d] THEN "send" ELSE "next")
  /\ Stay(d)
  /\ UNCHANGED <<sessionVars, to, base, blind, got>>

\* A session without a user name makes targetUser.equals throw; the catch
\* block returns and the sessions still to come are left out.
Visit(d) ==
  /\ pc[d] = "visit"
  /\ Go(d, IF at[d] \notin open THEN "next"
           ELSE IF user[at[d]] = Nobody THEN "aborted"
           ELSE IF user[at[d]] = to[d] THEN "send" ELSE "next")
  /\ Stay(d)
  /\ UNCHANGED <<sessionVars, to, base, blind, got>>

\* sendMessage fails on a connection closed meanwhile and while another thread
\* writes to the same session, which may be its own thread echoing a text
\* message in handleTextMessage at any time; the catch block returns.
Send(d) ==
  /\ pc[d] = "send"
  /\ \/ /\ at[d] \in open
        /\ got' = [got EXCEPT ![at[d]] = @ \cup {d}]
        /\ Go(d, "next")
     \/ /\ at[d] \notin open \/ SendMayFail
        /\ Go(d, "aborted")
        /\ UNCHANGED got
  /\ Stay(d)
  /\ UNCHANGED <<sessionVars, to, base, blind>>

-----------------------------------------------------------------------------
SessionStep(s) ==
  Login(s) \/ Connect(s) \/ EndAdd(s) \/ Disconnect(s) \/ BeginRemove(s)
  \/ EndRemove(s)
SendStep(d) == BeginSend(d) \/ NextSession(d) \/ Visit(d) \/ Send(d)

Next == (\E s \in Sessions : SessionStep(s)) \/ (\E d \in Senders : SendStep(d))

Spec == Init /\ [][Next]_vars

-----------------------------------------------------------------------------
(* Properties.                                                             *)

\* The sessions of d's user that were in the set when it began and still are.
Meant(d) == {s \in base[d] \cap userSessionSet \cap open : user[s] = to[d]}

\* A walk that ended regularly was complete or empty from its start: it has reached
\* every session of the user that was in the set when it began and still is, however
\* the set changed; or the size was not above zero over a set that was not empty,
\* nobody was reached, and two threads had changed the set at a time before
\* (lines 72, 79 and 85).
CompleteWhenDone ==
  \A d \in Senders : pc[d] = "done" =>
    \/ d \notin blind /\ \A s \in Meant(d) : d \in got[s]
    \/ d \in blind /\ clashed # {} /\ \A s \in Sessions : d \notin got[s]

\* A session is in the set from the end of its opening to the end of its
\* closing, unless two threads changed the set at a time (lines 72 and 79).
SetFollowsSessions ==
  \A s \in Sessions \ clashed :
    /\ state[s] = "up" => s \in userSessionSet
    /\ state[s] \in {"new", "gone"} => s \notin userSessionSet

\* "websoket发送信息完成" (WebsocketController.java:47): when the controller
\* answers "success" the message has been sent to the open sessions of its user,
\* at least if no two threads ever changed the set at a time.
SuccessMeansSent ==
  clashed = {} => \A d \in Senders : pc[d] \in {"done", "aborted"} =>
    \A s \in Meant(d) : d \in got[s]
=============================================================================
