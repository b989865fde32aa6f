----------------------- MODULE WebSocketSessionsProofs -----------------------
(***************************************************************************)
(* Theorems about WebSocketSessions, for every set of sessions, senders    *)
(* and names, in every interleaving of their unsynchronized steps.         *)
(***************************************************************************)
EXTENDS WebSocketSessions, FiniteSetTheorems, TLAPS

(***************************************************************************)
(* The inductive invariant, by parts.                                      *)
(***************************************************************************)

States == {"new", "adding", "up", "removing", "gone"}
Stages == {"idle", "next", "visit", "send", "done", "aborted", "threw"}

Types ==
  /\ login \in [Sessions -> Names \cup {Nobody}]
  /\ user \in [Sessions -> Names \cup {Nobody}]
  /\ state \in [Sessions -> States]
  /\ userSessionSet \subseteq Sessions
  /\ pc \in [Senders -> Stages]
  /\ to \in [Senders -> Names]
  /\ todo \in [Senders -> SUBSET Sessions]
  /\ at \in [Senders -> Sessions \cup {NoSession}]
  /\ base \in [Senders -> SUBSET Sessions]
  /\ blind \subseteq Senders
  /\ size \in Int
  /\ got \in [Sessions -> SUBSET Senders]

\* Only a session whose opening has ended is in the set, or in what a sender saw
\* of it; it is not opened a second time.
Opened ==
  /\ \A s \in userSessionSet : state[s] \in {"up", "removing", "gone"}
  /\ \A d \in Senders : \A s \in base[d] : state[s] \in {"up", "removing", "gone"}

\* The set holds a session whose changes met no other from opening to closing.
Followed ==
  \A s \in Sessions \ clashed :
    s \in userSessionSet <=> state[s] \in {"up", "removing"}

\* The iterator stands at a session while one is visited or sent to, and sends
\* only to the user it is for.
Standing ==
  \A d \in Senders : pc[d] \in {"visit", "send"} => at[d] \in Sessions

\* A session of the user that was in the set and still is has the message, or
\* the iterator still has it before it, if the iterator began with the set.
Coming ==
  \A d \in Senders \ blind : pc[d] \in {"next", "visit", "send", "done"} =>
    \A s \in Meant(d) :
      \/ d \in got[s]
      \/ pc[d] # "done" /\ s \in todo[d]
      \/ pc[d] \in {"visit", "send"} /\ at[d] = s

\* A sender that has not begun, or whose iterator began empty over a set that was
\* not, has reached nobody.
Unheard ==
  \A d \in Senders : pc[d] = "idle" \/ d \in blind =>
    /\ \A s \in Sessions : d \notin got[s]
    /\ pc[d] \in {"idle", "next", "done"}
    /\ d \in blind => pc[d] # "idle" /\ todo[d] = {}

\* As long as no two changes have overlapped, the HashMap's size is the number of
\* its elements, and no iterator began empty over a set that was not.
Sized ==
  clashed = {} => size = Cardinality(userSessionSet) /\ blind = {}

SessionInv ==
  Types /\ Opened /\ Followed /\ Standing /\ Coming /\ Unheard /\ Sized

LEMMA SessionInit == Init => SessionInv
BY FS_EmptySet
   DEF Init, SessionInv, Types, States, Stages, Opened, Followed, Standing, Coming,
       Meant, Unheard, Sized

\* While no two changes overlap the end of a change keeps the size right.
LEMMA EndSized ==
  ASSUME SessionInv, NEW s \in Sessions, EndAdd(s) \/ EndRemove(s)
  PROVE  Sized'
<1> SUFFICES ASSUME clashed' = {}
             PROVE  size' = Cardinality(userSessionSet') /\ blind' = {}
  BY DEF Sized
<1>1. clashed = {} /\ UNCHANGED blind
  BY DEF EndAdd, EndRemove, EndChange, senderVars
<1>2. size = Cardinality(userSessionSet) /\ blind = {} /\ userSessionSet \subseteq Sessions
  BY <1>1 DEF SessionInv, Sized, Types
<1>3. IsFiniteSet(userSessionSet) /\ Cardinality(userSessionSet) \in Nat
  BY <1>2, FiniteActors, FS_Subset, FS_CardinalityType
<1>4. CASE EndAdd(s)
  <2>1. s \notin userSessionSet
    BY <1>4 DEF SessionInv, Opened, EndAdd
  <2>2. userSessionSet' = userSessionSet \cup {s} /\ size' = size + 1
    BY <1>1, <1>4, <2>1 DEF EndAdd, EndChange
  <2> QED
    BY <1>1, <1>2, <1>3, <2>1, <2>2, FS_AddElement
<1>5. CASE EndRemove(s)
  <2>1. s \in userSessionSet
    BY <1>1, <1>5 DEF SessionInv, Followed, EndRemove
  <2>2. userSessionSet' = userSessionSet \ {s} /\ size' = size + (-1)
    BY <1>1, <1>5, <2>1 DEF EndRemove, EndChange
  <2> QED
    BY <1>1, <1>2, <1>3, <2>1, <2>2, FS_RemoveElement
<1> QED
  BY <1>4, <1>5

\* Every step of a session or a sender keeps it.
LEMMA SessionInvStep == SessionInv /\ [Next]_vars => SessionInv'
<1> SUFFICES ASSUME SessionInv, [Next]_vars PROVE SessionInv'
  OBVIOUS
<1> USE DEF SessionInv, Types, States, Stages
<1>1. CASE UNCHANGED vars
  <2>1. Types'
    BY <1>1 DEF vars, sessionVars, senderVars, Standing
  <2>2. Opened'
    BY <1>1 DEF vars, sessionVars, senderVars, Opened
  <2>3. Followed'
    BY <1>1 DEF vars, sessionVars, senderVars, Followed
  <2>4. Standing'
    BY <1>1 DEF vars, sessionVars, senderVars, Standing
  <2>5. Coming'
    BY <1>1 DEF vars, sessionVars, senderVars, Coming, Meant, Opened, Unheard
  <2>6. Unheard'
    BY <1>1 DEF vars, sessionVars, senderVars, Unheard
  <2>7. Sized'
    BY <1>1 DEF vars, sessionVars, senderVars, Sized
  <2> QED
    BY <2>1, <2>2, <2>3, <2>4, <2>5, <2>6, <2>7
<1>2. CASE \E s \in Sessions : Login(s)
  <2>1. Types'
    BY <1>2 DEF Login, senderVars, Standing
  <2>2. Opened'
    BY <1>2 DEF Login, senderVars, Opened
  <2>3. Followed'
    BY <1>2 DEF Login, senderVars, Followed
  <2>4. Standing'
    BY <1>2 DEF Login, senderVars, Standing
  <2>5. Coming'
    BY <1>2 DEF Login, senderVars, Coming, Meant, Opened, Unheard
  <2>6. Unheard'
    BY <1>2 DEF Login, senderVars, Unheard
  <2>7. Sized'
    BY <1>2 DEF Login, senderVars, Sized
  <2> QED
    BY <2>1, <2>2, <2>3, <2>4, <2>5, <2>6, <2>7
<1>3. CASE \E s \in Sessions : Connect(s)
  <2>1. Types'
    BY <1>3 DEF Connect, senderVars, Standing
  <2>2. Opened'
    BY <1>3 DEF Connect, senderVars, Opened
  <2>3. Followed'
    BY <1>3 DEF Connect, senderVars, Followed
  <2>4. Standing'
    BY <1>3 DEF Connect, senderVars, Standing
  <2>5. Coming'
    BY <1>3 DEF Connect, senderVars, Coming, Meant, Opened, Unheard
  <2>6. Unheard'
    BY <1>3 DEF Connect, senderVars, Unheard
  <2>7. Sized'
    BY <1>3 DEF Connect, senderVars, Sized
  <2> QED
    BY <2>1, <2>2, <2>3, <2>4, <2>5, <2>6, <2>7
<1>4. CASE \E s \in Sessions : EndAdd(s)
  <2>1. Types'
    BY <1>4 DEF EndAdd, EndChange, senderVars, Standing
  <2>2. Opened'
    BY <1>4 DEF EndAdd, EndChange, senderVars, Opened
  <2>3. Followed'
    BY <1>4 DEF EndAdd, EndChange, senderVars, Followed
  <2>4. Standing'
    BY <1>4 DEF EndAdd, EndChange, senderVars, Standing
  <2>5. Coming'
    BY <1>4 DEF EndAdd, EndChange, senderVars, Coming, Meant, Opened, Unheard
  <2>6. Unheard'
    BY <1>4 DEF EndAdd, EndChange, senderVars, Unheard
  <2>7. Sized'
    BY <1>4, EndSized
  <2> QED
    BY <2>1, <2>2, <2>3, <2>4, <2>5, <2>6, <2>7
<1>5. CASE \E s \in Sessions : Disconnect(s)
  <2>1. Types'
    BY <1>5 DEF Disconnect, senderVars, Standing
  <2>2. Opened'
    BY <1>5 DEF Disconnect, senderVars, Opened
  <2>3. Followed'
    BY <1>5 DEF Disconnect, senderVars, Followed
  <2>4. Standing'
    BY <1>5 DEF Disconnect, senderVars, Standing
  <2>5. Coming'
    BY <1>5 DEF Disconnect, senderVars, Coming, Meant, Opened, Unheard
  <2>6. Unheard'
    BY <1>5 DEF Disconnect, senderVars, Unheard
  <2>7. Sized'
    BY <1>5 DEF Disconnect, senderVars, Sized
  <2> QED
    BY <2>1, <2>2, <2>3, <2>4, <2>5, <2>6, <2>7
<1>6. CASE \E s \in Sessions : BeginRemove(s)
  <2>1. Types'
    BY <1>6 DEF BeginRemove, senderVars, Standing
  <2>2. Opened'
    BY <1>6 DEF BeginRemove, senderVars, Opened
  <2>3. Followed'
    BY <1>6 DEF BeginRemove, senderVars, Followed
  <2>4. Standing'
    BY <1>6 DEF BeginRemove, senderVars, Standing
  <2>5. Coming'
    BY <1>6 DEF BeginRemove, senderVars, Coming, Meant, Opened, Unheard
  <2>6. Unheard'
    BY <1>6 DEF BeginRemove, senderVars, Unheard
  <2>7. Sized'
    BY <1>6 DEF BeginRemove, senderVars, Sized
  <2> QED
    BY <2>1, <2>2, <2>3, <2>4, <2>5, <2>6, <2>7
<1>7. CASE \E s \in Sessions : EndRemove(s)
  <2>1. Types'
    BY <1>7 DEF EndRemove, EndChange, senderVars, Standing
  <2>2. Opened'
    BY <1>7 DEF EndRemove, EndChange, senderVars, Opened
  <2>3. Followed'
    BY <1>7 DEF EndRemove, EndChange, senderVars, Followed
  <2>4. Standing'
    BY <1>7 DEF EndRemove, EndChange, senderVars, Standing
  <2>5. Coming'
    BY <1>7 DEF EndRemove, EndChange, senderVars, Coming, Meant, Opened, Unheard
  <2>6. Unheard'
    BY <1>7 DEF EndRemove, EndChange, senderVars, Unheard
  <2>7. Sized'
    BY <1>7, EndSized
  <2> QED
    BY <2>1, <2>2, <2>3, <2>4, <2>5, <2>6, <2>7
<1>8. CASE \E d \in Senders : BeginSend(d)
  <2>1. Types'
    BY <1>8 DEF BeginSend, sessionVars, Go, Standing
  <2>2. Opened'
    BY <1>8 DEF BeginSend, sessionVars, Go, Opened
  <2>3. Followed'
    BY <1>8 DEF BeginSend, sessionVars, Go, Followed
  <2>4. Standing'
    BY <1>8 DEF BeginSend, sessionVars, Go, Standing
  <2>5. Coming'
    BY <1>8 DEF BeginSend, sessionVars, Go, Coming, Meant, Opened, Unheard
  <2>6. Unheard'
    BY <1>8 DEF BeginSend, sessionVars, Go, Unheard
  <2>7. Sized'
    <3>1. PICK d \in Senders : BeginSend(d)
      BY <1>8
    <3>2. ASSUME size = Cardinality(userSessionSet), size <= 0 PROVE userSessionSet = {}
      <4>1. IsFiniteSet(userSessionSet)
        BY FiniteActors, FS_Subset
      <4>2. Cardinality(userSessionSet) \in Nat
        BY <4>1, FS_CardinalityType
      <4> QED
        BY <3>2, <4>1, <4>2, FS_EmptySet
    <3> QED
      BY <3>1, <3>2 DEF BeginSend, sessionVars, Sized
  <2> QED
    BY <2>1, <2>2, <2>3, <2>4, <2>5, <2>6, <2>7
<1>9. CASE \E d \in Senders : NextSession(d)
  <2>1. Types'
    BY <1>9 DEF NextSession, sessionVars, Go, Stay, Standing
  <2>2. Opened'
    BY <1>9 DEF NextSession, sessionVars, Go, Stay, Opened
  <2>3. Followed'
    BY <1>9 DEF NextSession, sessionVars, Go, Stay, Followed
  <2>4. Standing'
    BY <1>9 DEF NextSession, sessionVars, Go, Stay, Standing
  <2>5. Coming'
    BY <1>9 DEF NextSession, sessionVars, Go, Stay, Coming, Meant, Opened, Unheard
  <2>6. Unheard'
    BY <1>9 DEF NextSession, sessionVars, Go, Stay, Unheard
  <2>7. Sized'
    BY <1>9 DEF NextSession, sessionVars, Go, Stay, Sized
  <2> QED
    BY <2>1, <2>2, <2>3, <2>4, <2>5, <2>6, <2>7
<1>10. CASE \E d \in Senders : Visit(d)
  <2>1. Types'
    BY <1>10 DEF Visit, sessionVars, Go, Stay, Standing
  <2>2. Opened'
    BY <1>10 DEF Visit, sessionVars, Go, Stay, Opened
  <2>3. Followed'
    BY <1>10 DEF Visit, sessionVars, Go, Stay, Followed
  <2>4. Standing'
    BY <1>10 DEF Visit, sessionVars, Go, Stay, Standing
  <2>5. Coming'
    BY <1>10 DEF Visit, sessionVars, Go, Stay, Coming, Meant, Opened, Unheard
  <2>6. Unheard'
    BY <1>10 DEF Visit, sessionVars, Go, Stay, Unheard
  <2>7. Sized'
    BY <1>10 DEF Visit, sessionVars, Go, Stay, Sized
  <2> QED
    BY <2>1, <2>2, <2>3, <2>4, <2>5, <2>6, <2>7
<1>11. CASE \E d \in Senders : Send(d)
  <2>1. Types'
    BY <1>11 DEF Send, sessionVars, Go, Stay, Standing
  <2>2. Opened'
    BY <1>11 DEF Send, sessionVars, Go, Stay, Opened
  <2>3. Followed'
    BY <1>11 DEF Send, sessionVars, Go, Stay, Followed
  <2>4. Standing'
    BY <1>11 DEF Send, sessionVars, Go, Stay, Standing
  <2>5. Coming'
    BY <1>11 DEF Send, sessionVars, Go, Stay, Coming, Meant, Opened, Unheard
  <2>6. Unheard'
    BY <1>11 DEF Send, sessionVars, Go, Stay, Unheard
  <2>7. Sized'
    BY <1>11 DEF Send, sessionVars, Go, Stay, Sized
  <2> QED
    BY <2>1, <2>2, <2>3, <2>4, <2>5, <2>6, <2>7
<1> QED
  BY <1>1, <1>2, <1>3, <1>4, <1>5, <1>6, <1>7, <1>8, <1>9, <1>10, <1>11
     DEF Next, SessionStep, SendStep

\* A walk that ended regularly reached every session of its user that was there all
\* the time, however the set changed, or found the size not above zero from the
\* start, and that only after two changes overlapped (WebSocketConfig.java:72, 79, 85).
THEOREM DoneIsComplete == Spec => []CompleteWhenDone
<1>1. SessionInv => CompleteWhenDone
  BY DEF SessionInv, Types, Coming, Unheard, Sized, CompleteWhenDone
<1> QED
  BY SessionInit, SessionInvStep, <1>1, PTL DEF Spec

\* A session is in the set from the end of its opening to the end of its closing,
\* unless its change overlapped another (WebSocketConfig.java:72, 79).
THEOREM SetCorrect == Spec => []SetFollowsSessions
<1>1. SessionInv => SetFollowsSessions
  BY DEF SessionInv, Followed, SetFollowsSessions
<1> QED
  BY SessionInit, SessionInvStep, <1>1, PTL DEF Spec

(***************************************************************************)
(* The count of modifications and the size stay small.                     *)
(***************************************************************************)

\* The sessions whose opening has ended, and those whose closing has.
Added == {s \in Sessions : state[s] \in {"up", "removing", "gone"}}
Removed == {s \in Sessions : state[s] = "gone"}

\* Each session changes the set twice at most, and what a sender remembers of
\* the count is no more than the count.  The size, however wrong, has had one
\* increment for each opening and one decrement for each closing at most.
Counted ==
  /\ open \subseteq Sessions /\ clashed \subseteq Sessions
  /\ modCount \in Nat /\ modCount <= Cardinality(Added) + Cardinality(Removed)
  /\ size <= Cardinality(Added) /\ - Cardinality(Removed) <= size
  /\ expected \in [Senders -> Nat] /\ \A d \in Senders : expected[d] <= modCount

LEMMA CountedInit == Init => Counted
<1> SUFFICES ASSUME Init PROVE Counted
  OBVIOUS
<1>1. Added = {} /\ Removed = {}
  BY DEF Init, Added, Removed
<1>2. Cardinality(Added) = 0 /\ Cardinality(Removed) = 0
  BY <1>1, FS_EmptySet
<1> QED
  BY <1>2 DEF Init, Counted

\* There are finitely many of both.
LEMMA FewSessions ==
  /\ IsFiniteSet(Added) /\ IsFiniteSet(Removed) /\ Cardinality(Sessions) \in Nat
  /\ Cardinality(Added) \in Nat /\ Cardinality(Removed) \in Nat
  /\ Cardinality(Added) <= Cardinality(Sessions)
  /\ Cardinality(Removed) <= Cardinality(Sessions)
<1>1. Added \in SUBSET Sessions /\ Removed \in SUBSET Sessions
  BY DEF Added, Removed
<1> QED
  BY <1>1, FiniteActors, FS_Subset, FS_CardinalityType

\* The end of a change counts it once, and moves its session into Added or
\* Removed, where it was not.
LEMMA EndCounts ==
  ASSUME SessionInv, Counted, NEW s \in Sessions, EndAdd(s) \/ EndRemove(s)
  PROVE  Counted'
<1> USE DEF SessionInv, Types, States
<1>1. /\ modCount' \in {modCount, modCount + 1}
      /\ size' \in {size, IF EndAdd(s) THEN size + 1 ELSE size + (-1)}
      /\ UNCHANGED <<open, clashed, expected>>
  BY DEF EndAdd, EndRemove, EndChange, senderVars
<1>2. /\ IsFiniteSet(Added) /\ IsFiniteSet(Removed)
      /\ Cardinality(Added) \in Nat /\ Cardinality(Removed) \in Nat
  BY FewSessions
<1>3. IF EndAdd(s)
      THEN Cardinality(Added') = Cardinality(Added) + 1 /\ Removed' = Removed
      ELSE Cardinality(Removed') = Cardinality(Removed) + 1 /\ Added' = Added
  <2>1. CASE EndAdd(s)
    <3>1. state[s] = "adding" /\ state' = [state EXCEPT ![s] = "up"]
      BY <2>1 DEF EndAdd, EndChange
    <3>2. Added' = Added \cup {s} /\ s \notin Added /\ Removed' = Removed
      BY <3>1 DEF Added, Removed
    <3>3. Cardinality(Added \cup {s}) = Cardinality(Added) + 1
      BY <1>2, <3>2, FS_AddElement
    <3> QED
      BY <1>2, <2>1, <3>2, <3>3
  <2>2. CASE EndRemove(s)
    <3>0. ~ EndAdd(s)
      BY <2>2 DEF EndAdd, EndRemove
    <3>1. state[s] = "removing" /\ state' = [state EXCEPT ![s] = "gone"]
      BY <2>2 DEF EndRemove, EndChange
    <3>2. Removed' = Removed \cup {s} /\ s \notin Removed /\ Added' = Added
      BY <3>1 DEF Added, Removed
    <3>3. Cardinality(Removed \cup {s}) = Cardinality(Removed) + 1
      BY <1>2, <3>2, FS_AddElement
    <3> QED
      BY <1>2, <3>0, <3>2, <3>3
  <2> QED
    BY <2>1, <2>2
<1> QED
  BY <1>1, <1>2, <1>3 DEF Counted

LEMMA CountedStep == SessionInv /\ Counted /\ [Next]_vars => Counted'
<1> SUFFICES ASSUME SessionInv, Counted, [Next]_vars PROVE Counted'
  OBVIOUS
<1> USE DEF SessionInv, Types, States
<1>1. CASE \E s \in Sessions : EndAdd(s) \/ EndRemove(s)
  BY <1>1, EndCounts
<1>2. CASE \E s \in Sessions : Connect(s) \/ BeginRemove(s)
  <2> PICK s \in Sessions : Connect(s) \/ BeginRemove(s)
    BY <1>2
  <2>1. /\ UNCHANGED <<modCount, size, expected>>
        /\ open' \subseteq open \cup {s} /\ clashed' \subseteq clashed \cup Changing \cup {s}
    BY DEF Connect, BeginRemove, senderVars
  <2>2. \E v \in {"adding", "removing"} :
          /\ state' = [state EXCEPT ![s] = v]
          /\ state[s] = IF v = "adding" THEN "new" ELSE "up"
    BY DEF Connect, BeginRemove
  <2>3. Added' = Added /\ Removed' = Removed
    BY <2>2 DEF Added, Removed
  <2> QED
    BY <2>1, <2>3 DEF Counted, Changing
<1>3. CASE \E s \in Sessions : Login(s) \/ Disconnect(s)
  <2>1. UNCHANGED <<state, modCount, size, expected, clashed>> /\ open' \subseteq open
    BY <1>3 DEF Login, Disconnect, senderVars
  <2> QED
    BY <2>1 DEF Counted, Added, Removed
<1>4. CASE \E d \in Senders : BeginSend(d)
  <2>1. /\ UNCHANGED <<state, modCount, size, open, clashed>>
        /\ \E d \in Senders : expected' = [expected EXCEPT ![d] = modCount]
    BY <1>4 DEF BeginSend, sessionVars
  <2> QED
    BY <2>1 DEF Counted, Added, Removed
<1>5. CASE UNCHANGED vars \/ \E d \in Senders : NextSession(d) \/ Visit(d) \/ Send(d)
  <2>1. /\ UNCHANGED <<state, modCount, size, open, clashed>>
        /\ \/ UNCHANGED expected
           \/ \E d \in Senders : expected' = [expected EXCEPT ![d] = 0]
    BY <1>5 DEF vars, sessionVars, senderVars, NextSession, Visit, Send, Stay
  <2> QED
    BY <2>1 DEF Counted, Added, Removed
<1> QED
  BY <1>1, <1>2, <1>3, <1>4, <1>5 DEF Next, SessionStep, SendStep

\* The count never passes two changes for each session, lost or not, and a
\* sender's copy of it neither; the size is wrong by no more than the number of
\* sessions; nothing else leaves its type.
THEOREM SessionsTyped == Spec => []TypeOK
<1>1. ASSUME SessionInv, Counted PROVE TypeOK
  <2>1. modCount <= 2 * Cardinality(Sessions) /\ Cardinality(Sessions) \in Nat
    BY <1>1, FewSessions DEF Counted
  <2>2. modCount \in 0 .. 2 * Cardinality(Sessions)
    BY <1>1, <2>1 DEF Counted
  <2>3. expected \in [Senders -> 0 .. 2 * Cardinality(Sessions)]
    <3>1. ASSUME NEW d \in Senders PROVE expected[d] \in 0 .. 2 * Cardinality(Sessions)
      BY <1>1, <2>1 DEF Counted
    <3> QED
      BY <1>1, <3>1 DEF Counted
  <2>4. size \in (- Cardinality(Sessions)) .. Cardinality(Sessions)
    BY <1>1, FewSessions DEF Counted, SessionInv, Types
  <2> QED
    BY <1>1, <2>2, <2>3, <2>4 DEF SessionInv, Types, States, Stages, Counted, TypeOK
<1>2. Init => SessionInv /\ Counted
  BY SessionInit, CountedInit
<1>3. SessionInv /\ Counted /\ [Next]_vars => SessionInv' /\ Counted'
  BY SessionInvStep, CountedStep
<1> QED
  BY <1>1, <1>2, <1>3, PTL DEF Spec
==============================================================================
