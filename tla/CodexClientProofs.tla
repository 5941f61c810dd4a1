------------------------- MODULE CodexClientProofs -------------------------
(* Proofs about CodexClient for any callers, connections and messages.     *)
EXTENDS CodexClient, FiniteSetTheorems, SequenceTheorems, TLAPS

USE ClientAssumption

(* Callers, numbers and connections are not mistaken for each other.       *)
LEMMA Apart ==
  /\ None \notin Connections /\ None \notin Ids /\ None \notin Callers
  /\ Connections \subseteq Nat /\ Ids \subseteq Nat
  /\ Closer \notin Callers /\ Closer \notin Connections /\ Callers \cap Connections = {}
  /\ Requesters \subseteq Callers /\ Responders \subseteq Callers
  /\ Callers = Requesters \cup Responders /\ Requesters \cap Responders = {}
  BY DEF Connections, Ids, Callers, None

-----------------------------------------------------------------------------
(* The queue of a lock: its head has the lock or is about to take it, the  *)
(* others of the queue wait, and nobody is in it twice.                    *)
Disciplined(q, S, waiting, holding) ==
  /\ q \in Seq(S)
  /\ \A i, j \in 1..Len(q) : q[i] = q[j] => i = j
  /\ \A i \in 1..Len(q) : q[i] \in waiting \/ (i = 1 /\ q[i] \in holding)
  /\ \A p \in holding : Owns(q, p)

(* A free lock is taken.                                                   *)
LEMMA LockTaken ==
  ASSUME NEW S, NEW p \in S, NEW waiting, NEW holding, holding = {p}
  PROVE  Disciplined(<<p>>, S, waiting, holding)
  BY DEF Disciplined, Owns

(* The head of the queue takes the lock that has been handed to it.        *)
LEMMA LockHandedOver ==
  ASSUME NEW S, NEW q, NEW p, NEW W, NEW H, NEW W2, NEW H2,
         Disciplined(q, S, W, H), Owns(q, p), W \ {p} \subseteq W2, H2 = {p}
  PROVE  /\ Disciplined(q, S, W2, H2) /\ Disciplined(<<p>> \o Tail(q), S, W2, H2)
         /\ <<p>> \o Tail(q) = q
  <1>1. q \in Seq(S) /\ q # <<>> /\ Head(q) = p /\ q[1] = p
    BY DEF Disciplined, Owns
  <1>2. <<p>> \o Tail(q) = q
    BY <1>1
  <1>3. \A i \in 1..Len(q) : q[i] \in W \/ i = 1
    BY DEF Disciplined
  <1>4. \A i \in 1..Len(q) : i # 1 => q[i] # p
    BY <1>1 DEF Disciplined
  <1>5. Disciplined(q, S, W2, H2)
    BY <1>1, <1>3, <1>4 DEF Disciplined, Owns
  <1> QED
    BY <1>2, <1>5

(* The head leaves, with the lock or as soon as it gets it.                *)
LEMMA LockPassed ==
  ASSUME NEW S, NEW q, NEW p, NEW W, NEW H, NEW W2, NEW H2,
         Disciplined(q, S, W, H), Owns(q, p), W \ {p} \subseteq W2, H2 = {}
  PROVE  Disciplined(Tail(q), S, W2, H2)
  <1>1. q \in Seq(S) /\ q # <<>> /\ Head(q) = p /\ q[1] = p
    BY DEF Disciplined, Owns
  <1>2. /\ Tail(q) \in Seq(S) /\ Len(Tail(q)) = Len(q) - 1 /\ Len(q) \in Nat
        /\ \A i \in 1..Len(Tail(q)) : Tail(q)[i] = q[i + 1] /\ i + 1 \in 1..Len(q) /\ i + 1 # 1
    BY <1>1
  <1>3. \A i \in 1..Len(q) : q[i] \in W \/ i = 1
    BY DEF Disciplined
  <1>4. \A i \in 1..Len(q) : i # 1 => q[i] # p
    BY <1>1 DEF Disciplined
  <1>5. \A i \in 1..Len(Tail(q)) : Tail(q)[i] \in W2
    BY <1>2, <1>3, <1>4
  <1>6. ASSUME NEW i \in 1..Len(Tail(q)), NEW j \in 1..Len(Tail(q)), Tail(q)[i] = Tail(q)[j]
        PROVE  i = j
    <2>1. i + 1 = j + 1
      BY <1>2, <1>6 DEF Disciplined
    <2> QED
      BY <2>1
  <1> QED
    BY <1>2, <1>5, <1>6 DEF Disciplined

(* Another joins the queue.                                                *)
LEMMA LockAwaited ==
  ASSUME NEW S, NEW q, NEW p \in S, NEW W, NEW H, NEW W2, NEW H2,
         Disciplined(q, S, W, H), p \notin W \cup H, W \cup {p} \subseteq W2, H2 = H
  PROVE  Disciplined(Append(q, p), S, W2, H2)
  <1>1. /\ Append(q, p) \in Seq(S) /\ Len(Append(q, p)) = Len(q) + 1 /\ Len(q) \in Nat
        /\ \A i \in 1..Len(q) : Append(q, p)[i] = q[i]
        /\ Append(q, p)[Len(q) + 1] = p
    BY DEF Disciplined
  <1>2. \A i \in 1..Len(q) : q[i] # p
    BY DEF Disciplined
  <1>3. \A i \in 1..Len(Append(q, p)) : i \in 1..Len(q) \/ i = Len(q) + 1
    BY <1>1
  <1>4. \A i \in 1..Len(Append(q, p)) :
          Append(q, p)[i] \in W2 \/ (i = 1 /\ Append(q, p)[i] \in H2)
    BY <1>1, <1>3 DEF Disciplined
  <1>5. \A i, j \in 1..Len(Append(q, p)) : Append(q, p)[i] = Append(q, p)[j] => i = j
    BY <1>1, <1>2, <1>3 DEF Disciplined
  <1>6. \A h \in H2 : Owns(Append(q, p), h)
    BY DEF Disciplined, Owns
  <1> QED
    BY <1>1, <1>4, <1>5, <1>6 DEF Disciplined

(* A cancelled task leaves, wherever in the queue it was.                  *)
Leaves(q, p, r) ==
  \E i \in 1..Len(q) : q[i] = p /\ r = SubSeq(q, 1, i - 1) \o SubSeq(q, i + 1, Len(q))

LEMMA LockGivenUp ==
  ASSUME NEW S, NEW q, NEW p, NEW W, NEW H, NEW W2, NEW H2, NEW r,
         Disciplined(q, S, W, H), W \ {p} \subseteq W2, H2 = H \ {p}, Leaves(q, p, r)
  PROVE  Disciplined(r, S, W2, H2)
  <1>1. ASSUME NEW i \in 1..Len(q), q[i] = p, r = SubSeq(q, 1, i - 1) \o SubSeq(q, i + 1, Len(q))
        PROVE  Disciplined(r, S, W2, H2)
    <2> DEFINE front == SubSeq(q, 1, i - 1)  back == SubSeq(q, i + 1, Len(q))
    <2>1. q \in Seq(S) /\ Len(q) \in Nat /\ i \in Nat
      BY DEF Disciplined
    <2>2. /\ front \in Seq(S) /\ Len(front) = i - 1
          /\ \A j \in 1..(i - 1) : front[j] = q[j]
      BY <2>1, SubSeqProperties
    <2>3. /\ back \in Seq(S) /\ Len(back) = Len(q) - i
          /\ \A j \in 1..(Len(q) - i) : back[j] = q[j + i]
      BY <2>1, SubSeqProperties
    <2> HIDE DEF front, back
    <2>4. /\ r \in Seq(S) /\ Len(r) = Len(q) - 1
          /\ \A j \in 1..(i - 1) : r[j] = q[j]
          /\ \A j \in i..(Len(q) - 1) : r[j] = q[j + 1]
      <3>1. r = front \o back
        BY <1>1 DEF front, back
      <3>2. /\ r \in Seq(S) /\ Len(r) = Len(front) + Len(back)
            /\ \A j \in 1..(Len(front) + Len(back)) :
                 r[j] = IF j <= Len(front) THEN front[j] ELSE back[j - Len(front)]
        <4>1. front \in Seq(S) /\ back \in Seq(S)
          BY <2>2, <2>3
        <4> QED
          BY <3>1, <4>1, ConcatProperties, Zenon
      <3>3. Len(r) = Len(q) - 1
        BY <2>1, <2>2, <2>3, <3>2
      <3>4. ASSUME NEW j \in 1..(i - 1)
            PROVE  r[j] = q[j]
        <4>1. j \in 1..(Len(front) + Len(back)) /\ j <= Len(front)
          BY <2>1, <2>2, <2>3
        <4> QED
          BY <2>2, <3>2, <4>1
      <3>5. ASSUME NEW j \in i..(Len(q) - 1)
            PROVE  r[j] = q[j + 1]
        <4>1. /\ j \in 1..(Len(front) + Len(back)) /\ ~(j <= Len(front))
              /\ j - Len(front) = j - i + 1 /\ j - i + 1 \in 1..(Len(q) - i) /\ (j - i + 1) + i = j + 1
          BY <2>1, <2>2, <2>3
        <4>2. r[j] = back[j - i + 1]
          BY <3>2, <4>1
        <4> QED
          BY <2>3, <4>1, <4>2
      <3> QED
        BY <3>2, <3>3, <3>4, <3>5
    <2>5. \A j \in 1..Len(r) : j \in 1..(i - 1) \/ j \in i..(Len(q) - 1)
      BY <2>1, <2>4
    <2>6. \A j \in 1..Len(q) : q[j] = p => j = i
      BY <1>1 DEF Disciplined
    <2>7. ASSUME NEW j \in 1..Len(r)
          PROVE  r[j] \in W2 \/ (j = 1 /\ r[j] \in H2)
      <3>1. CASE j \in 1..(i - 1)
        BY <2>1, <2>4, <2>6, <3>1 DEF Disciplined
      <3>2. CASE j \in i..(Len(q) - 1)
        <4>1. r[j] = q[j + 1] /\ j + 1 \in 1..Len(q) /\ j + 1 # 1 /\ j + 1 # i
          BY <2>1, <2>4, <3>2
        <4> QED
          BY <2>6, <4>1 DEF Disciplined
      <3> QED
        BY <2>5, <3>1, <3>2
    <2>8. ASSUME NEW j \in 1..Len(r), NEW k \in 1..Len(r), r[j] = r[k]
          PROVE  j = k
      <3>1. \A x \in 1..(i - 1) : r[x] = q[x] /\ x \in 1..Len(q) /\ x # i
        BY <2>1, <2>4
      <3>2. \A x \in i..(Len(q) - 1) : r[x] = q[x + 1] /\ x + 1 \in 1..Len(q) /\ x + 1 > i
        BY <2>1, <2>4
      <3>3. \A x, y \in 1..Len(q) : q[x] = q[y] => x = y
        BY DEF Disciplined
      <3>4. CASE j \in 1..(i - 1) /\ k \in 1..(i - 1)
        BY <2>8, <3>1, <3>3, <3>4
      <3>5. CASE j \in i..(Len(q) - 1) /\ k \in i..(Len(q) - 1)
        <4>1. j + 1 = k + 1
          BY <2>8, <3>2, <3>3, <3>5
        <4> QED
          BY <2>1, <4>1
      <3>6. CASE j \in 1..(i - 1) /\ k \in i..(Len(q) - 1)
        <4>1. j = k + 1
          BY <2>8, <3>1, <3>2, <3>3, <3>6
        <4> QED
          BY <2>1, <3>6, <4>1
      <3>7. CASE j \in i..(Len(q) - 1) /\ k \in 1..(i - 1)
        <4>1. j + 1 = k
          BY <2>8, <3>1, <3>2, <3>3, <3>7
        <4> QED
          BY <2>1, <3>7, <4>1
      <3> QED
        BY <2>5, <3>4, <3>5, <3>6, <3>7
    <2>9. ASSUME NEW h \in H2
          PROVE  Owns(r, h)
      <3>1. h \in H /\ h # p /\ q # <<>> /\ q[1] = h
        BY <2>9, <2>1 DEF Disciplined, Owns
      <3>2. i # 1 /\ 1 \in 1..(i - 1)
        BY <1>1, <2>1, <3>1
      <3>3. r[1] = h /\ r # <<>>
        BY <2>1, <2>4, <3>1, <3>2
      <3> QED
        BY <2>4, <3>3 DEF Owns
    <2> QED
      BY <2>4, <2>7, <2>8, <2>9 DEF Disciplined
  <1> QED
    BY <1>1 DEF Leaves

-----------------------------------------------------------------------------
(* The invariant, regrouped by what changes together.                      *)
Places == {"idle", "connect lock", "handshake", "send lock", "drain", "response", "done", "failed"}
Letters == [kind : {"response", "event", "request", "nonsense"},
            id : Ids \cup {None}, of : Requesters \cup {None}]

RequestTypeOK ==
  /\ pending \in [Ids -> Requesters \cup {None}] /\ counter \in Ids \cup {0}
  /\ at \in [Callers -> Places]
  /\ id \in [Requesters -> Ids \cup {None}]
  /\ future \in [Requesters -> {"none", "open", "failed"} \cup Requesters]
  /\ sentOn \in [Callers -> Connections \cup {None}]
  /\ owed \subseteq Requesters
  /\ inbox \in [Connections -> Seq(Letters)]

ConnectionTypeOK ==
  /\ websocket \in Connections \cup {None} /\ receiver \in Connections \cup {None}
  /\ loop \in [Connections -> LoopPlaces]
  /\ closer \in [at : {"idle", "connect lock", "closing", "joining", "done"},
                 websocket : Connections \cup {None}, receiver : Connections \cup {None}]
  /\ conn \in [Connections -> {"none", "open", "closed", "lost"}]
  /\ told \in Nat

PendingInProgress ==
  \A i \in Ids : pending[i] # None => at[pending[i]] \in {"send lock", "drain", "response"}

RequestsOK ==
  /\ RequestTypeOK /\ PendingInProgress
  /\ RequestsAreNumbered /\ RequestsAdvance /\ AnswersAreExpected

ConnectWaiting ==
  {t \in Callers : at[t] = "connect lock"} \cup {p \in {Closer} : closer.at = "connect lock"}
ConnectHolding ==
  {t \in Callers : at[t] = "handshake"} \cup {p \in {Closer} : closer.at \in HasConnectLock}
ConnectLockOK == Disciplined(connectQueue, Callers \cup {Closer}, ConnectWaiting, ConnectHolding)

SendWaiting == {t \in Callers : at[t] = "send lock"} \cup {c \in Connections : loop[c] = "send lock"}
SendHolding == {t \in Callers : at[t] = "drain"} \cup {c \in Connections : loop[c] = "drain"}
SendLockOK == Disciplined(sendQueue, Callers \cup Connections, SendWaiting, SendHolding)

ConnectionsOK == ConnectionTypeOK /\ ConnectionsAreNumbered /\ OneLoopLives

LEMMA Regrouped ==
  IInv <=> /\ RequestsOK /\ ConnectionsOK /\ ConnectLockOK /\ SendLockOK
           /\ SentIsWatched /\ ClosedIsSettled
  <1>1. TypeOK <=>
          /\ RequestTypeOK /\ ConnectionTypeOK /\ PendingInProgress
          /\ connectQueue \in Seq(Callers \cup {Closer}) /\ sendQueue \in Seq(Callers \cup Connections)
          /\ \A i, j \in 1..Len(connectQueue) : connectQueue[i] = connectQueue[j] => i = j
          /\ \A i, j \in 1..Len(sendQueue) : sendQueue[i] = sendQueue[j] => i = j
    <2>1. ASSUME connectQueue \in Seq(Callers \cup {Closer}), sendQueue \in Seq(Callers \cup Connections)
          PROVE  DOMAIN connectQueue = 1..Len(connectQueue) /\ DOMAIN sendQueue = 1..Len(sendQueue)
      BY <2>1
    <2> QED
      BY <2>1 DEF TypeOK, RequestTypeOK, ConnectionTypeOK, PendingInProgress, Places, Letters
  <1>2. ASSUME connectQueue \in Seq(Callers \cup {Closer}),
               \A i, j \in 1..Len(connectQueue) : connectQueue[i] = connectQueue[j] => i = j
        PROVE  ConnectLockIsHeld <=> ConnectLockOK
    <2>1. \A i \in 1..Len(connectQueue) :
            /\ connectQueue[i] \in Callers \cup {Closer} /\ (connectQueue[i] = Closer => connectQueue[i] \notin Callers)
      BY <1>2, Apart
    <2>2. (\A i \in 1..Len(connectQueue) :
             LET p == connectQueue[i]
             IN  IF p = Closer
                 THEN closer.at = "connect lock" \/ (i = 1 /\ closer.at \in HasConnectLock)
                 ELSE at[p] = "connect lock" \/ (i = 1 /\ at[p] = "handshake"))
          <=> \A i \in 1..Len(connectQueue) :
                connectQueue[i] \in ConnectWaiting \/ (i = 1 /\ connectQueue[i] \in ConnectHolding)
      BY <2>1 DEF ConnectWaiting, ConnectHolding
    <2>3. (\A p \in ConnectHolding : Owns(connectQueue, p)) <=>
            /\ \A t \in Callers : at[t] = "handshake" => Owns(connectQueue, t)
            /\ closer.at \in HasConnectLock => Owns(connectQueue, Closer)
      BY DEF ConnectHolding
    <2> QED
      BY <1>2, <2>2, <2>3 DEF ConnectLockIsHeld, ConnectLockOK, Disciplined
  <1>3. ASSUME sendQueue \in Seq(Callers \cup Connections),
               \A i, j \in 1..Len(sendQueue) : sendQueue[i] = sendQueue[j] => i = j
        PROVE  SendLockIsHeld <=> SendLockOK
    <2>1. \A i \in 1..Len(sendQueue) :
            /\ sendQueue[i] \in Callers \cup Connections
            /\ (sendQueue[i] \in Callers <=> sendQueue[i] \notin Connections)
      BY <1>3, Apart
    <2>2. (\A i \in 1..Len(sendQueue) :
             LET p == sendQueue[i]
             IN  IF p \in Callers
                 THEN at[p] = "send lock" \/ (i = 1 /\ at[p] = "drain")
                 ELSE loop[p] = "send lock" \/ (i = 1 /\ loop[p] = "drain"))
          <=> \A i \in 1..Len(sendQueue) :
                sendQueue[i] \in SendWaiting \/ (i = 1 /\ sendQueue[i] \in SendHolding)
      BY <2>1 DEF SendWaiting, SendHolding
    <2>3. (\A p \in SendHolding : Owns(sendQueue, p)) <=>
            /\ \A t \in Callers : at[t] = "drain" => Owns(sendQueue, t)
            /\ \A c \in Connections : loop[c] = "drain" => Owns(sendQueue, c)
      BY DEF SendHolding
    <2> QED
      BY <1>3, <2>2, <2>3 DEF SendLockIsHeld, SendLockOK, Disciplined
  <1>4. ConnectLockOK => /\ connectQueue \in Seq(Callers \cup {Closer})
                         /\ \A i, j \in 1..Len(connectQueue) : connectQueue[i] = connectQueue[j] => i = j
    BY DEF ConnectLockOK, Disciplined
  <1>5. SendLockOK => /\ sendQueue \in Seq(Callers \cup Connections)
                      /\ \A i, j \in 1..Len(sendQueue) : sendQueue[i] = sendQueue[j] => i = j
    BY DEF SendLockOK, Disciplined
  <1> HIDE DEF TypeOK
  <1> QED
    BY <1>1, <1>2, <1>3, <1>4, <1>5 DEF IInv, RequestsOK, ConnectionsOK

-----------------------------------------------------------------------------
(* Requests, their numbers and their answers.                              *)

(* Answers on their way stay so when messages are read from the front and  *)
(* their requests go on to expect them.                                    *)
Coming(u) ==
  \E c \in Connections : \E i \in 1..Len(inbox[c]) :
    inbox[c][i].kind = "response" /\ inbox[c][i].of = u

LEMMA AnswersStay ==
  ASSUME RequestTypeOK, AnswersAreExpected, inbox' \in [Connections -> Seq(Letters)],
         NEW n \in [Connections -> Nat],
         \A d \in Connections : \A j \in 1..Len(inbox'[d]) :
           j + n[d] \in 1..Len(inbox[d]) /\ inbox'[d][j] = inbox[d][j + n[d]],
         \A u \in Requesters : sentOn[u] # None /\ Expecting(u) /\ u \notin owed /\ Coming(u)' =>
           sentOn'[u] # None /\ id'[u] = id[u] /\ Expecting(u)' /\ u \notin owed',
         \A u \in owed' : sentOn'[u] # None /\ Expecting(u)'
  PROVE  AnswersAreExpected'
  <1>1. ASSUME NEW c \in Connections, NEW i \in 1..Len(inbox'[c]), inbox'[c][i].kind = "response"
        PROVE  \E u \in Requesters :
                 /\ inbox'[c][i].of = u /\ u \notin owed' /\ sentOn'[u] # None
                 /\ inbox'[c][i].id = id'[u] /\ Expecting(u)'
                 /\ \A d \in Connections : \A j \in 1..Len(inbox'[d]) :
                      inbox'[d][j].kind = "response" /\ inbox'[d][j].of = u => c = d /\ i = j
    <2> DEFINE k == i + n[c]
    <2>1. k \in 1..Len(inbox[c]) /\ inbox'[c][i] = inbox[c][k]
      OBVIOUS
    <2>2. inbox[c][k] \in Letters
      <3> HIDE DEF k
      <3> QED
        BY <2>1 DEF RequestTypeOK
    <2>3. inbox[c][k].of # None
      BY <1>1, <2>1 DEF AnswersAreExpected
    <2>4. PICK u \in Requesters : u = inbox[c][k].of
      BY <2>2, <2>3 DEF Letters
    <2> HIDE DEF k
    <2>5. /\ u \notin owed /\ sentOn[u] # None /\ inbox[c][k].id = id[u] /\ Expecting(u)
          /\ \A d \in Connections : \A j \in 1..Len(inbox[d]) :
               inbox[d][j].kind = "response" /\ inbox[d][j].of = u => c = d /\ k = j
      BY <1>1, <2>1, <2>4 DEF AnswersAreExpected
    <2>6. Coming(u)'
      BY <1>1, <2>1, <2>4 DEF Coming
    <2>7. sentOn'[u] # None /\ id'[u] = id[u] /\ Expecting(u)' /\ u \notin owed'
      BY <2>5, <2>6
    <2>8. ASSUME NEW d \in Connections, NEW j \in 1..Len(inbox'[d]),
                 inbox'[d][j].kind = "response", inbox'[d][j].of = u
          PROVE  c = d /\ i = j
      <3>1. c = d /\ k = j + n[d]
        <4>1. j + n[d] \in 1..Len(inbox[d]) /\ inbox'[d][j] = inbox[d][j + n[d]]
          OBVIOUS
        <4>2. inbox[d][j + n[d]].kind = "response" /\ inbox[d][j + n[d]].of = u
          BY <2>8, <4>1
        <4> QED
          BY <2>5, <4>1, <4>2
      <3>2. n[c] \in Nat /\ i \in Nat /\ j \in Nat
        OBVIOUS
      <3> QED
        BY <3>1, <3>2 DEF k
    <2>9. inbox'[c][i].of = u /\ inbox'[c][i].id = id'[u]
      BY <2>1, <2>4, <2>5, <2>7, Zenon
    <2> QED
      BY <2>7, <2>8, <2>9
  <1>2. \A u \in Requesters : u # None
    BY Apart
  <1>3. \A u \in owed' : sentOn'[u] # None /\ Expecting(u)'
    OBVIOUS
  <1> HIDE DEF Expecting
  <1> QED
    BY <1>1, <1>2, <1>3 DEF AnswersAreExpected

(* The step of a caller touches its own request alone.                     *)
NumbersOK ==
  /\ counter = Cardinality({t \in Requesters : id[t] # None})
  /\ \A t \in Requesters : id[t] <= counter
  /\ \A t, u \in Requesters : id[t] # None /\ id[t] = id[u] => t = u

RequestAdvances(t) ==
  /\ at[t] \in {"idle", "connect lock", "handshake"} => id[t] = None /\ future[t] = "none"
  /\ at[t] = "send lock" => Expecting(t)
  /\ at[t] \in {"send lock", "drain", "response"} /\ future[t] = "open" =>
       id[t] # None /\ pending[id[t]] = t

CallerAdvances(t) ==
  /\ at[t] \in {"idle", "connect lock", "handshake", "send lock"} => sentOn[t] = None
  /\ at[t] \in {"drain", "response"} => sentOn[t] # None

(* What the types say of a request, a number and a connection.             *)
LEMMA RequestTypes ==
  ASSUME RequestTypeOK
  PROVE  /\ \A i \in Ids : pending[i] \in Requesters \cup {None}
         /\ \A u \in Requesters : id[u] \in Ids \cup {None}
         /\ \A u \in owed : u \in Requesters /\ u \in Callers /\ u # None
         /\ \A d \in Connections : inbox[d] \in Seq(Letters)
         /\ counter \in Nat
  BY Apart DEF RequestTypeOK

(* What a step of t may do to the requests.                                *)
OwnStep(t) ==
  /\ \A u \in Callers : u # t => at'[u] = at[u] /\ sentOn'[u] = sentOn[u]
  /\ \A u \in Requesters : u # t =>
       id'[u] = id[u] /\ future'[u] = future[u] /\ (u \in owed' <=> u \in owed)
  /\ \A i \in Ids :
       pending'[i] = pending[i] \/ (pending[i] \in {None, t} /\ pending'[i] \in {None, t})
  /\ inbox' = inbox

(* How its own request then is.                                            *)
OwnRequestAdvances(t) ==
  /\ \A i \in Ids : pending'[i] = t =>
       at'[t] \in {"send lock", "drain", "response"} /\ id'[t] = i
  /\ t \in Requesters =>
       /\ RequestAdvances(t)'
       /\ t \in owed' => sentOn'[t] # None /\ Expecting(t)' /\ (t \notin owed => sentOn[t] = None)
       /\ sentOn[t] # None /\ Expecting(t) => sentOn'[t] # None /\ id'[t] = id[t] /\ Expecting(t)'

LEMMA CallerStep ==
  ASSUME RequestsOK, RequestTypeOK', NumbersOK', NEW t \in Callers,
         OwnStep(t), OwnRequestAdvances(t), CallerAdvances(t)'
  PROVE  RequestsOK'
  <1>1. /\ RequestTypeOK /\ PendingInProgress /\ RequestsAreNumbered /\ RequestsAdvance
        /\ AnswersAreExpected
    BY DEF RequestsOK
  <1>2. ASSUME NEW i \in Ids, pending'[i] # None, pending'[i] # t
        PROVE  pending[i] = pending'[i] /\ pending[i] \in Requesters /\ pending[i] \in Callers
    <2>1. pending[i] = pending'[i]
      BY <1>2 DEF OwnStep
    <2> QED
      BY <1>1, <1>2, <2>1, Apart, RequestTypes
  <1>3. PendingInProgress'
    <2> SUFFICES ASSUME NEW i \in Ids, pending'[i] # None
                 PROVE  at'[pending'[i]] \in {"send lock", "drain", "response"}
      BY DEF PendingInProgress
    <2>1. CASE pending'[i] = t
      BY <2>1 DEF OwnRequestAdvances
    <2>2. CASE pending'[i] # t
      BY <1>1, <1>2, <2>2 DEF PendingInProgress, OwnStep
    <2> QED
      BY <2>1, <2>2
  <1>4. RequestsAreNumbered'
    <2>1. ASSUME NEW i \in Ids, pending'[i] # None
          PROVE  id'[pending'[i]] = i
      <3>1. CASE pending'[i] = t
        BY <3>1 DEF OwnRequestAdvances
      <3>2. CASE pending'[i] # t
        <4>1. pending[i] = pending'[i] /\ pending[i] \in Requesters
          BY <1>2, <2>1, <3>2
        <4>2. id[pending[i]] = i
          BY <1>1, <2>1, <4>1 DEF RequestsAreNumbered
        <4> QED
          BY <3>2, <4>1, <4>2 DEF OwnStep
      <3> QED
        BY <3>1, <3>2
    <2> QED
      BY <2>1 DEF RequestsAreNumbered, NumbersOK
  <1>5. ASSUME NEW u \in Requesters, u # t
        PROVE  /\ at'[u] = at[u] /\ sentOn'[u] = sentOn[u] /\ id'[u] = id[u] /\ future'[u] = future[u]
               /\ (u \in owed' <=> u \in owed)
               /\ id[u] # None => (pending'[id[u]] = u <=> pending[id[u]] = u)
               /\ Expecting(u) <=> Expecting(u)'
    <2>1. /\ at'[u] = at[u] /\ sentOn'[u] = sentOn[u] /\ id'[u] = id[u] /\ future'[u] = future[u]
          /\ (u \in owed' <=> u \in owed)
      BY <1>5, Apart DEF OwnStep
    <2>2. id[u] # None => (pending'[id[u]] = u <=> pending[id[u]] = u)
      <3>1. id[u] # None => id[u] \in Ids
        BY <1>1, RequestTypes
      <3>2. u # None
        BY Apart
      <3> QED
        BY <1>5, <3>1, <3>2 DEF OwnStep
    <2> QED
      BY <2>1, <2>2 DEF Expecting
  <1>6. RequestsAdvance'
    <2>1. ASSUME NEW u \in Requesters
          PROVE  RequestAdvances(u)'
      <3>1. CASE u = t
        BY <3>1 DEF OwnRequestAdvances
      <3>2. CASE u # t
        <4>1. RequestAdvances(u)
          BY <1>1 DEF RequestsAdvance, RequestAdvances
        <4> QED
          BY <1>5, <3>2, <4>1 DEF RequestAdvances
      <3> QED
        BY <3>1, <3>2
    <2>2. ASSUME NEW u \in Callers
          PROVE  CallerAdvances(u)'
      <3>1. CASE u = t
        BY <3>1
      <3>2. CASE u # t
        <4>1. CallerAdvances(u)
          BY <1>1 DEF RequestsAdvance, CallerAdvances
        <4> QED
          BY <3>2, <4>1 DEF CallerAdvances, OwnStep
      <3> QED
        BY <3>1, <3>2
    <2> QED
      BY <2>1, <2>2 DEF RequestsAdvance, RequestAdvances, CallerAdvances
  <1>7. AnswersAreExpected'
    <2>1. PICK n \in [Connections -> Nat] : \A d \in Connections : n[d] = 0
      <3> [d \in Connections |-> 0] \in [Connections -> Nat]
        OBVIOUS
      <3> QED
        OBVIOUS
    <2>2. ASSUME NEW d \in Connections, NEW j \in 1..Len(inbox'[d])
          PROVE  j + n[d] \in 1..Len(inbox[d]) /\ inbox'[d][j] = inbox[d][j + n[d]]
      <3>1. inbox'[d] = inbox[d]
        BY DEF OwnStep
      <3> QED
        BY <2>1, <3>1
    <2>3. ASSUME NEW u \in owed'
          PROVE  sentOn'[u] # None /\ Expecting(u)'
      <3>1. u \in Requesters
        BY DEF RequestTypeOK
      <3>2. CASE u = t
        BY <3>1, <3>2 DEF OwnRequestAdvances
      <3>3. CASE u # t
        <4>1. u \in owed
          BY <1>5, <3>1, <3>3
        <4>2. sentOn[u] # None /\ Expecting(u)
          BY <1>1, <4>1 DEF AnswersAreExpected
        <4> QED
          BY <1>5, <3>1, <3>3, <4>2
      <3> QED
        BY <3>2, <3>3
    <2>4. ASSUME NEW u \in Requesters, sentOn[u] # None, Expecting(u), u \notin owed
          PROVE  sentOn'[u] # None /\ id'[u] = id[u] /\ Expecting(u)' /\ u \notin owed'
      <3>1. CASE u = t
        BY <2>4, <3>1 DEF OwnRequestAdvances
      <3>2. CASE u # t
        BY <1>5, <2>4, <3>2
      <3> QED
        BY <3>1, <3>2
    <2>5. inbox' \in [Connections -> Seq(Letters)]
      BY DEF RequestTypeOK
    <2> QED
      BY <1>1, <2>2, <2>3, <2>4, <2>5, AnswersStay
  <1> QED
    BY <1>1, <1>3, <1>4, <1>6, <1>7 DEF RequestsOK

(* A request takes the next number, which is free and within the bound.    *)
LEMMA NumberTaken ==
  ASSUME RequestsOK, NEW t \in Requesters, id[t] = None,
         counter' = counter + 1, id' = [id EXCEPT ![t] = NextId]
  PROVE  /\ NextId \in Ids /\ pending[NextId] = None
         /\ NumbersOK' /\ counter' \in Ids /\ id' \in [Requesters -> Ids \cup {None}]
  <1>1. RequestTypeOK /\ RequestsAreNumbered
    BY DEF RequestsOK
  <1>2. id \in [Requesters -> Ids \cup {None}] /\ counter \in Nat
    BY <1>1, RequestTypes DEF RequestTypeOK
  <1>3. \A u \in Requesters : id'[u] = IF u = t THEN counter + 1 ELSE id[u]
    BY <1>2 DEF NextId
  <1>4. PICK S \in SUBSET Requesters : S = {u \in Requesters : id[u] # None}
    OBVIOUS
  <1>5. /\ IsFiniteSet(S) /\ counter = Cardinality(S) /\ t \notin S
        /\ IsFiniteSet(Requesters) /\ Cardinality(Requesters) \in Nat
    BY <1>1, <1>4, FS_Subset, FS_CardinalityType DEF RequestsAreNumbered
  <1>6. {u \in Requesters : id'[u] # None} = S \cup {t}
    BY <1>2, <1>3, <1>4 DEF None
  <1>7. Cardinality(S \cup {t}) = counter + 1
    BY <1>5, FS_AddElement
  <1>8. counter + 1 <= Cardinality(Requesters)
    <2>1. S \cup {t} \subseteq Requesters
      OBVIOUS
    <2> QED
      BY <1>5, <1>7, <2>1, FS_Subset
  <1>9. NextId \in Ids
    BY <1>2, <1>5, <1>8 DEF Ids, NextId
  <1>10. id' \in [Requesters -> Ids \cup {None}]
    BY <1>2, <1>9
  <1>11. pending[NextId] = None
    <2> SUFFICES ASSUME pending[NextId] # None
                 PROVE  FALSE
      OBVIOUS
    <2>1. PICK u \in Requesters : u = pending[NextId]
      BY <1>1, <1>9, RequestTypes
    <2>2. id[u] = NextId /\ id[u] <= counter
      BY <1>1, <1>9, <2>1 DEF RequestsAreNumbered
    <2> QED
      BY <1>2, <2>2 DEF NextId
  <1>12. NumbersOK'
    <2>1. counter' = Cardinality({u \in Requesters : id'[u] # None})
      BY <1>6, <1>7
    <2>2. \A u \in Requesters : id[u] \in Int /\ id[u] <= counter
      <3>1. \A u \in Requesters : id[u] \in Int
        BY <1>2 DEF Ids, None
      <3>2. \A u \in Requesters : id[u] <= counter
        BY <1>1 DEF RequestsAreNumbered
      <3> QED
        BY <3>1, <3>2
    <2>3. \A u \in Requesters : id'[u] <= counter'
      BY <1>2, <1>3, <2>2
    <2>4. \A u, v \in Requesters : id'[u] # None /\ id'[u] = id'[v] => u = v
      <3>1. \A u, v \in Requesters : id[u] # None /\ id[u] = id[v] => u = v
        BY <1>1 DEF RequestsAreNumbered
      <3>2. \A u \in Requesters : id[u] # counter + 1
        BY <1>2, <2>2
      <3> QED
        BY <1>3, <3>1, <3>2
    <2> QED
      BY <2>1, <2>3, <2>4 DEF NumbersOK
  <1> QED
    BY <1>9, <1>10, <1>11, <1>12 DEF NextId

(* A request about to be sent: where the table will have it, and its future.*)
ReadyToSend(t, table) ==
  /\ at[t] \in {"idle", "connect lock", "handshake", "send lock"}
  /\ table \in [Ids -> Requesters \cup {None}]
  /\ \A i \in Ids : table[i] = pending[i] \/ (pending[i] \in {None, t} /\ table[i] \in {None, t})
  /\ \A i \in Ids : table[i] = t => id'[t] = i
  /\ counter' \in Ids \cup {0} /\ NumbersOK'
  /\ id' \in [Requesters -> Ids \cup {None}]
  /\ future' \in [Requesters -> {"none", "open", "failed"} \cup Requesters]
  /\ \A u \in Requesters : u # t => id'[u] = id[u] /\ future'[u] = future[u]
  /\ t \in Requesters =>
       /\ id'[t] # None /\ (table[id'[t]] = t => future'[t] = "open")
       /\ future'[t] = "open" => table[id'[t]] = t

(* The number of a request is that of nobody else.                         *)
LEMMA NumberIsOwn ==
  ASSUME RequestsOK, NEW t \in Requesters, NEW table, ReadyToSend(t, table)
  PROVE  id'[t] \in Ids /\ table[id'[t]] \in {None, t}
  <1>1. RequestTypeOK /\ RequestsAreNumbered
    BY DEF RequestsOK
  <1>2. id'[t] \in Ids
    BY DEF ReadyToSend
  <1>3. ASSUME table[id'[t]] \notin {None, t}
        PROVE  FALSE
    <2>1. PICK u \in Requesters : u = pending[id'[t]] /\ u # None /\ u # t
      BY <1>1, <1>2, <1>3, RequestTypes DEF ReadyToSend
    <2>2. id[u] = id'[t]
      BY <1>1, <1>2, <2>1 DEF RequestsAreNumbered
    <2>3. id'[u] = id[u]
      BY <2>1 DEF ReadyToSend
    <2>4. \A v, w \in Requesters : id'[v] # None /\ id'[v] = id'[w] => v = w
      <3>1. NumbersOK'
        BY DEF ReadyToSend
      <3> QED
        BY <3>1 DEF NumbersOK
    <2>5. id'[t] # None
      BY DEF ReadyToSend
    <2> QED
      BY <2>1, <2>2, <2>3, <2>4, <2>5
  <1> QED
    BY <1>2, <1>3

LEMMA TransmitStep ==
  ASSUME RequestsOK, NEW t \in Callers, NEW table, NEW waiting, ReadyToSend(t, table),
         websocket' \in Connections \cup {None}, inbox' = inbox, Transmit(t, table, waiting)
  PROVE  RequestsOK'
  <1>1. RequestTypeOK /\ RequestsAdvance /\ AnswersAreExpected
    BY DEF RequestsOK
  <1>2. sentOn[t] = None /\ t \notin owed
    <2>1. sentOn[t] = None
      BY <1>1 DEF ReadyToSend, RequestsAdvance
    <2> QED
      BY <1>1, <2>1 DEF AnswersAreExpected
  <1>3. /\ at \in [Callers -> Places] /\ sentOn \in [Callers -> Connections \cup {None}]
        /\ owed \subseteq Requesters /\ inbox' \in [Connections -> Seq(Letters)]
    BY <1>1 DEF RequestTypeOK
  <1>4. t \in Requesters => id'[t] \in Ids /\ table[id'[t]] \in {None, t}
    BY NumberIsOwn
  <1>5. ASSUME ~WorksNext, at' = [at EXCEPT ![t] = "failed"], pending' = Without(table, t),
               UNCHANGED <<sentOn, owed>>
        PROVE  RequestsOK'
    <2>1. pending' \in [Ids -> Requesters \cup {None}]
      BY <1>4, <1>5 DEF ReadyToSend, Without
    <2>2. \A i \in Ids : pending'[i] = table[i] \/ (table[i] \in {None, t} /\ pending'[i] = None)
      BY <1>4, <1>5 DEF ReadyToSend, Without
    <2>3. \A i \in Ids : pending'[i] # t
      <3>1. CASE t \in Requesters
        <4>1. \A i \in Ids : pending'[i] = IF i = id'[t] THEN None ELSE table[i]
          BY <1>5, <3>1 DEF Without, ReadyToSend
        <4>2. t # None
          BY Apart
        <4> QED
          BY <4>1, <4>2 DEF ReadyToSend
      <3>2. CASE t \notin Requesters
        BY <2>1, <3>2, Apart
      <3> QED
        BY <3>1, <3>2
    <2>4. at'[t] = "failed" /\ \A u \in Callers : u # t => at'[u] = at[u]
      BY <1>3, <1>5
    <2>5. RequestTypeOK'
      <3>1. at' \in [Callers -> Places]
        BY <1>3, <1>5 DEF Places
      <3> QED
        BY <1>3, <1>5, <2>1, <3>1 DEF RequestTypeOK, ReadyToSend
    <2>6. OwnStep(t)
      <3>1. \A i \in Ids : pending'[i] = pending[i] \/ (pending[i] \in {None, t} /\ pending'[i] \in {None, t})
        BY <2>2 DEF ReadyToSend
      <3> QED
        BY <1>5, <2>4, <3>1 DEF OwnStep, ReadyToSend
    <2>7. OwnRequestAdvances(t)
      BY <1>2, <1>5, <2>3, <2>4 DEF OwnRequestAdvances, RequestAdvances
    <2>8. CallerAdvances(t)'
      BY <2>4 DEF CallerAdvances
    <2>9. NumbersOK'
      BY DEF ReadyToSend
    <2> QED
      BY <2>5, <2>6, <2>7, <2>8, <2>9, CallerStep
  <1>6. ASSUME WorksNext, sentOn' = [sentOn EXCEPT ![t] = websocket'],
               owed' = owed \cup ({t} \cap Requesters), pending' = table,
               NEW place \in {SentAlready(t), "drain"}, at' = [at EXCEPT ![t] = place]
        PROVE  RequestsOK'
    <2>1. /\ at'[t] \in {"drain", "response", "done"} /\ (t \in Requesters => at'[t] # "done")
          /\ \A u \in Callers : u # t => at'[u] = at[u]
          /\ at' \in [Callers -> Places]
      BY <1>3, <1>6 DEF SentAlready, Places
    <2>2. /\ sentOn'[t] # None /\ \A u \in Callers : u # t => sentOn'[u] = sentOn[u]
          /\ sentOn' \in [Callers -> Connections \cup {None}]
      BY <1>3, <1>6 DEF WorksNext
    <2>3. owed' \subseteq Requesters /\ \A u \in Requesters : u # t => (u \in owed' <=> u \in owed)
      BY <1>3, <1>6
    <2>4. RequestTypeOK'
      BY <1>3, <1>6, <2>1, <2>2, <2>3 DEF RequestTypeOK, ReadyToSend
    <2>5. OwnStep(t)
      BY <1>6, <2>1, <2>2, <2>3 DEF OwnStep, ReadyToSend
    <2>6. t \in Requesters => Expecting(t)' /\ RequestAdvances(t)'
      BY <1>6, <2>1 DEF Expecting, RequestAdvances, ReadyToSend
    <2>7. \A i \in Ids : pending'[i] = t => t \in Requesters /\ id'[t] = i
      <3>1. \A i \in Ids : pending'[i] = table[i] /\ table[i] \in Requesters \cup {None}
        BY <1>6 DEF ReadyToSend
      <3>2. t # None
        BY Apart
      <3> QED
        BY <3>1, <3>2 DEF ReadyToSend
    <2>8. OwnRequestAdvances(t)
      BY <1>2, <2>1, <2>2, <2>6, <2>7 DEF OwnRequestAdvances
    <2>9. CallerAdvances(t)'
      BY <2>1, <2>2 DEF CallerAdvances
    <2>10. NumbersOK'
      BY DEF ReadyToSend
    <2> QED
      BY <2>4, <2>5, <2>8, <2>9, <2>10, CallerStep
  <1> QED
    BY <1>5, <1>6 DEF Transmit

(* After connect(), the request is numbered and is sent or awaits its turn. *)
LEMMA NumbersStay ==
  ASSUME RequestsOK, UNCHANGED <<counter, id>>
  PROVE  NumbersOK'
  BY DEF RequestsOK, RequestsAreNumbered, NumbersOK

LEMMA SendReady ==
  ASSUME RequestsOK, NEW t \in Callers, at[t] \in {"idle", "connect lock", "handshake"},
         Send(t), NEW table,
         table = IF t \in Requesters THEN [pending EXCEPT ![NextId] = t] ELSE pending
  PROVE  ReadyToSend(t, table)
  <1>1. RequestTypeOK /\ RequestsAreNumbered /\ RequestsAdvance
    BY DEF RequestsOK
  <1>2. /\ pending \in [Ids -> Requesters \cup {None}] /\ counter \in Ids \cup {0}
        /\ id \in [Requesters -> Ids \cup {None}]
        /\ future \in [Requesters -> {"none", "open", "failed"} \cup Requesters]
    BY <1>1 DEF RequestTypeOK
  <1>3. CASE t \in Requesters
    <2>1. /\ counter' = counter + 1 /\ id' = [id EXCEPT ![t] = NextId]
          /\ future' = [future EXCEPT ![t] = "open"]
      BY <1>3 DEF Send
    <2>2. id[t] = None
      BY <1>1, <1>3 DEF RequestsAdvance
    <2>3. /\ NextId \in Ids /\ pending[NextId] = None
          /\ NumbersOK' /\ counter' \in Ids /\ id' \in [Requesters -> Ids \cup {None}]
      BY <1>3, <2>1, <2>2, NumberTaken
    <2>4. /\ table = [pending EXCEPT ![NextId] = t] /\ table \in [Ids -> Requesters \cup {None}]
          /\ table[NextId] = t /\ \A i \in Ids : i # NextId => table[i] = pending[i]
      BY <1>2, <1>3, <2>3
    <2>5. /\ id'[t] = NextId /\ future'[t] = "open"
          /\ \A u \in Requesters : u # t => id'[u] = id[u] /\ future'[u] = future[u]
          /\ future' \in [Requesters -> {"none", "open", "failed"} \cup Requesters]
      BY <1>2, <1>3, <2>1
    <2>6. \A i \in Ids : pending[i] # t
      <3>1. \A i \in Ids : pending[i] # None => id[pending[i]] = i
        BY <1>1 DEF RequestsAreNumbered
      <3>2. t # None /\ None \notin Ids
        BY <1>3, Apart
      <3> QED
        BY <2>2, <3>1, <3>2
    <2>7. \A i \in Ids : table[i] = t => id'[t] = i
      BY <2>4, <2>5, <2>6
    <2>8. id'[t] # None
      BY <2>3, <2>5, Apart
    <2> HIDE DEF NextId
    <2> QED
      BY <1>3, <2>3, <2>4, <2>5, <2>7, <2>8 DEF ReadyToSend
  <1>4. CASE t \notin Requesters
    <2>1. table = pending /\ UNCHANGED <<counter, id, future>>
      BY <1>4 DEF Send
    <2>2. NumbersOK'
      BY <2>1, NumbersStay
    <2>3. \A i \in Ids : table[i] # t
      <3>1. \A i \in Ids : pending[i] \in Requesters \/ pending[i] = None
        BY <1>2
      <3>2. t # None
        BY Apart, Zenon
      <3> QED
        BY <1>4, <2>1, <3>1, <3>2, Zenon
    <2> QED
      BY <1>2, <1>4, <2>1, <2>2, <2>3 DEF ReadyToSend
  <1> QED
    BY <1>3, <1>4

LEMMA SendStep ==
  ASSUME RequestsOK, NEW t \in Callers, at[t] \in {"idle", "connect lock", "handshake"},
         websocket' \in Connections \cup {None}, inbox' = inbox, Send(t)
  PROVE  RequestsOK'
  <1>1. PICK table : table = IF t \in Requesters THEN [pending EXCEPT ![NextId] = t] ELSE pending
    OBVIOUS
  <1>2. ReadyToSend(t, table)
    BY <1>1, SendReady
  <1>3. CASE Transmit(t, table, <<>>)
    BY <1>2, <1>3, TransmitStep
  <1>4. ASSUME at' = [at EXCEPT ![t] = "send lock"], pending' = table, UNCHANGED <<sentOn, owed>>
        PROVE  RequestsOK'
    <2>1. RequestTypeOK /\ RequestsAdvance /\ AnswersAreExpected
      BY DEF RequestsOK
    <2>2. sentOn[t] = None
      BY <2>1 DEF RequestsAdvance
    <2>3. t \notin owed
      BY <2>1, <2>2 DEF AnswersAreExpected
    <2>4. /\ at'[t] = "send lock" /\ \A u \in Callers : u # t => at'[u] = at[u]
          /\ at' \in [Callers -> Places]
      BY <1>4, <2>1 DEF RequestTypeOK, Places
    <2>5. RequestTypeOK'
      <3>1. /\ sentOn' \in [Callers -> Connections \cup {None}] /\ owed' \subseteq Requesters
            /\ inbox' \in [Connections -> Seq(Letters)]
        BY <1>4, <2>1 DEF RequestTypeOK
      <3> QED
        BY <1>2, <1>4, <2>4, <3>1 DEF RequestTypeOK, ReadyToSend
    <2>6. OwnStep(t)
      BY <1>2, <1>4, <2>4 DEF OwnStep, ReadyToSend
    <2>7. t \in Requesters => Expecting(t)' /\ RequestAdvances(t)'
      BY <1>2, <1>4, <2>4 DEF Expecting, RequestAdvances, ReadyToSend
    <2>8. OwnRequestAdvances(t)
      BY <1>2, <1>4, <2>2, <2>3, <2>4, <2>7 DEF OwnRequestAdvances, ReadyToSend
    <2>9. CallerAdvances(t)'
      BY <1>4, <2>2, <2>4 DEF CallerAdvances
    <2>10. NumbersOK'
      BY <1>2 DEF ReadyToSend
    <2> QED
      BY <2>5, <2>6, <2>8, <2>9, <2>10, CallerStep
  <1> QED
    BY <1>1, <1>3, <1>4 DEF Send

(* A caller moves on before its request has a number.                      *)
LEMMA MoveStep ==
  ASSUME RequestsOK, NEW t \in Callers, at[t] \in {"idle", "connect lock", "handshake"},
         NEW place \in {"connect lock", "handshake", "failed"}, at' = [at EXCEPT ![t] = place],
         UNCHANGED <<tableVars, sentOn, owed, inbox>>
  PROVE  RequestsOK'
  <1>1. RequestTypeOK /\ RequestsAreNumbered /\ RequestsAdvance /\ AnswersAreExpected
    BY DEF RequestsOK
  <1>2. /\ pending' = pending /\ counter' = counter /\ id' = id /\ future' = future
        /\ sentOn' = sentOn /\ owed' = owed /\ inbox' = inbox
    BY DEF tableVars
  <1>3. /\ at'[t] = place /\ \A u \in Callers : u # t => at'[u] = at[u]
        /\ at' \in [Callers -> Places]
    BY <1>1 DEF RequestTypeOK, Places
  <1>4. /\ sentOn[t] = None
        /\ t \in Requesters => id[t] = None /\ future[t] = "none"
    BY <1>1 DEF RequestsAdvance
  <1>5. t \notin owed
    BY <1>1, <1>4 DEF AnswersAreExpected
  <1>6. RequestTypeOK'
    BY <1>1, <1>2, <1>3 DEF RequestTypeOK
  <1>7. NumbersOK'
    BY <1>2, NumbersStay
  <1>8. OwnStep(t)
    BY <1>2, <1>3 DEF OwnStep
  <1>9. OwnRequestAdvances(t)
    <2>1. \A i \in Ids : pending[i] # t
      <3>1. \A i \in Ids : pending[i] \in Requesters \cup {None} /\ i # None /\ t # None
        BY <1>1, Apart, RequestTypes
      <3>2. \A i \in Ids : pending[i] # None => id[pending[i]] = i
        BY <1>1 DEF RequestsAreNumbered
      <3> QED
        BY <1>4, <3>1, <3>2
    <2> QED
      BY <1>2, <1>3, <1>4, <1>5, <2>1 DEF OwnRequestAdvances, RequestAdvances
  <1>10. CallerAdvances(t)'
    BY <1>2, <1>3, <1>4 DEF CallerAdvances
  <1> QED
    BY <1>6, <1>7, <1>8, <1>9, <1>10, CallerStep

(* A caller leaves: its request is no longer registered.                   *)
LEMMA LeaveStep ==
  ASSUME RequestsOK, NEW t \in Callers, at[t] \in {"drain", "response"},
         NEW place \in {"failed", "done"}, at' = [at EXCEPT ![t] = place],
         pending' = Without(pending, t), UNCHANGED <<counter, id, future, sentOn, owed, inbox>>
  PROVE  RequestsOK'
  <1>1. RequestTypeOK /\ RequestsAreNumbered /\ RequestsAdvance /\ AnswersAreExpected
    BY DEF RequestsOK
  <1>2. /\ at'[t] = place /\ \A u \in Callers : u # t => at'[u] = at[u]
        /\ at' \in [Callers -> Places]
    BY <1>1 DEF RequestTypeOK, Places
  <1>3. /\ pending \in [Ids -> Requesters \cup {None}] /\ id \in [Requesters -> Ids \cup {None}]
    BY <1>1 DEF RequestTypeOK
  <1>4. \A i \in Ids : pending[i] # None => id[pending[i]] = i
    BY <1>1 DEF RequestsAreNumbered
  <1>5. \A u, v \in Requesters : id[u] # None /\ id[u] = id[v] => u = v
    BY <1>1 DEF RequestsAreNumbered
  <1>6. /\ pending' \in [Ids -> Requesters \cup {None}]
        /\ \A i \in Ids : pending'[i] = pending[i] \/ (pending[i] = t /\ pending'[i] = None)
        /\ \A i \in Ids : pending'[i] # t
    <2>1. CASE t \in Requesters
      <3>1. \A i \in Ids : pending'[i] = IF i = id[t] THEN None ELSE pending[i]
        BY <1>3, <2>1 DEF Without
      <3>2. pending' \in [Ids -> Requesters \cup {None}]
        BY <1>3, <2>1 DEF Without
      <3>3. \A i \in Ids : pending[i] # None /\ i = id[t] => pending[i] = t
        BY <1>3, <1>4, <1>5, <2>1, Apart
      <3>4. \A i \in Ids : pending[i] = t => i = id[t]
        BY <1>4, <2>1, Apart
      <3>5. t # None
        BY Apart
      <3> QED
        BY <3>1, <3>2, <3>3, <3>4, <3>5
    <2>2. CASE t \notin Requesters
      BY <1>3, <2>2, Apart DEF Without
    <2> QED
      BY <2>1, <2>2
  <1>7. RequestTypeOK'
    BY <1>1, <1>2, <1>6 DEF RequestTypeOK
  <1>8. NumbersOK'
    BY NumbersStay
  <1>9. OwnStep(t)
    BY <1>2, <1>6 DEF OwnStep
  <1>10. OwnRequestAdvances(t)
    <2>1. t \in Requesters /\ id[t] # None => pending'[id[t]] # t
      BY <1>3, <1>6
    <2>2. t \in Requesters /\ Expecting(t) => Expecting(t)'
      BY <2>1 DEF Expecting
    <2>3. t \in owed => sentOn[t] # None /\ Expecting(t)
      BY <1>1 DEF AnswersAreExpected
    <2>4. t \in Requesters => RequestAdvances(t)'
      BY <1>2 DEF RequestAdvances
    <2> QED
      BY <1>2, <1>6, <2>2, <2>3, <2>4 DEF OwnRequestAdvances
  <1>11. CallerAdvances(t)'
    BY <1>2 DEF CallerAdvances
  <1> QED
    BY <1>7, <1>8, <1>9, <1>10, <1>11, CallerStep

(* A caller's send ends well.                                              *)
LEMMA SentStep ==
  ASSUME RequestsOK, NEW t \in Callers, at[t] = "drain", at' = [at EXCEPT ![t] = SentAlready(t)],
         UNCHANGED <<tableVars, sentOn, owed, inbox>>
  PROVE  RequestsOK'
  <1>1. RequestTypeOK /\ RequestsAreNumbered /\ RequestsAdvance /\ AnswersAreExpected
    BY DEF RequestsOK
  <1>2. /\ pending' = pending /\ counter' = counter /\ id' = id /\ future' = future
        /\ sentOn' = sentOn /\ owed' = owed /\ inbox' = inbox
    BY DEF tableVars
  <1>3. /\ at'[t] = SentAlready(t) /\ \A u \in Callers : u # t => at'[u] = at[u]
        /\ at' \in [Callers -> Places]
    BY <1>1 DEF RequestTypeOK, Places, SentAlready
  <1>4. sentOn[t] # None
    BY <1>1 DEF RequestsAdvance
  <1>5. RequestTypeOK'
    BY <1>1, <1>2, <1>3 DEF RequestTypeOK
  <1>6. NumbersOK'
    BY <1>2, NumbersStay
  <1>7. OwnStep(t)
    BY <1>2, <1>3 DEF OwnStep
  <1>8. OwnRequestAdvances(t)
    <2>1. \A i \in Ids : pending'[i] = t => t \in Requesters /\ id'[t] = i
      <3>1. \A i \in Ids : pending[i] # None => id[pending[i]] = i
        BY <1>1 DEF RequestsAreNumbered
      <3>2. \A i \in Ids : pending[i] \in Requesters \cup {None} /\ t # None
        BY <1>1, Apart, RequestTypes
      <3> QED
        BY <1>2, <3>1, <3>2
    <2>2. t \in Requesters => at'[t] = "response"
      BY <1>3 DEF SentAlready
    <2>3. t \in Requesters /\ Expecting(t) => Expecting(t)'
      BY <1>2 DEF Expecting
    <2>4. t \in owed => sentOn[t] # None /\ Expecting(t)
      BY <1>1 DEF AnswersAreExpected
    <2>5. t \in Requesters => RequestAdvances(t)'
      BY <1>1, <1>2, <2>2 DEF RequestsAdvance, RequestAdvances
    <2> QED
      BY <1>2, <2>1, <2>2, <2>3, <2>4, <2>5 DEF OwnRequestAdvances
  <1>9. CallerAdvances(t)'
    BY <1>2, <1>3, <1>4 DEF CallerAdvances, SentAlready
  <1> QED
    BY <1>5, <1>6, <1>7, <1>8, <1>9, CallerStep

(* What the types say of connections; they are numbered up to Made.        *)
LEMMA MadeSoFar ==
  ASSUME ConnectionsAreNumbered
  PROVE  /\ Made \in 0..MaxConnections
         /\ \A c \in Connections : conn[c] # "none" <=> c <= Made
  <1>1. PICK n \in 0..MaxConnections : \A c \in Connections : conn[c] # "none" <=> c <= n
    BY DEF ConnectionsAreNumbered
  <1>2. {c \in Connections : conn[c] # "none"} = 1..n
    BY <1>1 DEF Connections
  <1>3. Cardinality(1..n) = n
    BY FS_Interval
  <1> QED
    BY <1>1, <1>2, <1>3 DEF Made

LEMMA NewConnection ==
  ASSUME ConnectionsAreNumbered, Made < MaxConnections
  PROVE  Made + 1 \in Connections /\ conn[Made + 1] = "none"
  <1>1. Made \in Nat /\ MaxConnections \in Nat
    BY MadeSoFar
  <1>2. Made + 1 \in Connections
    BY <1>1 DEF Connections
  <1> QED
    BY <1>1, <1>2, MadeSoFar

(* Steps of callers, and the requests.                                     *)
LEMMA ConnectKeepsRequests ==
  ASSUME NEW t \in Callers, NEW waiting, Connect(t, waiting), RequestsOK,
         websocket \in Connections \cup {None}, at[t] \in {"idle", "connect lock", "handshake"}
  PROVE  RequestsOK'
  <1>1. CASE websocket # None /\ Send(t)
    BY <1>1, SendStep DEF Connect
  <1>2. CASE at' = [at EXCEPT ![t] = "handshake"] /\ UNCHANGED <<tableVars, sendQueue, sentOn, owed>>
    BY <1>2, MoveStep DEF Connect
  <1> QED
    BY <1>1, <1>2 DEF Connect

LEMMA CallersKeepRequests ==
  ASSUME RequestsOK, ConnectionTypeOK, ConnectionsAreNumbered, NEW t \in Callers,
         Call(t) \/ CallerSteps(t)
  PROVE  RequestsOK'
  <1>1. websocket \in Connections \cup {None}
    BY DEF ConnectionTypeOK
  <1>2. CASE Call(t)
    <2>1. CASE Connect(t, <<>>)
      <3>1. at[t] \in {"idle", "connect lock", "handshake"}
        BY <1>2 DEF Call
      <3> QED
        BY <1>1, <2>1, <3>1, ConnectKeepsRequests
    <2>2. CASE at' = [at EXCEPT ![t] = "connect lock"] /\ UNCHANGED <<tableVars, sentOn, codexVars>>
      BY <1>2, <2>2, MoveStep DEF Call, codexVars
    <2> QED
      BY <1>2, <2>1, <2>2 DEF Call
  <1>3. CASE GetConnectLock(t)
    <2>1. PICK waiting : waiting = Tail(connectQueue)
      OBVIOUS
    <2>2. at[t] \in {"idle", "connect lock", "handshake"} /\ Connect(t, waiting)
      BY <1>3, <2>1 DEF GetConnectLock
    <2> QED
      BY <1>1, <2>2, ConnectKeepsRequests
  <1>4. CASE HandshakeSucceeds(t)
    <2>1. websocket' \in Connections
      BY <1>4, NewConnection DEF HandshakeSucceeds
    <2> QED
      BY <1>4, <2>1, SendStep DEF HandshakeSucceeds
  <1>5. CASE HandshakeFails(t)
    BY <1>5, MoveStep DEF HandshakeFails, codexVars
  <1>6. CASE GetSendLock(t)
    <2>1. /\ at[t] = "send lock" /\ UNCHANGED <<counter, id, future>> /\ inbox' = inbox
          /\ websocket' = websocket
      BY <1>6 DEF GetSendLock
    <2>2. PICK table : table = pending
      OBVIOUS
    <2>3. RequestTypeOK /\ RequestsAreNumbered /\ RequestsAdvance
      BY DEF RequestsOK
    <2>4. \A i \in Ids : table[i] = t => id[t] = i
      <3>1. \A i \in Ids : pending[i] # None => id[pending[i]] = i
        BY <2>3 DEF RequestsAreNumbered
      <3> QED
        BY <2>2, <3>1, Apart
    <2>5. t \in Requesters =>
            /\ id[t] # None /\ (table[id[t]] = t => future[t] = "open")
            /\ future[t] = "open" => table[id[t]] = t
      BY <2>1, <2>2, <2>3 DEF RequestsAdvance, Expecting
    <2>6. NumbersOK'
      BY <2>1, NumbersStay
    <2>7. ReadyToSend(t, table)
      BY <2>1, <2>2, <2>3, <2>4, <2>5, <2>6 DEF ReadyToSend, RequestTypeOK
    <2>8. PICK waiting : waiting = Tail(sendQueue)
      OBVIOUS
    <2>9. Transmit(t, table, waiting)
      BY <1>6, <2>2, <2>8 DEF GetSendLock
    <2> QED
      BY <1>1, <2>1, <2>7, <2>9, TransmitStep
  <1>7. CASE Drained(t)
    <2>1. CASE at' = [at EXCEPT ![t] = SentAlready(t)] /\ UNCHANGED pending
      BY <1>7, <2>1, SentStep DEF Drained, tableVars, codexVars
    <2>2. CASE at' = [at EXCEPT ![t] = "failed"] /\ pending' = Without(pending, t)
      BY <1>7, <2>2, LeaveStep DEF Drained, codexVars
    <2> QED
      BY <1>7, <2>1, <2>2 DEF Drained
  <1>8. CASE Return(t)
    BY <1>8, LeaveStep DEF Return, codexVars
  <1> QED
    BY <1>2, <1>3, <1>4, <1>5, <1>6, <1>7, <1>8 DEF CallerSteps

(* Reading takes messages from the front: those that are left move up.     *)
Shifted(n) ==
  \A d \in Connections : \A j \in 1..Len(inbox'[d]) :
    j + n[d] \in 1..Len(inbox[d]) /\ inbox'[d][j] = inbox[d][j + n[d]]

LEMMA NothingRead ==
  ASSUME RequestTypeOK, UNCHANGED inbox
  PROVE  /\ inbox' \in [Connections -> Seq(Letters)]
         /\ \E n \in [Connections -> Nat] : Shifted(n)
  <1>1. PICK n \in [Connections -> Nat] : \A d \in Connections : n[d] = 0
    <2> [d \in Connections |-> 0] \in [Connections -> Nat]
      OBVIOUS
    <2> QED
      OBVIOUS
  <1>2. Shifted(n)
    BY <1>1 DEF Shifted
  <1> QED
    BY <1>2 DEF RequestTypeOK

LEMMA OneRead ==
  ASSUME RequestTypeOK, NEW c \in Connections, inbox[c] # <<>>,
         inbox' = [inbox EXCEPT ![c] = Tail(@)]
  PROVE  /\ inbox' \in [Connections -> Seq(Letters)]
         /\ Head(inbox[c]) = inbox[c][1] /\ 1 \in 1..Len(inbox[c]) /\ Head(inbox[c]) \in Letters
         /\ \E n \in [Connections -> Nat] : Shifted(n) /\ n[c] = 1
  <1>1. inbox \in [Connections -> Seq(Letters)]
    BY DEF RequestTypeOK
  <1>2. PICK n \in [Connections -> Nat] : \A d \in Connections : n[d] = IF d = c THEN 1 ELSE 0
    <2> [d \in Connections |-> IF d = c THEN 1 ELSE 0] \in [Connections -> Nat]
      OBVIOUS
    <2> QED
      OBVIOUS
  <1>3. inbox[c] \in Seq(Letters) /\ Tail(inbox[c]) \in Seq(Letters)
    BY <1>1
  <1>4. inbox' \in [Connections -> Seq(Letters)]
    BY <1>1, <1>3
  <1>5. inbox'[c] = Tail(inbox[c]) /\ \A d \in Connections : d # c => inbox'[d] = inbox[d]
    BY <1>1
  <1>6. /\ Head(inbox[c]) = inbox[c][1] /\ 1 \in 1..Len(inbox[c]) /\ Head(inbox[c]) \in Letters
        /\ \A j \in 1..Len(Tail(inbox[c])) :
             j + 1 \in 1..Len(inbox[c]) /\ Tail(inbox[c])[j] = inbox[c][j + 1]
    BY <1>3
  <1>7. ASSUME NEW d \in Connections, NEW j \in 1..Len(inbox'[d])
        PROVE  j + n[d] \in 1..Len(inbox[d]) /\ inbox'[d][j] = inbox[d][j + n[d]]
    <2>1. CASE d = c
      BY <1>2, <1>5, <1>6, <2>1
    <2>2. CASE d # c
      BY <1>2, <1>5, <2>2
    <2> QED
      BY <2>1, <2>2
  <1> QED
    BY <1>2, <1>4, <1>6, <1>7 DEF Shifted

(* A message arrives: an answer, if it is one, that nobody has yet.        *)
LEMMA OneWritten ==
  ASSUME RequestTypeOK, AnswersAreExpected, NEW c \in Connections, NEW m \in Letters,
         Deliver(c, m), UNCHANGED <<id, pending, future, sentOn>>, owed' \subseteq owed,
         m.kind = "response" => m.of \in owed /\ m.of \notin owed' /\ m.id = id[m.of]
  PROVE  inbox' \in [Connections -> Seq(Letters)] /\ AnswersAreExpected'
  <1>1. inbox \in [Connections -> Seq(Letters)] /\ inbox' = [inbox EXCEPT ![c] = Append(@, m)]
    BY DEF RequestTypeOK, Deliver
  <1>2. inbox' \in [Connections -> Seq(Letters)]
    BY <1>1
  <1>3. \A u \in Requesters : Expecting(u) <=> Expecting(u)'
    BY DEF Expecting
  <1>4. ASSUME NEW d \in Connections, NEW j \in 1..Len(inbox'[d])
        PROVE  \/ j \in 1..Len(inbox[d]) /\ inbox'[d][j] = inbox[d][j]
               \/ d = c /\ j = Len(inbox[d]) + 1 /\ inbox'[d][j] = m
    <2>1. CASE d = c
      <3>1. inbox'[d] = Append(inbox[d], m) /\ inbox[d] \in Seq(Letters)
        BY <1>1, <2>1
      <3> QED
        BY <2>1, <3>1
    <2>2. CASE d # c
      BY <1>1, <2>2
    <2> QED
      BY <2>1, <2>2
  <1>5. \A u \in owed : u \in Requesters /\ u # None /\ sentOn[u] # None /\ Expecting(u)
    BY RequestTypes DEF AnswersAreExpected
  <1>6. ASSUME NEW d \in Connections, NEW j \in 1..Len(inbox[d]), inbox[d][j].kind = "response"
        PROVE  /\ inbox[d][j].of \in Requesters
               /\ inbox[d][j].of # None /\ inbox[d][j].of \notin owed /\ sentOn[inbox[d][j].of] # None
               /\ inbox[d][j].id = id[inbox[d][j].of] /\ Expecting(inbox[d][j].of)
    <2>1. inbox[d][j] \in Letters
      BY <1>1
    <2>2. inbox[d][j].of \in Requesters \cup {None}
      BY <2>1 DEF Letters
    <2> QED
      BY <1>6, <2>2 DEF AnswersAreExpected
  <1>7. ASSUME NEW d \in Connections, NEW j \in 1..Len(inbox'[d]), inbox'[d][j].kind = "response"
        PROVE  \E u \in Requesters :
                 /\ inbox'[d][j].of = u /\ u \notin owed' /\ sentOn'[u] # None
                 /\ inbox'[d][j].id = id'[u] /\ Expecting(u)'
    <2>1. CASE j \in 1..Len(inbox[d]) /\ inbox'[d][j] = inbox[d][j]
      <3>1. PICK u \in Requesters :
              /\ inbox[d][j].of = u /\ u \notin owed /\ sentOn[u] # None
              /\ inbox[d][j].id = id[u] /\ Expecting(u)
        BY <1>6, <1>7, <2>1
      <3> QED
        BY <1>3, <2>1, <3>1
    <2>2. CASE inbox'[d][j] = m
      <3>1. PICK u \in Requesters : m.of = u /\ u \in owed /\ u \notin owed' /\ m.id = id[u]
        BY <1>5, <1>7, <2>2
      <3> QED
        BY <1>3, <1>5, <2>2, <3>1
    <2> QED
      BY <1>4, <2>1, <2>2
  <1>8. ASSUME NEW d \in Connections, NEW j \in 1..Len(inbox'[d]), inbox'[d][j].kind = "response",
               NEW e \in Connections, NEW k \in 1..Len(inbox'[e]), inbox'[e][k].kind = "response",
               inbox'[e][k].of = inbox'[d][j].of
        PROVE  d = e /\ j = k
    <2>1. CASE /\ j \in 1..Len(inbox[d]) /\ inbox'[d][j] = inbox[d][j]
               /\ k \in 1..Len(inbox[e]) /\ inbox'[e][k] = inbox[e][k]
      BY <1>8, <2>1 DEF AnswersAreExpected
    <2>2. CASE /\ d = c /\ j = Len(inbox[d]) + 1 /\ inbox'[d][j] = m
               /\ k \in 1..Len(inbox[e]) /\ inbox'[e][k] = inbox[e][k]
      BY <1>6, <1>8, <2>2
    <2>3. CASE /\ e = c /\ k = Len(inbox[e]) + 1 /\ inbox'[e][k] = m
               /\ j \in 1..Len(inbox[d]) /\ inbox'[d][j] = inbox[d][j]
      BY <1>6, <1>8, <2>3
    <2>4. CASE d = c /\ j = Len(inbox[d]) + 1 /\ e = c /\ k = Len(inbox[e]) + 1
      BY <2>4
    <2> QED
      BY <1>4, <2>1, <2>2, <2>3, <2>4
  <1>9. \A u \in owed' : sentOn'[u] # None /\ Expecting(u)'
    BY <1>3, <1>5
  <1>10. ASSUME NEW d \in Connections, NEW j \in 1..Len(inbox'[d]), inbox'[d][j].kind = "response"
         PROVE  \E u \in Requesters :
                  /\ inbox'[d][j].of = u /\ u \notin owed' /\ sentOn'[u] # None
                  /\ inbox'[d][j].id = id'[u] /\ Expecting(u)'
                  /\ \A e \in Connections : \A k \in 1..Len(inbox'[e]) :
                       inbox'[e][k].kind = "response" /\ inbox'[e][k].of = u => d = e /\ j = k
    BY <1>7, <1>8, <1>10
  <1>11. \A u \in Requesters : u # None
    BY Apart
  <1> QED
    BY <1>2, <1>9, <1>10, <1>11 DEF AnswersAreExpected, Expecting

(* Steps of others leave the places and numbers of requests alone.         *)
LEMMA RequestsElsewhere ==
  ASSUME RequestsOK, RequestTypeOK', AnswersAreExpected', UNCHANGED <<counter, id, at, sentOn>>,
         \A i \in Ids : pending'[i] \in {pending[i], None},
         \A u \in Requesters : future[u] = "none" => future'[u] = "none",
         \A u \in Requesters : at[u] = "send lock" => Expecting(u)',
         \A u \in Requesters : at[u] \in {"send lock", "drain", "response"} /\ future'[u] = "open" =>
           future[u] = "open" /\ pending'[id[u]] = u
  PROVE  RequestsOK'
  <1>1. RequestTypeOK /\ PendingInProgress /\ RequestsAreNumbered /\ RequestsAdvance
    BY DEF RequestsOK
  <1>2. PendingInProgress'
    BY <1>1 DEF PendingInProgress
  <1>3. RequestsAreNumbered'
    <2>1. NumbersOK'
      BY NumbersStay
    <2>2. \A i \in Ids : pending'[i] # None => id'[pending'[i]] = i
      BY <1>1 DEF RequestsAreNumbered
    <2> QED
      BY <2>1, <2>2 DEF RequestsAreNumbered, NumbersOK
  <1>4. RequestsAdvance'
    <2>1. ASSUME NEW u \in Requesters
          PROVE  RequestAdvances(u)'
      <3>1. RequestAdvances(u)
        BY <1>1 DEF RequestsAdvance, RequestAdvances
      <3> QED
        BY <3>1 DEF RequestAdvances
    <2>2. ASSUME NEW u \in Callers
          PROVE  CallerAdvances(u)'
      BY <1>1 DEF RequestsAdvance, CallerAdvances
    <2> QED
      BY <2>1, <2>2 DEF RequestsAdvance, RequestAdvances, CallerAdvances
  <1> QED
    BY <1>2, <1>3, <1>4 DEF RequestsOK

(* The requests that wait fail, and those whose answers are on their way.  *)
LEMMA FailKeepsRequests ==
  ASSUME RequestsOK, FailPending, UNCHANGED <<counter, id, at, sentOn, owed>>,
         inbox' \in [Connections -> Seq(Letters)],
         NEW n \in [Connections -> Nat], Shifted(n)
  PROVE  RequestsOK'
  <1>1. RequestTypeOK /\ RequestsAdvance /\ AnswersAreExpected
    BY DEF RequestsOK
  <1>2. /\ pending' \in [Ids -> Requesters \cup {None}] /\ \A i \in Ids : pending'[i] = None
        /\ future' \in [Requesters -> {"none", "open", "failed"} \cup Requesters]
    <2>1. future \in [Requesters -> {"none", "open", "failed"} \cup Requesters]
      BY <1>1 DEF RequestTypeOK
    <2> QED
      BY <2>1 DEF FailPending
  <1>3. \A u \in Requesters :
          /\ future'[u] \in {future[u], "failed"}
          /\ future[u] # "open" => future'[u] = future[u]
          /\ future'[u] = "open" => future[u] = "open" /\ \A i \in Ids : pending[i] # u
    BY DEF FailPending
  <1>4. RequestTypeOK'
    BY <1>1, <1>2 DEF RequestTypeOK
  <1>5. ASSUME NEW u \in Requesters, id[u] # None
        PROVE  Expecting(u)' /\ pending'[id[u]] = None
    <2>1. id[u] \in Ids
      BY <1>1, <1>5, RequestTypes
    <2>2. u # None
      BY Apart
    <2> QED
      BY <1>2, <1>5, <2>1, <2>2 DEF Expecting
  <1>6. AnswersAreExpected'
    <2>1. \A u \in owed' : sentOn'[u] # None /\ Expecting(u)'
      <3>1. \A u \in owed : u \in Requesters /\ sentOn[u] # None /\ id[u] # None
        BY <1>1, RequestTypes DEF AnswersAreExpected, Expecting
      <3> QED
        BY <1>5, <3>1
    <2>2. \A u \in Requesters : sentOn[u] # None /\ Expecting(u) /\ u \notin owed =>
            sentOn'[u] # None /\ id'[u] = id[u] /\ Expecting(u)' /\ u \notin owed'
      <3>1. \A u \in Requesters : Expecting(u) => id[u] # None
        BY DEF Expecting
      <3> QED
        BY <1>5, <3>1
    <2> QED
      BY <1>1, <2>1, <2>2, AnswersStay DEF Shifted
  <1>7. \A u \in Requesters : future'[u] = "open" => at[u] \notin {"send lock", "drain", "response"}
    <2>1. ASSUME NEW u \in Requesters, future'[u] = "open", at[u] \in {"send lock", "drain", "response"}
          PROVE  FALSE
      <3>1. id[u] # None /\ pending[id[u]] = u
        BY <1>1, <1>3, <2>1 DEF RequestsAdvance
      <3>2. id[u] \in Ids
        BY <1>1, <3>1, RequestTypes
      <3> QED
        BY <1>3, <2>1, <3>1, <3>2
    <2> QED
      BY <2>1
  <1>8. \A u \in Requesters : at[u] = "send lock" => Expecting(u)'
    <2>1. \A u \in Requesters : at[u] = "send lock" => id[u] # None
      BY <1>1 DEF RequestsAdvance, Expecting
    <2> QED
      BY <1>5, <2>1
  <1>9. \A u \in Requesters : future[u] = "none" => future'[u] = "none"
    BY <1>3
  <1> QED
    BY <1>2, <1>4, <1>6, <1>7, <1>8, <1>9, RequestsElsewhere

(* Messages are read that are not answers.                                 *)
LEMMA ReadingKeepsRequests ==
  ASSUME RequestsOK, UNCHANGED <<tableVars, at, sentOn>>, owed' \subseteq owed,
         inbox' \in [Connections -> Seq(Letters)],
         NEW n \in [Connections -> Nat], Shifted(n)
  PROVE  RequestsOK'
  <1>1. RequestTypeOK /\ RequestsAdvance /\ AnswersAreExpected
    BY DEF RequestsOK
  <1>2. pending' = pending /\ counter' = counter /\ id' = id /\ future' = future
    BY DEF tableVars
  <1>3. RequestTypeOK'
    BY <1>1, <1>2 DEF RequestTypeOK
  <1>4. \A u \in Requesters : Expecting(u) <=> Expecting(u)'
    BY <1>2 DEF Expecting
  <1>5. AnswersAreExpected'
    <2>1. \A u \in owed' : sentOn'[u] # None /\ Expecting(u)'
      BY <1>1, <1>4, RequestTypes DEF AnswersAreExpected
    <2>2. \A u \in Requesters : sentOn[u] # None /\ Expecting(u) /\ u \notin owed =>
            sentOn'[u] # None /\ id'[u] = id[u] /\ Expecting(u)' /\ u \notin owed'
      BY <1>2, <1>4
    <2> QED
      BY <1>1, <2>1, <2>2, AnswersStay DEF Shifted
  <1>6. \A u \in Requesters : at[u] = "send lock" => Expecting(u)'
    BY <1>1, <1>4 DEF RequestsAdvance
  <1>7. \A u \in Requesters : at[u] \in {"send lock", "drain", "response"} /\ future'[u] = "open" =>
          future[u] = "open" /\ pending'[id[u]] = u
    BY <1>1, <1>2 DEF RequestsAdvance
  <1> QED
    BY <1>2, <1>3, <1>5, <1>6, <1>7, RequestsElsewhere

(* m, the next letter of c, answers u's request, and u alone expects it.   *)
IsAnswerTo(c, m, u) ==
  /\ m.of = u /\ id[u] \in Ids /\ m.id = id[u] /\ u \notin owed /\ sentOn[u] # None
  /\ pending[id[u]] \in {None, u} /\ (pending[id[u]] = u => future[u] = "open")
  /\ \A d \in Connections : \A j \in 1..Len(inbox[d]) :
       inbox[d][j].kind = "response" /\ inbox[d][j].of = u => c = d /\ 1 = j

(* An answer is for the request that its number is of, and that waits.     *)
LEMMA AnswerIsExpected ==
  ASSUME RequestsOK, NEW c \in Connections, 1 \in 1..Len(inbox[c]), NEW m, m = inbox[c][1],
         m \in Letters, m.kind = "response"
  PROVE  \E u \in Requesters : IsAnswerTo(c, m, u)
  <1>1. RequestTypeOK /\ RequestsAreNumbered /\ AnswersAreExpected
    BY DEF RequestsOK
  <1>2. m.of # None
    BY <1>1 DEF AnswersAreExpected
  <1>3. PICK u \in Requesters : u = m.of
    BY <1>2 DEF Letters
  <1>4. /\ u \notin owed /\ sentOn[u] # None /\ m.id = id[u] /\ Expecting(u)
        /\ \A d \in Connections : \A j \in 1..Len(inbox[d]) :
             inbox[d][j].kind = "response" /\ inbox[d][j].of = u => c = d /\ 1 = j
    BY <1>1, <1>3 DEF AnswersAreExpected
  <1>5. id[u] \in Ids /\ (pending[id[u]] = u => future[u] = "open")
    BY <1>1, <1>4, RequestTypes DEF Expecting
  <1>6. pending[id[u]] \in {None, u}
    <2>1. pending[id[u]] \in Requesters \cup {None}
      BY <1>1, <1>5, RequestTypes
    <2>2. \A i \in Ids : pending[i] # None => id[pending[i]] = i
      BY <1>1 DEF RequestsAreNumbered
    <2>3. \A v, w \in Requesters : id[v] # None /\ id[v] = id[w] => v = w
      BY <1>1 DEF RequestsAreNumbered
    <2>4. None \notin Ids
      BY Apart
    <2> QED
      BY <1>5, <2>1, <2>2, <2>3, <2>4
  <1>7. IsAnswerTo(c, m, u)
    BY <1>3, <1>4, <1>5, <1>6 DEF IsAnswerTo
  <1> QED
    BY <1>7

LEMMA AnswerKeepsRequests ==
  ASSUME RequestsOK, NEW c \in Connections, inbox[c] # <<>>,
         inbox' = [inbox EXCEPT ![c] = Tail(@)], NEW m, m = Head(inbox[c]), m.kind = "response",
         future' = IF pending[m.id] = None THEN future ELSE [future EXCEPT ![pending[m.id]] = m.of],
         UNCHANGED <<pending, counter, id, at, sentOn, owed>>
  PROVE  RequestsOK'
  <1>1. RequestTypeOK /\ RequestsAdvance /\ AnswersAreExpected
    BY DEF RequestsOK
  <1>2. /\ inbox' \in [Connections -> Seq(Letters)]
        /\ m = inbox[c][1] /\ 1 \in 1..Len(inbox[c]) /\ m \in Letters
        /\ \E n \in [Connections -> Nat] : Shifted(n) /\ n[c] = 1
    BY <1>1, OneRead
  <1>3. PICK n \in [Connections -> Nat] : Shifted(n) /\ n[c] = 1
    BY <1>2
  <1>0. PICK u \in Requesters : IsAnswerTo(c, m, u)
    BY <1>2, AnswerIsExpected
  <1>4. /\ m.of = u /\ id[u] \in Ids /\ m.id = id[u] /\ u \notin owed /\ sentOn[u] # None
        /\ pending[id[u]] \in {None, u} /\ (pending[id[u]] = u => future[u] = "open")
        /\ \A d \in Connections : \A j \in 1..Len(inbox[d]) :
             inbox[d][j].kind = "response" /\ inbox[d][j].of = u => c = d /\ 1 = j
    BY <1>0 DEF IsAnswerTo
  <1>5. future \in [Requesters -> {"none", "open", "failed"} \cup Requesters] /\ None \notin Requesters
    <2>1. None \notin Requesters
      BY Apart
    <2> QED
      BY <1>1, <2>1 DEF RequestTypeOK
  <1>6. /\ future' \in [Requesters -> {"none", "open", "failed"} \cup Requesters]
        /\ \A v \in Requesters : v # u => future'[v] = future[v]
        /\ pending[id[u]] # u => future'[u] = future[u]
        /\ pending[id[u]] = u => future'[u] = u /\ future[u] = "open"
    <2>1. CASE pending[id[u]] = u
      <3>1. future' = [future EXCEPT ![u] = u]
        <4>1. m.of = u /\ pending[m.id] = u
          BY <1>4, <2>1, Zenon
        <4>2. u # None
          BY <1>5, Zenon
        <4> QED
          BY <4>1, <4>2, Zenon
      <3>2. future' \in [Requesters -> {"none", "open", "failed"} \cup Requesters]
        BY <1>5, <3>1
      <3>3. future'[u] = u /\ \A v \in Requesters : v # u => future'[v] = future[v]
        BY <1>5, <3>1
      <3> QED
        BY <1>4, <2>1, <3>2, <3>3, Zenon
    <2>2. CASE pending[id[u]] = None
      <3>1. future' = future
        BY <1>4, <2>2
      <3> QED
        BY <1>5, <2>2, <3>1
    <2> QED
      BY <1>4, <2>1, <2>2
  <1>7. RequestTypeOK'
    BY <1>1, <1>2, <1>6 DEF RequestTypeOK
  <1>8. \A v \in Requesters : v # u => (Expecting(v) <=> Expecting(v)')
    BY <1>6 DEF Expecting
  <1>9. ~Coming(u)'
    <2>1. ASSUME NEW d \in Connections, NEW j \in 1..Len(inbox'[d]),
                 inbox'[d][j].kind = "response", inbox'[d][j].of = u
          PROVE  FALSE
      <3>1. j + n[d] \in 1..Len(inbox[d]) /\ inbox'[d][j] = inbox[d][j + n[d]]
        BY <1>3 DEF Shifted
      <3>2. c = d /\ 1 = j + n[d]
        BY <1>4, <2>1, <3>1
      <3> QED
        BY <1>3, <3>2
    <2> QED
      BY <2>1 DEF Coming
  <1>10. AnswersAreExpected'
    <2>1. \A v \in owed' : sentOn'[v] # None /\ Expecting(v)'
      <3>1. \A v \in owed : v \in Requesters /\ v # u /\ sentOn[v] # None /\ Expecting(v)
        BY <1>1, <1>4, RequestTypes DEF AnswersAreExpected
      <3> QED
        BY <1>8, <3>1
    <2>2. \A v \in Requesters : sentOn[v] # None /\ Expecting(v) /\ v \notin owed /\ Coming(v)' =>
            sentOn'[v] # None /\ id'[v] = id[v] /\ Expecting(v)' /\ v \notin owed'
      BY <1>8, <1>9
    <2> QED
      BY <1>1, <1>2, <1>3, <2>1, <2>2, AnswersStay DEF Shifted
  <1>11. \A v \in Requesters : at[v] = "send lock" => Expecting(v)'
    <2>1. \A v \in Requesters : at[v] = "send lock" => v # u /\ Expecting(v)
      <3>1. \A v \in Requesters : at[v] = "send lock" => sentOn[v] = None
        BY <1>1, Apart DEF RequestsAdvance
      <3>2. \A v \in Requesters : at[v] = "send lock" => Expecting(v)
        BY <1>1 DEF RequestsAdvance
      <3> QED
        BY <1>4, <3>1, <3>2
    <2> QED
      BY <1>8, <2>1
  <1>12. \A v \in Requesters : at[v] \in {"send lock", "drain", "response"} /\ future'[v] = "open" =>
           future[v] = "open" /\ pending'[id[v]] = v
    <2>1. u # "open"
      OBVIOUS
    <2>2. \A v \in Requesters : future'[v] = "open" => future[v] = "open"
      BY <1>4, <1>6, <2>1
    <2> QED
      BY <1>1, <2>2 DEF RequestsAdvance
  <1>13. \A v \in Requesters : future[v] = "none" => future'[v] = "none"
    BY <1>4, <1>6
  <1> QED
    BY <1>7, <1>10, <1>11, <1>12, <1>13, RequestsElsewhere

(* Steps of the receive loops, of close() and of Codex, and the requests.  *)
LEMMA LoopsKeepRequests ==
  ASSUME RequestsOK, NEW c \in Connections, LoopSteps(c)
  PROVE  RequestsOK'
  <1>1. RequestTypeOK
    BY DEF RequestsOK
  <1>2. UNCHANGED <<counter, id, at, sentOn, owed>>
    BY DEF LoopSteps, LoopStarts, Receive, HandlerReturns, LoopGetsSendLock, LoopDrained, ReadsEnd,
           tableVars, codexVars
  <1>3. ASSUME UNCHANGED inbox, (FailPending \/ UNCHANGED <<future, pending>>)
        PROVE  RequestsOK'
    <2>1. PICK n \in [Connections -> Nat] : Shifted(n) /\ inbox' \in [Connections -> Seq(Letters)]
      BY <1>1, <1>3, NothingRead
    <2>2. CASE FailPending
      BY <1>2, <2>1, <2>2, FailKeepsRequests
    <2>3. CASE UNCHANGED <<future, pending>>
      <3>1. UNCHANGED tableVars /\ owed' \subseteq owed
        BY <1>2, <2>3 DEF tableVars
      <3> QED
        BY <1>2, <2>1, <3>1, ReadingKeepsRequests
    <2> QED
      BY <1>3, <2>2, <2>3
  <1>4. CASE Receive(c)
    <2>1. inbox[c] # <<>> /\ inbox' = [inbox EXCEPT ![c] = Tail(@)]
      BY <1>4 DEF Receive
    <2>2. PICK n \in [Connections -> Nat] : Shifted(n) /\ inbox' \in [Connections -> Seq(Letters)]
      BY <1>1, <2>1, OneRead
    <2>3. CASE FailPending
      BY <1>2, <2>2, <2>3, FailKeepsRequests
    <2>4. CASE UNCHANGED <<future, pending>>
      <3>1. UNCHANGED tableVars /\ owed' \subseteq owed
        BY <1>2, <2>4 DEF tableVars
      <3> QED
        BY <1>2, <2>2, <3>1, ReadingKeepsRequests
    <2>5. PICK m : m = Head(inbox[c])
      OBVIOUS
    <2>6. CASE m.kind = "response" /\ HandleResponse(c, m)
      <3>1. /\ UNCHANGED pending
            /\ future' = IF pending[m.id] = None THEN future
                         ELSE [future EXCEPT ![pending[m.id]] = m.of]
        BY <2>6 DEF HandleResponse
      <3> QED
        BY <1>2, <2>1, <2>5, <2>6, <3>1, AnswerKeepsRequests
    <2> QED
      BY <1>4, <2>3, <2>4, <2>5, <2>6 DEF Receive, LoopSends
  <1>5. CASE LoopStarts(c) \/ HandlerReturns(c)
    BY <1>3, <1>5 DEF LoopStarts, HandlerReturns, tableVars, codexVars
  <1>6. CASE LoopGetsSendLock(c) \/ LoopDrained(c)
    BY <1>3, <1>6 DEF LoopGetsSendLock, LoopDrained, codexVars
  <1>7. CASE ReadsEnd(c)
    BY <1>3, <1>7 DEF ReadsEnd, codexVars
  <1> QED
    BY <1>4, <1>5, <1>6, <1>7 DEF LoopSteps

LEMMA CloserKeepsRequests ==
  ASSUME RequestsOK, Close \/ CloserSteps
  PROVE  RequestsOK'
  <1>1. RequestTypeOK
    BY DEF RequestsOK
  <1>2. UNCHANGED <<counter, id, at, sentOn, inbox>>
    BY DEF Close, CloserSteps, CloserGetsLock, TakeOver, WebsocketCloses, FinishClose, tableVars, codexVars
  <1>3. PICK n \in [Connections -> Nat] : Shifted(n) /\ inbox' \in [Connections -> Seq(Letters)]
    BY <1>1, <1>2, NothingRead
  <1>4. ASSUME UNCHANGED tableVars, owed' \subseteq owed
        PROVE  RequestsOK'
    BY <1>2, <1>3, <1>4, ReadingKeepsRequests
  <1>5. CASE Close \/ CloserGetsLock
    BY <1>4, <1>5 DEF Close, CloserGetsLock, TakeOver, codexVars
  <1>6. CASE WebsocketCloses
    BY <1>4, <1>6 DEF WebsocketCloses, EndConnection
  <1>7. CASE FinishClose
    BY <1>2, <1>3, <1>7, FailKeepsRequests DEF FinishClose, codexVars
  <1> QED
    BY <1>5, <1>6, <1>7 DEF CloserSteps

CodexSteps ==
  \/ \E t \in Requesters : CodexAnswers(t)
  \/ \E c \in Connections, kind \in {"event", "request", "nonsense"} : CodexSpeaks(c, kind)
  \/ \E c \in Connections, how \in {"closed", "lost"} : ConnectionEnds(c, how)

LEMMA CodexKeepsRequests ==
  ASSUME RequestsOK, CodexSteps
  PROVE  RequestsOK'
  <1>1. RequestTypeOK /\ RequestsAdvance /\ AnswersAreExpected
    BY DEF RequestsOK
  <1>2. UNCHANGED <<pending, counter, id, future, at, sentOn>>
    BY DEF CodexSteps, CodexAnswers, CodexSpeaks, ConnectionEnds, tableVars
  <1>3. ASSUME AnswersAreExpected', inbox' \in [Connections -> Seq(Letters)], owed' \subseteq owed
        PROVE  RequestsOK'
    <2>1. RequestTypeOK'
      BY <1>1, <1>2, <1>3 DEF RequestTypeOK
    <2>2. \A u \in Requesters : at[u] = "send lock" => Expecting(u)'
      BY <1>1, <1>2 DEF RequestsAdvance, Expecting
    <2>3. \A u \in Requesters : at[u] \in {"send lock", "drain", "response"} /\ future'[u] = "open" =>
            future[u] = "open" /\ pending'[id[u]] = u
      BY <1>1, <1>2 DEF RequestsAdvance
    <2> QED
      BY <1>2, <1>3, <2>1, <2>2, <2>3, RequestsElsewhere
  <1>4. ASSUME NEW c \in Connections, NEW m \in Letters, Deliver(c, m), owed' \subseteq owed,
               m.kind = "response" => m.of \in owed /\ m.of \notin owed' /\ m.id = id[m.of]
        PROVE  RequestsOK'
    BY <1>1, <1>2, <1>3, <1>4, OneWritten
  <1>5. ASSUME NEW t \in Requesters, CodexAnswers(t)
        PROVE  RequestsOK'
    <2>1. t \in owed /\ owed' = owed \ {t} /\ Deliver(sentOn[t], [kind |-> "response", id |-> id[t], of |-> t])
      BY <1>5 DEF CodexAnswers
    <2>2. PICK m : m = [kind |-> "response", id |-> id[t], of |-> t]
      OBVIOUS
    <2>3. m \in Letters /\ m.of = t /\ m.id = id[t]
      BY <1>1, <2>2, RequestTypes DEF Letters
    <2>4. PICK c \in Connections : c = sentOn[t]
      <3>1. t \in Callers /\ sentOn \in [Callers -> Connections \cup {None}]
        BY <1>1, Apart DEF RequestTypeOK
      <3>2. sentOn[t] # None
        BY <1>1, <2>1 DEF AnswersAreExpected
      <3> QED
        BY <3>1, <3>2
    <2> QED
      BY <1>4, <2>1, <2>2, <2>3, <2>4
  <1>6. ASSUME NEW c \in Connections, NEW kind \in {"event", "request", "nonsense"}, CodexSpeaks(c, kind)
        PROVE  RequestsOK'
    <2>1. PICK m : m = [kind |-> kind, id |-> None, of |-> None]
      OBVIOUS
    <2>2. m \in Letters /\ m.kind # "response"
      BY <2>1 DEF Letters
    <2>3. Deliver(c, m) /\ owed' \subseteq owed
      BY <1>6, <2>1 DEF CodexSpeaks
    <2> QED
      BY <1>4, <2>2, <2>3
  <1>7. ASSUME NEW c \in Connections, NEW how \in {"closed", "lost"}, ConnectionEnds(c, how)
        PROVE  RequestsOK'
    <2>1. UNCHANGED <<tableVars, at, sentOn, inbox>> /\ owed' \subseteq owed
      BY <1>7 DEF ConnectionEnds, EndConnection
    <2>2. PICK n \in [Connections -> Nat] : Shifted(n) /\ inbox' \in [Connections -> Seq(Letters)]
      BY <1>1, <2>1, NothingRead
    <2> QED
      BY <2>1, <2>2, ReadingKeepsRequests
  <1> QED
    BY <1>5, <1>6, <1>7 DEF CodexSteps

-----------------------------------------------------------------------------
LEMMA SameButOne ==
  ASSUME NEW p, NEW A, NEW B, A \ {p} = B \ {p}
  PROVE  /\ B = A \/ p \in A \cup B
         /\ p \notin B => B = A \ {p}
         /\ A \subseteq {p} => B = {} \/ B = {p}
         /\ p \in B => A \cup {p} \subseteq B
         /\ p \notin A => A \subseteq B
  <1>1. \A x : x # p => (x \in A <=> x \in B)
    <2>1. \A x : x \in A \ {p} <=> x \in B \ {p}
      OBVIOUS
    <2> QED
      BY <2>1
  <1>2. p \notin A \cup B => B = A
    BY <1>1
  <1>3. p \notin B => B = A \ {p}
    BY <1>1
  <1>4. A \subseteq {p} => B = {} \/ B = {p}
    BY <1>1
  <1> QED
    BY <1>1, <1>2, <1>3, <1>4

(* A task takes, awaits, gets, passes on or gives up a lock; the others who *)
(* wait for it or have it go on to.                                        *)
LEMMA LockStep ==
  ASSUME NEW S, NEW p \in S, NEW q, NEW W, NEW H, NEW r, NEW W2, NEW H2,
         Disciplined(q, S, W, H), W \ {p} = W2 \ {p}, H \ {p} = H2 \ {p},
         \/ q = <<>> /\ r = <<>> /\ p \notin H2
         \/ q = <<>> /\ r = <<p>> /\ p \in H2
         \/ r = Append(q, p) /\ p \notin W \cup H /\ p \in W2 /\ p \notin H2
         \/ Owns(q, p) /\ (r = q \/ r = <<p>> \o Tail(q)) /\ p \in H2
         \/ Owns(q, p) /\ r = Tail(q) /\ p \notin H2
         \/ r = q /\ p \notin W \cup H /\ p \notin H2
         \/ /\ p \notin H2
            /\ Leaves(q, p, r) \/ ((\A i \in 1..Len(q) : q[i] # p) /\ r = q)
  PROVE  Disciplined(r, S, W2, H2)
  <1>0. /\ H2 = H \/ p \in H \cup H2
        /\ p \notin H2 => H2 = H \ {p}
        /\ H \subseteq {p} => H2 = {} \/ H2 = {p}
        /\ p \in W2 => W \cup {p} \subseteq W2
        /\ p \notin W => W \subseteq W2
    BY SameButOne
  <1>1. \A h \in H : Owns(q, h)
    BY DEF Disciplined
  <1>2. W \ {p} \subseteq W2
    OBVIOUS
  <1>3. Owns(q, p) => H \subseteq {p}
    BY <1>1 DEF Owns
  <1>4. q = <<>> => H = {}
    BY <1>1 DEF Owns
  <1>5. CASE q = <<>> /\ r = <<>> /\ p \notin H2
    <2>1. H2 = {}
      BY <1>4, <1>5
    <2> QED
      BY <1>5, <2>1 DEF Disciplined
  <1>6. CASE q = <<>> /\ r = <<p>> /\ p \in H2
    <2>1. H2 = {p}
      BY <1>4, <1>6
    <2> QED
      BY <1>6, <2>1, LockTaken
  <1>7. CASE r = Append(q, p) /\ p \notin W \cup H /\ p \in W2 /\ p \notin H2
    <2>1. H2 = H /\ W \cup {p} \subseteq W2
      BY <1>0, <1>7
    <2> QED
      BY <1>7, <2>1, LockAwaited
  <1>8. CASE Owns(q, p) /\ (r = q \/ r = <<p>> \o Tail(q)) /\ p \in H2
    <2>1. H2 = {p}
      BY <1>0, <1>3, <1>8
    <2>2. Owns(q, p) /\ (r = q \/ r = <<p>> \o Tail(q))
      BY <1>8
    <2>3. Disciplined(q, S, W2, H2) /\ Disciplined(<<p>> \o Tail(q), S, W2, H2)
      BY <1>2, <2>1, <2>2, LockHandedOver
    <2> QED
      BY <2>2, <2>3
  <1>9. CASE Owns(q, p) /\ r = Tail(q) /\ p \notin H2
    <2>1. H2 = {}
      BY <1>0, <1>3, <1>9
    <2> QED
      BY <1>2, <1>9, <2>1, LockPassed
  <1>10. CASE r = q /\ p \notin W \cup H /\ p \notin H2
    <2>1. H2 = H /\ W \subseteq W2
      BY <1>0, <1>10
    <2> QED
      BY <1>10, <2>1 DEF Disciplined
  <1>11. CASE /\ p \notin H2
              /\ Leaves(q, p, r) \/ ((\A i \in 1..Len(q) : q[i] # p) /\ r = q)
    <2>1. H2 = H \ {p}
      BY <1>0, <1>11
    <2>2. CASE (\A i \in 1..Len(q) : q[i] # p) /\ r = q
      <3>1. p \notin H
        <4>1. q # <<>> /\ q \in Seq(S) => Head(q) = q[1] /\ 1 \in 1..Len(q)
          OBVIOUS
        <4> QED
          BY <1>1, <2>2, <4>1 DEF Disciplined, Owns
      <3>2. \A i \in 1..Len(q) : q[i] \in W => q[i] \in W2
        BY <1>2, <2>2
      <3> QED
        BY <2>1, <2>2, <3>1, <3>2 DEF Disciplined
    <2>3. CASE Leaves(q, p, r)
      BY <1>2, <2>1, <2>3, LockGivenUp
    <2> QED
      BY <1>11, <2>2, <2>3
  <1> QED
    BY <1>5, <1>6, <1>7, <1>8, <1>9, <1>10, <1>11

(* A caller's step at the connect lock.                                    *)
LEMMA ConnectLockStep ==
  ASSUME ConnectLockOK, NEW t \in Callers, closer'.at = closer.at,
         \A u \in Callers : u # t => at'[u] = at[u],
         \/ connectQueue = <<>> /\ connectQueue' = <<>> /\ at'[t] # "handshake"
         \/ connectQueue = <<>> /\ connectQueue' = <<t>> /\ at'[t] = "handshake"
         \/ /\ connectQueue' = Append(connectQueue, t)
            /\ at[t] \notin {"connect lock", "handshake"} /\ at'[t] = "connect lock"
         \/ Owns(connectQueue, t) /\ connectQueue' = <<t>> \o Tail(connectQueue) /\ at'[t] = "handshake"
         \/ Owns(connectQueue, t) /\ connectQueue' = Tail(connectQueue) /\ at'[t] # "handshake"
         \/ /\ connectQueue' = connectQueue
            /\ at[t] \notin {"connect lock", "handshake"} /\ at'[t] # "handshake"
  PROVE  ConnectLockOK'
  <1>1. PICK q, W, H, r, W2, H2 :
          /\ q = connectQueue /\ W = ConnectWaiting /\ H = ConnectHolding
          /\ r = connectQueue' /\ W2 = ConnectWaiting' /\ H2 = ConnectHolding'
    OBVIOUS
  <1>2. t # Closer
    BY Apart
  <1>3. W \ {t} = W2 \ {t} /\ H \ {t} = H2 \ {t}
    BY <1>1 DEF ConnectWaiting, ConnectHolding
  <1>4. /\ t \in W <=> at[t] = "connect lock"
        /\ t \in H <=> at[t] = "handshake"
        /\ t \in W2 <=> at'[t] = "connect lock"
        /\ t \in H2 <=> at'[t] = "handshake"
    BY <1>1, <1>2 DEF ConnectWaiting, ConnectHolding
  <1>5. Disciplined(q, Callers \cup {Closer}, W, H)
    BY <1>1 DEF ConnectLockOK
  <1>6. Disciplined(r, Callers \cup {Closer}, W2, H2)
    <2>1. \/ q = <<>> /\ r = <<>> /\ t \notin H2
          \/ q = <<>> /\ r = <<t>> /\ t \in H2
          \/ r = Append(q, t) /\ t \notin W \cup H /\ t \in W2 /\ t \notin H2
          \/ Owns(q, t) /\ (r = q \/ r = <<t>> \o Tail(q)) /\ t \in H2
          \/ Owns(q, t) /\ r = Tail(q) /\ t \notin H2
          \/ r = q /\ t \notin W \cup H /\ t \notin H2
      BY <1>1, <1>4
    <2>2. t \in Callers \cup {Closer}
      OBVIOUS
    <2> QED
      BY <1>3, <1>5, <2>1, <2>2, LockStep
  <1> QED
    BY <1>1, <1>6 DEF ConnectLockOK

(* The step of close() at the connect lock.                                *)
LEMMA ConnectLockCloses ==
  ASSUME ConnectLockOK, UNCHANGED at,
         \/ connectQueue = <<>> /\ connectQueue' = <<Closer>> /\ closer'.at \in HasConnectLock
         \/ /\ connectQueue' = Append(connectQueue, Closer)
            /\ closer.at \notin HasConnectLock \cup {"connect lock"} /\ closer'.at = "connect lock"
         \/ /\ Owns(connectQueue, Closer) /\ closer'.at \in HasConnectLock
            /\ (connectQueue' = connectQueue \/ connectQueue' = <<Closer>> \o Tail(connectQueue))
         \/ /\ Owns(connectQueue, Closer) /\ connectQueue' = Tail(connectQueue)
            /\ closer'.at \notin HasConnectLock
  PROVE  ConnectLockOK'
  <1>1. PICK q, W, H, r, W2, H2 :
          /\ q = connectQueue /\ W = ConnectWaiting /\ H = ConnectHolding
          /\ r = connectQueue' /\ W2 = ConnectWaiting' /\ H2 = ConnectHolding'
    OBVIOUS
  <1>2. Closer \notin Callers
    BY Apart
  <1>3. W \ {Closer} = W2 \ {Closer} /\ H \ {Closer} = H2 \ {Closer}
    BY <1>1 DEF ConnectWaiting, ConnectHolding
  <1>4. /\ Closer \in W <=> closer.at = "connect lock"
        /\ Closer \in H <=> closer.at \in HasConnectLock
        /\ Closer \in W2 <=> closer'.at = "connect lock"
        /\ Closer \in H2 <=> closer'.at \in HasConnectLock
    BY <1>1, <1>2 DEF ConnectWaiting, ConnectHolding
  <1>5. Disciplined(q, Callers \cup {Closer}, W, H)
    BY <1>1 DEF ConnectLockOK
  <1>6. Disciplined(r, Callers \cup {Closer}, W2, H2)
    <2>1. \/ q = <<>> /\ r = <<Closer>> /\ Closer \in H2
          \/ r = Append(q, Closer) /\ Closer \notin W \cup H /\ Closer \in W2 /\ Closer \notin H2
          \/ Owns(q, Closer) /\ (r = q \/ r = <<Closer>> \o Tail(q)) /\ Closer \in H2
          \/ Owns(q, Closer) /\ r = Tail(q) /\ Closer \notin H2
      BY <1>1, <1>4 DEF HasConnectLock
    <2>2. Closer \in Callers \cup {Closer}
      OBVIOUS
    <2> QED
      BY <1>3, <1>5, <2>1, <2>2, LockStep
  <1> QED
    BY <1>1, <1>6 DEF ConnectLockOK

(* A step at the send lock, of a caller or of a loop.                      *)
SenderAwaits(p) == (p \in Callers /\ at[p] = "send lock") \/ (p \in Connections /\ loop[p] = "send lock")
SenderHolds(p) == (p \in Callers /\ at[p] = "drain") \/ (p \in Connections /\ loop[p] = "drain")

LEMMA SendLockStep ==
  ASSUME SendLockOK, NEW p \in Callers \cup Connections,
         \A u \in Callers \cup Connections : u # p =>
           (SenderAwaits(u) <=> SenderAwaits(u)') /\ (SenderHolds(u) <=> SenderHolds(u)'),
         \/ sendQueue = <<>> /\ sendQueue' = <<>> /\ ~SenderHolds(p)'
         \/ sendQueue = <<>> /\ sendQueue' = <<p>> /\ SenderHolds(p)'
         \/ /\ sendQueue' = Append(sendQueue, p)
            /\ ~SenderAwaits(p) /\ ~SenderHolds(p) /\ SenderAwaits(p)' /\ ~SenderHolds(p)'
         \/ /\ Owns(sendQueue, p) /\ SenderHolds(p)'
            /\ (sendQueue' = sendQueue \/ sendQueue' = <<p>> \o Tail(sendQueue))
         \/ Owns(sendQueue, p) /\ sendQueue' = Tail(sendQueue) /\ ~SenderHolds(p)'
         \/ /\ sendQueue' = sendQueue
            /\ ~SenderAwaits(p) /\ ~SenderHolds(p) /\ ~SenderHolds(p)'
         \/ /\ ~SenderHolds(p)'
            /\ \/ Leaves(sendQueue, p, sendQueue')
               \/ (\A i \in 1..Len(sendQueue) : sendQueue[i] # p) /\ sendQueue' = sendQueue
  PROVE  SendLockOK'
  <1>1. PICK q, W, H, r, W2, H2 :
          /\ q = sendQueue /\ W = SendWaiting /\ H = SendHolding
          /\ r = sendQueue' /\ W2 = SendWaiting' /\ H2 = SendHolding'
    OBVIOUS
  <1>2. /\ \A u : u \in W <=> (u \in Callers \cup Connections /\ SenderAwaits(u))
        /\ \A u : u \in H <=> (u \in Callers \cup Connections /\ SenderHolds(u))
        /\ \A u : u \in W2 <=> (u \in Callers \cup Connections /\ SenderAwaits(u)')
        /\ \A u : u \in H2 <=> (u \in Callers \cup Connections /\ SenderHolds(u)')
    BY <1>1 DEF SendWaiting, SendHolding, SenderAwaits, SenderHolds
  <1>3. W \ {p} = W2 \ {p} /\ H \ {p} = H2 \ {p}
    BY <1>2
  <1>4. Disciplined(q, Callers \cup Connections, W, H)
    BY <1>1 DEF SendLockOK
  <1>5. \/ q = <<>> /\ r = <<>> /\ p \notin H2
        \/ q = <<>> /\ r = <<p>> /\ p \in H2
        \/ r = Append(q, p) /\ p \notin W \cup H /\ p \in W2 /\ p \notin H2
        \/ Owns(q, p) /\ (r = q \/ r = <<p>> \o Tail(q)) /\ p \in H2
        \/ Owns(q, p) /\ r = Tail(q) /\ p \notin H2
        \/ r = q /\ p \notin W \cup H /\ p \notin H2
        \/ /\ p \notin H2
           /\ Leaves(q, p, r) \/ ((\A i \in 1..Len(q) : q[i] # p) /\ r = q)
    BY <1>1, <1>2
  <1>6. Disciplined(r, Callers \cup Connections, W2, H2)
    BY <1>3, <1>4, <1>5, LockStep
  <1> QED
    BY <1>1, <1>6 DEF SendLockOK

(* Where a send leaves the caller.                                         *)
LEMMA SendMoves ==
  ASSUME NEW t \in Callers, at \in [Callers -> Places], Send(t)
  PROVE  /\ \A u \in Callers : u # t => at'[u] = at[u]
         /\ at'[t] \in {"send lock", "drain", "response", "done", "failed"}
         /\ at'[t] = "send lock" => sendQueue # <<>> /\ sendQueue' = Append(sendQueue, t)
         /\ at'[t] # "send lock" => sendQueue = <<>> /\ sendQueue' \in {<<>>, <<t>>}
         /\ at'[t] # "send lock" => (sendQueue' = <<t>> <=> at'[t] = "drain")
  <1>1. CASE /\ sendQueue # <<>> /\ sendQueue' = Append(sendQueue, t)
             /\ at' = [at EXCEPT ![t] = "send lock"]
    BY <1>1
  <1>2. CASE /\ sendQueue = <<>> /\ sendQueue' = <<>>
             /\ at' = [at EXCEPT ![t] = "failed"] \/ at' = [at EXCEPT ![t] = SentAlready(t)]
    BY <1>2 DEF SentAlready
  <1>3. CASE /\ sendQueue = <<>> /\ sendQueue' = <<t>> \o <<>> /\ at' = [at EXCEPT ![t] = "drain"]
    <2>1. <<t>> \o <<>> = <<t>>
      OBVIOUS
    <2> QED
      BY <1>3, <2>1
  <1> QED
    BY <1>1, <1>2, <1>3 DEF Send, Transmit

LEMMA CallersKeepConnectLock ==
  ASSUME ConnectLockOK, at \in [Callers -> Places], NEW t \in Callers, Call(t) \/ CallerSteps(t)
  PROVE  ConnectLockOK'
  <1>1. closer' = closer
    BY DEF Call, CallerSteps, Connect, GetConnectLock, HandshakeSucceeds, HandshakeFails, GetSendLock,
           Drained, Return
  <1>2. at[t] = "handshake" => Owns(connectQueue, t)
    BY DEF ConnectLockOK, Disciplined, ConnectHolding
  <1>3. CASE Call(t)
    <2>1. CASE connectQueue = <<>> /\ websocket # None /\ connectQueue' = <<>> /\ Send(t)
      BY <1>1, <2>1, SendMoves, ConnectLockStep
    <2>2. CASE connectQueue = <<>> /\ connectQueue' = <<t>> \o <<>> /\ at' = [at EXCEPT ![t] = "handshake"]
      <3>1. connectQueue' = <<t>>
        BY <2>2
      <3> QED
        BY <1>1, <2>2, <3>1, ConnectLockStep
    <2>3. CASE connectQueue' = Append(connectQueue, t) /\ at' = [at EXCEPT ![t] = "connect lock"]
      <3>1. at[t] = "idle"
        BY <1>3 DEF Call
      <3> QED
        BY <1>1, <2>3, <3>1, ConnectLockStep
    <2> QED
      BY <1>3, <2>1, <2>2, <2>3 DEF Call, Connect
  <1>4. CASE GetConnectLock(t)
    <2>1. Owns(connectQueue, t)
      BY <1>4 DEF GetConnectLock
    <2>2. CASE connectQueue' = Tail(connectQueue) /\ Send(t)
      BY <1>1, <2>1, <2>2, SendMoves, ConnectLockStep
    <2>3. CASE connectQueue' = <<t>> \o Tail(connectQueue) /\ at' = [at EXCEPT ![t] = "handshake"]
      BY <1>1, <2>1, <2>3, ConnectLockStep
    <2> QED
      BY <1>4, <2>2, <2>3 DEF GetConnectLock, Connect
  <1>5. CASE HandshakeSucceeds(t)
    <2>1. Owns(connectQueue, t) /\ connectQueue' = Tail(connectQueue) /\ Send(t)
      BY <1>2, <1>5 DEF HandshakeSucceeds
    <2> QED
      BY <1>1, <2>1, SendMoves, ConnectLockStep
  <1>6. CASE HandshakeFails(t)
    <2>1. /\ Owns(connectQueue, t) /\ connectQueue' = Tail(connectQueue)
          /\ at' = [at EXCEPT ![t] = "failed"]
      BY <1>2, <1>6 DEF HandshakeFails
    <2> QED
      BY <1>1, <2>1, ConnectLockStep
  <1>7. ASSUME connectQueue' = connectQueue, at[t] \in {"send lock", "drain", "response"},
               NEW place \in {"drain", "response", "done", "failed"}, at' = [at EXCEPT ![t] = place]
        PROVE  ConnectLockOK'
    BY <1>1, <1>7, ConnectLockStep
  <1>8. CASE GetSendLock(t)
    BY <1>7, <1>8 DEF GetSendLock, Transmit, SentAlready
  <1>9. CASE Drained(t)
    BY <1>7, <1>9 DEF Drained, SentAlready
  <1>10. CASE Return(t)
    BY <1>7, <1>10 DEF Return, lockVars
  <1> QED
    BY <1>3, <1>4, <1>5, <1>6, <1>8, <1>9, <1>10 DEF CallerSteps

LEMMA OthersKeepConnectLock ==
  ASSUME ConnectLockOK, closer'.at = closer.at, UNCHANGED <<at, connectQueue>>
  PROVE  ConnectLockOK'
  BY DEF ConnectLockOK, ConnectWaiting, ConnectHolding, Disciplined, Owns

LEMMA CloserKeepsConnectLock ==
  ASSUME ConnectLockOK, ConnectionTypeOK, Close \/ CloserSteps
  PROVE  ConnectLockOK'
  <1>1. at' = at
    BY DEF Close, CloserSteps, CloserGetsLock, TakeOver, WebsocketCloses, FinishClose
  <1>2. closer.at \in HasConnectLock => Owns(connectQueue, Closer)
    BY DEF ConnectLockOK, Disciplined, ConnectHolding
  <1>3. closer \in [at : {"idle", "connect lock", "closing", "joining", "done"},
                    websocket : Connections \cup {None}, receiver : Connections \cup {None}]
    BY DEF ConnectionTypeOK
  <1>4. CASE Close
    <2>1. CASE connectQueue = <<>> /\ TakeOver(<<>>)
      <3>1. connectQueue' = <<Closer>> \o <<>> /\ closer'.at \in HasConnectLock
        BY <2>1 DEF TakeOver, HasConnectLock
      <3>2. connectQueue' = <<Closer>>
        BY <3>1
      <3> QED
        BY <1>1, <2>1, <3>1, <3>2, ConnectLockCloses
    <2>2. CASE /\ connectQueue' = Append(connectQueue, Closer)
               /\ closer' = [closer EXCEPT !.at = "connect lock"]
      <3>1. closer.at \notin HasConnectLock \cup {"connect lock"} /\ closer'.at = "connect lock"
        BY <1>3, <1>4, <2>2 DEF Close, HasConnectLock
      <3> QED
        BY <1>1, <2>2, <3>1, ConnectLockCloses
    <2> QED
      BY <1>4, <2>1, <2>2 DEF Close
  <1>5. CASE CloserGetsLock
    <2>1. /\ Owns(connectQueue, Closer) /\ closer'.at \in HasConnectLock
          /\ connectQueue' = <<Closer>> \o Tail(connectQueue)
      <3>1. PICK waiting : waiting = Tail(connectQueue)
        OBVIOUS
      <3>2. Owns(connectQueue, Closer) /\ TakeOver(waiting)
        BY <1>5, <3>1 DEF CloserGetsLock
      <3>3. closer'.at \in HasConnectLock /\ connectQueue' = <<Closer>> \o waiting
        BY <3>2 DEF TakeOver, HasConnectLock
      <3> QED
        BY <3>1, <3>2, <3>3
    <2> QED
      BY <1>1, <2>1, ConnectLockCloses
  <1>6. CASE WebsocketCloses
    <2>1. /\ Owns(connectQueue, Closer) /\ closer'.at \in HasConnectLock
          /\ connectQueue' = connectQueue
      BY <1>2, <1>3, <1>6 DEF WebsocketCloses, HasConnectLock
    <2> QED
      BY <1>1, <2>1, ConnectLockCloses
  <1>7. CASE FinishClose
    <2>1. /\ Owns(connectQueue, Closer) /\ closer'.at \notin HasConnectLock
          /\ connectQueue' = Tail(connectQueue)
      BY <1>2, <1>3, <1>7 DEF FinishClose, HasConnectLock
    <2> QED
      BY <1>1, <2>1, ConnectLockCloses
  <1> QED
    BY <1>4, <1>5, <1>6, <1>7 DEF CloserSteps

(* The send lock.                                                          *)
LEMMA CallerAtSendLock ==
  ASSUME NEW t \in Callers, \A u \in Callers : u # t => at'[u] = at[u],
         \A c \in Connections : loop'[c] = loop[c] \/ (loop[c] = "none" /\ loop'[c] = "scheduled")
  PROVE  /\ \A u \in Callers \cup Connections : u # t =>
              (SenderAwaits(u) <=> SenderAwaits(u)') /\ (SenderHolds(u) <=> SenderHolds(u)')
         /\ SenderAwaits(t) <=> at[t] = "send lock"
         /\ SenderHolds(t) <=> at[t] = "drain"
         /\ SenderAwaits(t)' <=> at'[t] = "send lock"
         /\ SenderHolds(t)' <=> at'[t] = "drain"
  <1>1. t \notin Connections
    BY Apart
  <1> QED
    BY <1>1 DEF SenderAwaits, SenderHolds

LEMMA SendKeepsSendLock ==
  ASSUME NEW t \in Callers, Send(t), SendLockOK, at \in [Callers -> Places],
         at[t] \in {"idle", "connect lock", "handshake"},
         \A c \in Connections : loop'[c] = loop[c] \/ (loop[c] = "none" /\ loop'[c] = "scheduled")
  PROVE  SendLockOK'
  <1>1. /\ \A u \in Callers : u # t => at'[u] = at[u]
        /\ at'[t] \in {"send lock", "drain", "response", "done", "failed"}
        /\ at'[t] = "send lock" => sendQueue # <<>> /\ sendQueue' = Append(sendQueue, t)
        /\ at'[t] # "send lock" => sendQueue = <<>> /\ sendQueue' \in {<<>>, <<t>>}
        /\ at'[t] # "send lock" => (sendQueue' = <<t>> <=> at'[t] = "drain")
    BY SendMoves
  <1>2. /\ \A u \in Callers \cup Connections : u # t =>
             (SenderAwaits(u) <=> SenderAwaits(u)') /\ (SenderHolds(u) <=> SenderHolds(u)')
        /\ SenderAwaits(t) <=> at[t] = "send lock"
        /\ SenderHolds(t) <=> at[t] = "drain"
        /\ SenderAwaits(t)' <=> at'[t] = "send lock"
        /\ SenderHolds(t)' <=> at'[t] = "drain"
    BY <1>1, CallerAtSendLock
  <1>3. \/ sendQueue = <<>> /\ sendQueue' = <<>> /\ ~SenderHolds(t)'
        \/ sendQueue = <<>> /\ sendQueue' = <<t>> /\ SenderHolds(t)'
        \/ /\ sendQueue' = Append(sendQueue, t)
           /\ ~SenderAwaits(t) /\ ~SenderHolds(t) /\ SenderAwaits(t)' /\ ~SenderHolds(t)'
    <2>1. CASE at'[t] = "send lock"
      BY <1>1, <1>2, <2>1
    <2>2. CASE at'[t] # "send lock"
      <3>1. <<>> # <<t>>
        OBVIOUS
      <3> QED
        BY <1>1, <1>2, <2>2, <3>1
    <2> QED
      BY <2>1, <2>2
  <1> QED
    BY <1>2, <1>3, SendLockStep

LEMMA CallersKeepSendLock ==
  ASSUME SendLockOK, at \in [Callers -> Places], ConnectionTypeOK, ConnectionsAreNumbered,
         NEW t \in Callers, Call(t) \/ CallerSteps(t)
  PROVE  SendLockOK'
  <1> DEFINE Loops == \A c \in Connections :
                        loop'[c] = loop[c] \/ (loop[c] = "none" /\ loop'[c] = "scheduled")
  <1>1. ASSUME NEW place \in Places, at' = [at EXCEPT ![t] = place], UNCHANGED loop
        PROVE  /\ \A u \in Callers \cup Connections : u # t =>
                    (SenderAwaits(u) <=> SenderAwaits(u)') /\ (SenderHolds(u) <=> SenderHolds(u)')
               /\ SenderAwaits(t) <=> at[t] = "send lock"
               /\ SenderHolds(t) <=> at[t] = "drain"
               /\ SenderAwaits(t)' <=> place = "send lock"
               /\ SenderHolds(t)' <=> place = "drain"
    BY <1>1, CallerAtSendLock
  <1>2. ASSUME at[t] \notin {"send lock", "drain"}, NEW place \in Places \ {"send lock", "drain"},
               at' = [at EXCEPT ![t] = place], UNCHANGED <<loop, sendQueue>>
        PROVE  SendLockOK'
    BY <1>1, <1>2, SendLockStep
  <1>3. at[t] = "drain" => Owns(sendQueue, t)
    BY DEF SendLockOK, Disciplined, SendHolding
  <1>4. CASE Call(t)
    <2>1. at[t] = "idle" /\ loop' = loop
      BY <1>4 DEF Call, Connect
    <2>2. CASE Send(t)
      BY <2>1, <2>2, SendKeepsSendLock
    <2>3. CASE UNCHANGED sendQueue /\ at' = [at EXCEPT ![t] = "handshake"]
      BY <1>2, <2>1, <2>3 DEF Places
    <2>4. CASE UNCHANGED sendQueue /\ at' = [at EXCEPT ![t] = "connect lock"]
      BY <1>2, <2>1, <2>4 DEF Places
    <2> QED
      BY <1>4, <2>2, <2>3, <2>4 DEF Call, Connect
  <1>5. CASE GetConnectLock(t)
    <2>1. at[t] = "connect lock" /\ loop' = loop
      BY <1>5 DEF GetConnectLock, Connect
    <2>2. CASE Send(t)
      BY <2>1, <2>2, SendKeepsSendLock
    <2>3. CASE UNCHANGED sendQueue /\ at' = [at EXCEPT ![t] = "handshake"]
      BY <1>2, <2>1, <2>3 DEF Places
    <2> QED
      BY <1>5, <2>2, <2>3 DEF GetConnectLock, Connect
  <1>6. CASE HandshakeSucceeds(t)
    <2>1. PICK c \in Connections : conn[c] = "none" /\ loop' = [loop EXCEPT ![c] = "scheduled"]
      BY <1>6, NewConnection DEF HandshakeSucceeds
    <2>2. loop[c] = "none" /\ loop \in [Connections -> LoopPlaces]
      BY <2>1 DEF ConnectionTypeOK, ConnectionsAreNumbered
    <2>3. Loops
      BY <2>1, <2>2
    <2>4. at[t] = "handshake" /\ Send(t)
      BY <1>6 DEF HandshakeSucceeds
    <2> QED
      BY <2>3, <2>4, SendKeepsSendLock
  <1>7. CASE HandshakeFails(t)
    BY <1>2, <1>7 DEF HandshakeFails, Places
  <1>8. CASE GetSendLock(t)
    <2>1. Owns(sendQueue, t) /\ UNCHANGED loop
      BY <1>8 DEF GetSendLock
    <2>2. ASSUME NEW place \in {"response", "done", "failed"}, at' = [at EXCEPT ![t] = place],
                 sendQueue' = Tail(sendQueue)
          PROVE  SendLockOK'
      <3>1. ~SenderHolds(t)'
        BY <1>1, <2>1, <2>2 DEF Places
      <3> QED
        BY <1>1, <2>1, <2>2, <3>1, SendLockStep DEF Places
    <2>3. CASE at' = [at EXCEPT ![t] = "drain"] /\ sendQueue' = <<t>> \o Tail(sendQueue)
      <3>1. SenderHolds(t)'
        BY <1>1, <2>1, <2>3 DEF Places
      <3> QED
        BY <1>1, <2>1, <2>3, <3>1, SendLockStep DEF Places
    <2> QED
      BY <1>8, <2>2, <2>3 DEF GetSendLock, Transmit, SentAlready
  <1>9. CASE Drained(t)
    <2>1. Owns(sendQueue, t) /\ UNCHANGED loop /\ sendQueue' = Tail(sendQueue)
      BY <1>3, <1>9 DEF Drained
    <2>2. PICK place \in {"response", "done", "failed"} : at' = [at EXCEPT ![t] = place]
      BY <1>9 DEF Drained, SentAlready
    <2>3. ~SenderHolds(t)'
      BY <1>1, <2>1, <2>2 DEF Places
    <2> QED
      BY <1>1, <2>1, <2>2, <2>3, SendLockStep DEF Places
  <1>10. CASE Return(t)
    BY <1>2, <1>10 DEF Return, lockVars, Places
  <1> QED
    BY <1>4, <1>5, <1>6, <1>7, <1>8, <1>9, <1>10 DEF CallerSteps

LEMMA LoopAtSendLock ==
  ASSUME NEW c \in Connections, UNCHANGED at, loop \in [Connections -> LoopPlaces],
         NEW place \in LoopPlaces, loop' = [loop EXCEPT ![c] = place]
  PROVE  /\ \A u \in Callers \cup Connections : u # c =>
              (SenderAwaits(u) <=> SenderAwaits(u)') /\ (SenderHolds(u) <=> SenderHolds(u)')
         /\ SenderAwaits(c) <=> loop[c] = "send lock"
         /\ SenderHolds(c) <=> loop[c] = "drain"
         /\ SenderAwaits(c)' <=> place = "send lock"
         /\ SenderHolds(c)' <=> place = "drain"
  <1>1. c \notin Callers
    BY Apart
  <1>2. loop'[c] = place /\ \A d \in Connections : d # c => loop'[d] = loop[d]
    OBVIOUS
  <1> QED
    BY <1>1, <1>2 DEF SenderAwaits, SenderHolds

LEMMA OthersKeepSendLock ==
  ASSUME SendLockOK, UNCHANGED <<at, loop, sendQueue>>
  PROVE  SendLockOK'
  BY DEF SendLockOK, SendWaiting, SendHolding, Disciplined, Owns

LEMMA LoopsKeepSendLock ==
  ASSUME SendLockOK, ConnectionTypeOK, NEW c \in Connections, LoopSteps(c)
  PROVE  SendLockOK'
  <1>1. at' = at
    BY DEF LoopSteps, LoopStarts, Receive, HandlerReturns, LoopGetsSendLock, LoopDrained, ReadsEnd
  <1>2. loop \in [Connections -> LoopPlaces]
    BY DEF ConnectionTypeOK
  <1>3. ASSUME loop[c] \notin {"send lock", "drain"}, NEW place \in LoopPlaces \ {"send lock", "drain"},
               loop' = [loop EXCEPT ![c] = place], UNCHANGED sendQueue
        PROVE  SendLockOK'
    <2>1. ~SenderAwaits(c) /\ ~SenderHolds(c) /\ ~SenderHolds(c)'
      BY <1>1, <1>2, <1>3, LoopAtSendLock
    <2> QED
      BY <1>1, <1>2, <1>3, <2>1, LoopAtSendLock, SendLockStep
  <1>4. ASSUME Owns(sendQueue, c), sendQueue' = Tail(sendQueue), NEW place \in {"reading", "ended"},
               loop' = [loop EXCEPT ![c] = place]
        PROVE  SendLockOK'
    <2>1. ~SenderHolds(c)' /\ place \in LoopPlaces
      BY <1>1, <1>2, <1>4, LoopAtSendLock DEF LoopPlaces
    <2> QED
      BY <1>1, <1>2, <1>4, <2>1, LoopAtSendLock, SendLockStep
  <1>5. CASE LoopStarts(c) \/ HandlerReturns(c)
    <2>1. PICK place \in {"reading", "ended"} : loop' = [loop EXCEPT ![c] = place]
      BY <1>5 DEF LoopStarts, HandlerReturns
    <2> QED
      BY <1>3, <1>5, <2>1 DEF LoopStarts, HandlerReturns, lockVars, LoopPlaces
  <1>6. CASE Receive(c)
    <2>1. loop[c] = "reading"
      BY <1>6 DEF Receive
    <2>2. CASE UNCHANGED <<loop, sendQueue>>
      BY <1>1, <2>2, OthersKeepSendLock
    <2>3. ASSUME NEW place \in {"handler", "ended"}, loop' = [loop EXCEPT ![c] = place], UNCHANGED sendQueue
          PROVE  SendLockOK'
      BY <1>3, <2>1, <2>3 DEF LoopPlaces
    <2>4. CASE loop' = [loop EXCEPT ![c] = "drain"] /\ sendQueue = <<>> /\ sendQueue' = <<c>>
      <3>1. SenderHolds(c)'
        BY <1>1, <1>2, <2>4, LoopAtSendLock DEF LoopPlaces
      <3> QED
        BY <1>1, <1>2, <2>4, <3>1, LoopAtSendLock, SendLockStep DEF LoopPlaces
    <2>5. CASE loop' = [loop EXCEPT ![c] = "send lock"] /\ sendQueue' = Append(sendQueue, c)
      <3>1. ~SenderAwaits(c) /\ ~SenderHolds(c) /\ SenderAwaits(c)' /\ ~SenderHolds(c)'
        BY <1>1, <1>2, <2>1, <2>5, LoopAtSendLock DEF LoopPlaces
      <3> QED
        BY <1>1, <1>2, <2>5, <3>1, LoopAtSendLock, SendLockStep DEF LoopPlaces
    <2> QED
      BY <1>6, <2>2, <2>3, <2>4, <2>5 DEF Receive, HandleResponse, LoopSends, EndLoop
  <1>7. CASE LoopGetsSendLock(c)
    <2>1. Owns(sendQueue, c)
      BY <1>7 DEF LoopGetsSendLock
    <2>2. CASE loop' = [loop EXCEPT ![c] = "drain"] /\ UNCHANGED sendQueue
      <3>1. SenderHolds(c)'
        BY <1>1, <1>2, <2>2, LoopAtSendLock DEF LoopPlaces
      <3> QED
        BY <1>1, <1>2, <2>1, <2>2, <3>1, LoopAtSendLock, SendLockStep DEF LoopPlaces
    <2> QED
      BY <1>4, <1>7, <2>1, <2>2 DEF LoopGetsSendLock, EndLoop
  <1>8. CASE LoopDrained(c)
    <2>1. loop[c] = "drain" => Owns(sendQueue, c)
      BY DEF SendLockOK, Disciplined, SendHolding
    <2> QED
      BY <1>4, <1>8, <2>1 DEF LoopDrained, EndLoop
  <1>9. CASE ReadsEnd(c)
    BY <1>3, <1>9 DEF ReadsEnd, EndLoop, lockVars, LoopPlaces
  <1> QED
    BY <1>5, <1>6, <1>7, <1>8, <1>9 DEF LoopSteps

LEMMA CancelKeepsSendLock ==
  ASSUME NEW c \in Connections \cup {None}, Cancel(c), SendLockOK, ConnectionTypeOK, UNCHANGED at
  PROVE  SendLockOK'
  <1>1. CASE UNCHANGED <<loop, sendQueue>>
    BY <1>1, OthersKeepSendLock
  <1>2. CASE c # None
    <2>1. PICK place \in {"ended", "reading"} : loop' = [loop EXCEPT ![c] = place]
      BY <1>2 DEF Cancel, CancelledAt
    <2>2. \/ (\A i \in 1..Len(sendQueue) : sendQueue[i] # c) /\ sendQueue' = sendQueue
          \/ Leaves(sendQueue, c, sendQueue')
      BY <1>2 DEF Cancel, Leaves
    <2>3. loop \in [Connections -> LoopPlaces] /\ place \in LoopPlaces /\ c \in Connections
      BY <1>2 DEF ConnectionTypeOK, LoopPlaces
    <2>4. ~SenderHolds(c)'
      BY <2>1, <2>3, LoopAtSendLock
    <2> QED
      BY <2>1, <2>2, <2>3, <2>4, LoopAtSendLock, SendLockStep
  <1> QED
    BY <1>1, <1>2 DEF Cancel

LEMMA CloserKeepsSendLock ==
  ASSUME SendLockOK, ConnectionTypeOK, Close \/ CloserSteps
  PROVE  SendLockOK'
  <1>1. at' = at
    BY DEF Close, CloserSteps, CloserGetsLock, TakeOver, WebsocketCloses, FinishClose
  <1>2. /\ receiver \in Connections \cup {None}
        /\ closer.receiver \in Connections \cup {None}
    BY DEF ConnectionTypeOK
  <1>3. CASE UNCHANGED <<loop, sendQueue>>
    BY <1>1, <1>3, OthersKeepSendLock
  <1>4. ASSUME NEW c \in Connections \cup {None}, Cancel(c)
        PROVE  SendLockOK'
    BY <1>1, <1>4, CancelKeepsSendLock
  <1> QED
    BY <1>2, <1>3, <1>4 DEF Close, CloserSteps, CloserGetsLock, TakeOver, WebsocketCloses, FinishClose

-----------------------------------------------------------------------------
(* Connections, their numbers and their loops.                             *)
Named(c) == c = None \/ (c \in Connections /\ conn[c] # "none")

LEMMA NumberedMeans ==
  ASSUME ConnectionTypeOK, ConnectionsAreNumbered
  PROVE  Named(websocket) /\ Named(receiver) /\ Named(closer.websocket) /\ Named(closer.receiver)
  <1>1. /\ websocket \in Connections \cup {None} /\ receiver \in Connections \cup {None}
        /\ closer.websocket \in Connections \cup {None} /\ closer.receiver \in Connections \cup {None}
    BY DEF ConnectionTypeOK
  <1> QED
    BY <1>1 DEF ConnectionsAreNumbered, Named

LEMMA ConnectionsStayNumbered ==
  ASSUME ConnectionTypeOK, ConnectionsAreNumbered,
         \A c \in Connections : conn'[c] = "none" <=> conn[c] = "none",
         \A c \in Connections : loop'[c] = "none" <=> loop[c] = "none",
         websocket' \in {websocket, None}, receiver' \in {receiver, None},
         closer'.websocket \in {closer.websocket, websocket, None},
         closer'.receiver \in {closer.receiver, receiver, None}
  PROVE  ConnectionsAreNumbered'
  <1>1. \A c \in {websocket, receiver, closer.websocket, closer.receiver} :
          c # None => c \in Connections /\ conn[c] # "none"
    BY NumberedMeans DEF Named
  <1>2. \A c \in {websocket', receiver', closer'.websocket, closer'.receiver} :
          c # None => conn'[c] # "none"
    BY <1>1
  <1>3. PICK n \in 0..MaxConnections : \A c \in Connections : conn[c] # "none" <=> c <= n
    BY DEF ConnectionsAreNumbered
  <1>4. \A c \in Connections : conn'[c] # "none" <=> c <= n
    BY <1>3
  <1>5. \A c \in Connections : loop'[c] = "none" <=> conn'[c] = "none"
    BY DEF ConnectionsAreNumbered
  <1> QED
    BY <1>2, <1>4, <1>5 DEF ConnectionsAreNumbered

(* Steps of callers that make no connection.                               *)
LEMMA CallerKeepsConnections ==
  ASSUME ConnectionsOK, UNCHANGED <<websocket, receiver, loop, closer, conn, told>>,
         \A u \in Callers : at'[u] = "handshake" => at[u] = "handshake" \/ websocket = None
  PROVE  ConnectionsOK'
  <1>1. ConnectionTypeOK'
    BY DEF ConnectionsOK, ConnectionTypeOK
  <1>2. ConnectionsAreNumbered'
    BY DEF ConnectionsOK, ConnectionsAreNumbered
  <1>3. OneLoopLives'
    BY DEF ConnectionsOK, OneLoopLives, Alive
  <1> QED
    BY <1>1, <1>2, <1>3 DEF ConnectionsOK

(* A new connection: while a caller makes it nobody uses or closes another. *)
LEMMA HandshakeKeepsConnections ==
  ASSUME ConnectionsOK, ConnectLockOK, at \in [Callers -> Places],
         NEW t \in Callers, HandshakeSucceeds(t)
  PROVE  ConnectionsOK'
  <1>1. ConnectionTypeOK /\ ConnectionsAreNumbered /\ OneLoopLives
    BY DEF ConnectionsOK
  <1>2. PICK c \in Connections :
          /\ c = Made + 1 /\ conn[c] = "none" /\ websocket' = c /\ receiver' = c
          /\ conn' = [conn EXCEPT ![c] = "open"] /\ loop' = [loop EXCEPT ![c] = "scheduled"]
    BY <1>1, NewConnection DEF HandshakeSucceeds
  <1>3. at[t] = "handshake" /\ Send(t) /\ closer' = closer /\ told' = told
    BY DEF HandshakeSucceeds
  <1>4. /\ loop \in [Connections -> LoopPlaces]
        /\ conn \in [Connections -> {"none", "open", "closed", "lost"}]
        /\ closer.at \in {"idle", "connect lock", "closing", "joining", "done"}
    BY <1>1 DEF ConnectionTypeOK
  <1>5. /\ conn'[c] = "open" /\ loop'[c] = "scheduled" /\ c # None
        /\ \A d \in Connections : d # c => conn'[d] = conn[d] /\ loop'[d] = loop[d]
    BY <1>2, <1>4, Apart
  <1>6. ConnectionTypeOK'
    BY <1>1, <1>2, <1>3 DEF ConnectionTypeOK, LoopPlaces
  <1>7. ConnectionsAreNumbered'
    <2>1. \A d \in Connections : conn'[d] # "none" <=> d <= Made + 1
      <3>1. \A d \in Connections : d \in Int /\ (conn[d] # "none" <=> d <= Made)
        BY <1>1, Apart, MadeSoFar
      <3>2. Made \in Int
        BY <1>1, MadeSoFar
      <3> QED
        BY <1>2, <1>5, <3>1, <3>2
    <2>2. Made + 1 \in 0..MaxConnections
      BY <1>2 DEF Connections
    <2>3. \A d \in Connections : loop'[d] = "none" <=> conn'[d] = "none"
      BY <1>1, <1>5 DEF ConnectionsAreNumbered
    <2>4. \A d \in {websocket', receiver', closer'.websocket, closer'.receiver} :
            d # None => conn'[d] # "none"
      <3>1. Named(closer.websocket) /\ Named(closer.receiver)
        BY <1>1, NumberedMeans
      <3> QED
        BY <1>2, <1>3, <1>5, <3>1 DEF Named
    <2>5. PICK n \in 0..MaxConnections : n = Made + 1
      BY <2>2
    <2>6. \A d \in Connections : conn'[d] # "none" <=> d <= n
      BY <2>1, <2>5
    <2> QED
      BY <2>3, <2>4, <2>6 DEF ConnectionsAreNumbered
  <1>8. OneLoopLives'
    <2>1. \A p \in ConnectHolding : p = t
      BY <1>3 DEF ConnectLockOK, Disciplined, ConnectHolding, Owns
    <2>2. \A u \in Callers : at[u] = "handshake" => u = t
      BY <2>1 DEF ConnectHolding
    <2>3. closer.at \notin HasConnectLock
      BY <2>1, Apart DEF ConnectHolding
    <2>4. websocket = None
      BY <1>1, <1>3 DEF OneLoopLives
    <2>5. \A d \in Connections : ~Alive(d)
      BY <1>1, <2>3, <2>4, Apart DEF OneLoopLives
    <2>6. \A d \in Connections : d # c => ~Alive(d)'
      BY <1>5, <2>5 DEF Alive
    <2>7. Alive(c)'
      BY <1>5 DEF Alive
    <2>8. \A u \in Callers : at'[u] # "handshake"
      BY <1>3, <2>2, SendMoves
    <2> QED
      BY <1>2, <1>3, <1>5, <2>3, <2>6, <2>7, <2>8 DEF OneLoopLives, HasConnectLock, Alive
  <1> QED
    BY <1>6, <1>7, <1>8 DEF ConnectionsOK

LEMMA CallersKeepConnections ==
  ASSUME ConnectionsOK, ConnectLockOK, at \in [Callers -> Places],
         NEW t \in Callers, Call(t) \/ CallerSteps(t)
  PROVE  ConnectionsOK'
  <1>1. ASSUME Send(t)
        PROVE  \A u \in Callers : at'[u] = "handshake" => at[u] = "handshake"
    BY <1>1, SendMoves
  <1>2. ASSUME NEW place \in Places \ {"handshake"}, at' = [at EXCEPT ![t] = place]
        PROVE  \A u \in Callers : at'[u] = "handshake" => at[u] = "handshake"
    BY <1>2
  <1>3. ASSUME NEW waiting, Connect(t, waiting)
        PROVE  ConnectionsOK'
    <2>1. CASE Send(t)
      BY <1>1, <1>3, <2>1, CallerKeepsConnections DEF Connect
    <2>2. CASE websocket = None
      BY <1>3, <2>2, CallerKeepsConnections DEF Connect
    <2> QED
      BY <1>3, <2>1, <2>2 DEF Connect
  <1>4. CASE Call(t)
    <2>1. CASE Connect(t, <<>>)
      BY <1>3, <2>1
    <2>2. CASE /\ at' = [at EXCEPT ![t] = "connect lock"]
               /\ UNCHANGED <<websocket, receiver, loop, closer, conn, codexVars>>
      BY <1>2, <2>2, CallerKeepsConnections DEF codexVars, Places
    <2> QED
      BY <1>4, <2>1, <2>2 DEF Call
  <1>5. CASE GetConnectLock(t)
    <2>1. PICK waiting : waiting = Tail(connectQueue)
      OBVIOUS
    <2>2. Connect(t, waiting)
      BY <1>5, <2>1 DEF GetConnectLock
    <2> QED
      BY <1>3, <2>2
  <1>6. CASE HandshakeSucceeds(t)
    BY <1>6, HandshakeKeepsConnections
  <1>7. CASE HandshakeFails(t)
    BY <1>2, <1>7, CallerKeepsConnections DEF HandshakeFails, codexVars, Places
  <1>8. CASE GetSendLock(t)
    <2>1. PICK place \in {"failed", "response", "done", "drain"} : at' = [at EXCEPT ![t] = place]
      BY <1>8 DEF GetSendLock, Transmit, SentAlready
    <2> QED
      BY <1>2, <1>8, <2>1, CallerKeepsConnections DEF GetSendLock, Places
  <1>9. CASE Drained(t)
    <2>1. PICK place \in {"failed", "response", "done"} : at' = [at EXCEPT ![t] = place]
      BY <1>9 DEF Drained, SentAlready
    <2> QED
      BY <1>2, <1>9, <2>1, CallerKeepsConnections DEF Drained, codexVars, Places
  <1>10. CASE Return(t)
    <2>1. PICK place \in {"failed", "done"} : at' = [at EXCEPT ![t] = place]
      BY <1>10 DEF Return
    <2> QED
      BY <1>2, <1>10, <2>1, CallerKeepsConnections DEF Return, codexVars, Places
  <1> QED
    BY <1>4, <1>5, <1>6, <1>7, <1>8, <1>9, <1>10 DEF CallerSteps

(* Steps of the receive loops.                                             *)
LEMMA LoopGoesOn ==
  ASSUME ConnectionsOK, NEW c \in Connections, UNCHANGED <<websocket, receiver, closer, conn, told, at>>,
         Alive(c), NEW place \in LoopPlaces \ {"none"}, loop' = [loop EXCEPT ![c] = place],
         c # websocket \/ place # "ended"
  PROVE  ConnectionsOK'
  <1>1. ConnectionTypeOK /\ ConnectionsAreNumbered /\ OneLoopLives
    BY DEF ConnectionsOK
  <1>2. loop \in [Connections -> LoopPlaces]
    BY <1>1 DEF ConnectionTypeOK
  <1>3. loop'[c] = place /\ \A d \in Connections : d # c => loop'[d] = loop[d]
    BY <1>2
  <1>4. ConnectionTypeOK'
    BY <1>1, <1>2 DEF ConnectionTypeOK
  <1>5. ConnectionsAreNumbered'
    <2>1. \A d \in Connections : loop'[d] = "none" <=> loop[d] = "none"
      BY <1>3 DEF Alive
    <2>2. conn' = conn /\ closer' = closer
      OBVIOUS
    <2> QED
      BY <1>1, <2>1, <2>2, ConnectionsStayNumbered
  <1>6. \A d \in Connections : Alive(d)' => Alive(d)
    BY <1>3 DEF Alive
  <1>7. websocket # None => loop'[websocket] \notin {"none", "ended"}
    <2>1. websocket # None => Alive(websocket) /\ websocket \in Connections
      BY <1>1 DEF OneLoopLives, ConnectionTypeOK
    <2> QED
      BY <1>3, <2>1 DEF Alive
  <1>8. OneLoopLives'
    <2>1. /\ websocket # None => receiver = websocket
          /\ \A d \in Connections : Alive(d) /\ d # websocket =>
               closer.at \in HasConnectLock /\ closer.receiver = d
          /\ closer.at \in HasConnectLock => websocket = None
          /\ closer.at = "closing" => closer.websocket # None
          /\ \A t \in Callers : at[t] = "handshake" => websocket = None
      BY <1>1 DEF OneLoopLives
    <2>2. \A d \in Connections : Alive(d)' /\ d # websocket' =>
            closer'.at \in HasConnectLock /\ closer'.receiver = d
      BY <1>6, <2>1
    <2>3. websocket' # None => loop'[websocket'] \notin {"none", "ended"} /\ receiver' = websocket'
      BY <1>7, <2>1
    <2> QED
      BY <2>1, <2>2, <2>3 DEF OneLoopLives, Alive
  <1> QED
    BY <1>4, <1>5, <1>8 DEF ConnectionsOK

LEMMA LoopComesToAnEnd ==
  ASSUME ConnectionsOK, NEW c \in Connections, UNCHANGED <<receiver, closer, conn, told, at>>,
         Alive(c), EndLoop(c)
  PROVE  ConnectionsOK'
  <1>1. ConnectionTypeOK /\ ConnectionsAreNumbered /\ OneLoopLives
    BY DEF ConnectionsOK
  <1>2. loop \in [Connections -> LoopPlaces]
    BY <1>1 DEF ConnectionTypeOK
  <1>3. websocket' = None /\ loop'[c] = "ended" /\ \A d \in Connections : d # c => loop'[d] = loop[d]
    BY <1>2 DEF EndLoop
  <1>4. ConnectionTypeOK'
    BY <1>1, <1>2 DEF ConnectionTypeOK, EndLoop, LoopPlaces
  <1>5. ConnectionsAreNumbered'
    <2>1. \A d \in Connections : loop'[d] = "none" <=> loop[d] = "none"
      BY <1>3 DEF Alive
    <2>2. conn' = conn /\ closer' = closer
      OBVIOUS
    <2> QED
      BY <1>1, <1>3, <2>1, <2>2, ConnectionsStayNumbered
  <1>6. ASSUME NEW d \in Connections, Alive(d)'
        PROVE  closer.at \in HasConnectLock /\ closer.receiver = d
    <2>1. d # c /\ Alive(d)
      BY <1>3, <1>6 DEF Alive
    <2>2. d # websocket
      BY <1>1, <2>1, Apart DEF OneLoopLives
    <2> QED
      BY <1>1, <2>1, <2>2 DEF OneLoopLives
  <1>7. OneLoopLives'
    BY <1>1, <1>3, <1>6 DEF OneLoopLives
  <1> QED
    BY <1>4, <1>5, <1>7 DEF ConnectionsOK

LEMMA LoopsKeepConnections ==
  ASSUME ConnectionsOK, NEW c \in Connections, LoopSteps(c)
  PROVE  ConnectionsOK'
  <1>1. UNCHANGED <<receiver, closer, conn, told, at>>
    BY DEF LoopSteps, LoopStarts, Receive, HandlerReturns, LoopGetsSendLock, LoopDrained, ReadsEnd, codexVars
  <1>2. Alive(c)
    BY DEF LoopSteps, LoopStarts, Receive, HandlerReturns, LoopGetsSendLock, LoopDrained, ReadsEnd, Alive
  <1>3. CASE UNCHANGED <<loop, websocket>>
    BY <1>1, <1>3, CallerKeepsConnections
  <1>4. CASE EndLoop(c)
    BY <1>1, <1>2, <1>4, LoopComesToAnEnd
  <1>5. ASSUME NEW place \in {"reading", "handler", "send lock", "drain"},
               loop' = [loop EXCEPT ![c] = place], websocket' = websocket
        PROVE  ConnectionsOK'
    BY <1>1, <1>2, <1>5, LoopGoesOn DEF LoopPlaces
  <1>6. CASE websocket = None /\ websocket' = websocket /\ loop' = [loop EXCEPT ![c] = "ended"]
    <2>1. c # websocket
      BY <1>6, Apart
    <2> QED
      BY <1>1, <1>2, <1>6, <2>1, LoopGoesOn DEF LoopPlaces
  <1>7. CASE LoopStarts(c)
    BY <1>5, <1>6, <1>7 DEF LoopStarts
  <1>8. CASE Receive(c)
    BY <1>3, <1>4, <1>5, <1>8 DEF Receive, HandleResponse, LoopSends
  <1>9. CASE HandlerReturns(c)
    BY <1>5, <1>9 DEF HandlerReturns
  <1>10. CASE LoopGetsSendLock(c)
    BY <1>4, <1>5, <1>10 DEF LoopGetsSendLock
  <1>11. CASE LoopDrained(c)
    BY <1>4, <1>5, <1>11 DEF LoopDrained
  <1>12. CASE ReadsEnd(c)
    BY <1>4, <1>12 DEF ReadsEnd
  <1> QED
    BY <1>7, <1>8, <1>9, <1>10, <1>11, <1>12 DEF LoopSteps

(* Steps of close().                                                       *)
LEMMA CancelMoves ==
  ASSUME ConnectionTypeOK, NEW c, Named(c), ConnectionsAreNumbered, Cancel(c)
  PROVE  /\ loop' \in [Connections -> LoopPlaces]
         /\ \A d \in Connections : loop'[d] = "none" <=> loop[d] = "none"
         /\ \A d \in Connections : loop'[d] \notin {"none", "ended"} => loop[d] \notin {"none", "ended"}
  <1>1. loop \in [Connections -> LoopPlaces]
    BY DEF ConnectionTypeOK
  <1>2. CASE UNCHANGED loop
    BY <1>1, <1>2
  <1>3. CASE c # None
    <2>1. c \in Connections /\ loop[c] # "none"
      BY <1>3 DEF Named, ConnectionsAreNumbered
    <2>2. PICK place : loop' = [loop EXCEPT ![c] = place] /\ place \in CancelledAt(c)
      BY <1>3 DEF Cancel
    <2>3. place = "ended" \/ (place = "reading" /\ loop[c] = "handler")
      BY <2>2 DEF CancelledAt
    <2> QED
      BY <1>1, <2>1, <2>2, <2>3 DEF LoopPlaces
  <1> QED
    BY <1>2, <1>3 DEF Cancel

LEMMA TakeOverKeepsConnections ==
  ASSUME ConnectionsOK, closer.at \notin HasConnectLock, NEW waiting, TakeOver(waiting)
  PROVE  ConnectionsOK'
  <1>1. ConnectionTypeOK /\ ConnectionsAreNumbered /\ OneLoopLives
    BY DEF ConnectionsOK
  <1>2. websocket' = None /\ receiver' = None /\ conn' = conn /\ told' = told /\ at' = at
    BY DEF TakeOver, codexVars
  <1>3. Named(receiver)
    BY <1>1, NumberedMeans
  <1>4. \A d \in Connections : Alive(d) => d = websocket /\ d = receiver
    BY <1>1, Apart DEF OneLoopLives
  <1>5. CASE /\ websocket # None /\ UNCHANGED loop
             /\ closer' = [at |-> "closing", websocket |-> websocket, receiver |-> receiver]
    <2>1. ConnectionTypeOK'
      BY <1>1, <1>2, <1>5 DEF ConnectionTypeOK
    <2>2. ConnectionsAreNumbered'
      BY <1>1, <1>2, <1>5, ConnectionsStayNumbered
    <2>3. closer'.receiver = receiver /\ closer'.websocket = websocket /\ closer'.at = "closing"
      BY <1>5
    <2>4. OneLoopLives'
      BY <1>2, <1>4, <1>5, <2>3 DEF OneLoopLives, HasConnectLock, Alive
    <2> QED
      BY <2>1, <2>2, <2>4 DEF ConnectionsOK
  <1>6. CASE /\ websocket = None /\ Cancel(receiver)
             /\ closer' = [at |-> "joining", websocket |-> None, receiver |-> receiver]
    <2>1. /\ loop' \in [Connections -> LoopPlaces]
          /\ \A d \in Connections : loop'[d] = "none" <=> loop[d] = "none"
          /\ \A d \in Connections : loop'[d] \notin {"none", "ended"} => loop[d] \notin {"none", "ended"}
      BY <1>1, <1>3, <1>6, CancelMoves
    <2>2. closer'.receiver = receiver /\ closer'.websocket = None /\ closer'.at = "joining"
      BY <1>6
    <2>3. ConnectionTypeOK'
      BY <1>1, <1>2, <1>6, <2>1 DEF ConnectionTypeOK
    <2>4. ConnectionsAreNumbered'
      BY <1>1, <1>2, <2>1, <2>2, ConnectionsStayNumbered
    <2>5. \A d \in Connections : ~Alive(d)'
      BY <1>4, <1>6, <2>1, Apart DEF Alive
    <2>6. OneLoopLives'
      BY <1>2, <2>2, <2>5 DEF OneLoopLives
    <2> QED
      BY <2>3, <2>4, <2>6 DEF ConnectionsOK
  <1> QED
    BY <1>5, <1>6 DEF TakeOver

LEMMA CloserKeepsConnections ==
  ASSUME ConnectionsOK, Close \/ CloserSteps
  PROVE  ConnectionsOK'
  <1>1. ConnectionTypeOK /\ ConnectionsAreNumbered /\ OneLoopLives
    BY DEF ConnectionsOK
  <1>2. /\ closer \in [at : {"idle", "connect lock", "closing", "joining", "done"},
                       websocket : Connections \cup {None}, receiver : Connections \cup {None}]
        /\ conn \in [Connections -> {"none", "open", "closed", "lost"}]
    BY <1>1 DEF ConnectionTypeOK
  <1>3. CASE Close
    <2>1. closer.at = "idle"
      BY <1>3 DEF Close
    <2>2. CASE TakeOver(<<>>)
      BY <2>1, <2>2, TakeOverKeepsConnections DEF HasConnectLock
    <2>3. CASE /\ closer' = [closer EXCEPT !.at = "connect lock"]
               /\ UNCHANGED <<websocket, receiver, at, loop, conn, codexVars>>
      <3>1. /\ closer'.at = "connect lock" /\ closer'.websocket = closer.websocket
            /\ closer'.receiver = closer.receiver
            /\ closer' \in [at : {"idle", "connect lock", "closing", "joining", "done"},
                            websocket : Connections \cup {None}, receiver : Connections \cup {None}]
        BY <1>2, <2>3
      <3>2. ConnectionTypeOK'
        BY <1>1, <2>3, <3>1 DEF ConnectionTypeOK, codexVars
      <3>3. ConnectionsAreNumbered'
        BY <1>1, <2>3, <3>1, ConnectionsStayNumbered
      <3>4. OneLoopLives'
        BY <1>1, <2>1, <2>3, <3>1 DEF OneLoopLives, HasConnectLock, Alive
      <3> QED
        BY <3>2, <3>3, <3>4 DEF ConnectionsOK
    <2> QED
      BY <1>3, <2>2, <2>3 DEF Close
  <1>4. CASE CloserGetsLock
    <2>1. PICK waiting : waiting = Tail(connectQueue)
      OBVIOUS
    <2>2. closer.at \notin HasConnectLock /\ TakeOver(waiting)
      BY <1>4, <2>1 DEF CloserGetsLock, HasConnectLock
    <2> QED
      BY <2>2, TakeOverKeepsConnections
  <1>5. CASE WebsocketCloses
    <2>1. /\ closer'.at = "joining" /\ closer'.websocket = closer.websocket
          /\ closer'.receiver = closer.receiver /\ closer.at = "closing"
          /\ closer' \in [at : {"idle", "connect lock", "closing", "joining", "done"},
                          websocket : Connections \cup {None}, receiver : Connections \cup {None}]
      BY <1>2, <1>5 DEF WebsocketCloses
    <2>2. /\ conn' \in [Connections -> {"none", "open", "closed", "lost"}]
          /\ \A d \in Connections : conn'[d] = "none" <=> conn[d] = "none"
      <3>1. closer.websocket \in Connections
        BY <1>1, <1>2, <2>1 DEF OneLoopLives
      <3> QED
        BY <1>2, <1>5, <3>1 DEF WebsocketCloses, EndConnection
    <2>3. UNCHANGED <<websocket, receiver, told, at>> /\ Cancel(closer.receiver)
      BY <1>5 DEF WebsocketCloses
    <2>4. Named(closer.receiver)
      BY <1>1, NumberedMeans
    <2>5. /\ loop' \in [Connections -> LoopPlaces]
          /\ \A d \in Connections : loop'[d] = "none" <=> loop[d] = "none"
          /\ \A d \in Connections : loop'[d] \notin {"none", "ended"} => loop[d] \notin {"none", "ended"}
      BY <1>1, <2>3, <2>4, CancelMoves
    <2>6. ConnectionTypeOK'
      BY <1>1, <2>1, <2>2, <2>3, <2>5 DEF ConnectionTypeOK
    <2>7. ConnectionsAreNumbered'
      BY <1>1, <2>1, <2>2, <2>3, <2>5, ConnectionsStayNumbered
    <2>8. OneLoopLives'
      BY <1>1, <2>1, <2>3, <2>5 DEF OneLoopLives, HasConnectLock, Alive
    <2> QED
      BY <2>6, <2>7, <2>8 DEF ConnectionsOK
  <1>6. CASE FinishClose
    <2>1. /\ closer'.at = "done" /\ closer'.websocket = closer.websocket
          /\ closer'.receiver = closer.receiver /\ closer.at = "joining" /\ ReceiverEnded
          /\ closer' \in [at : {"idle", "connect lock", "closing", "joining", "done"},
                          websocket : Connections \cup {None}, receiver : Connections \cup {None}]
      BY <1>2, <1>6 DEF FinishClose
    <2>2. UNCHANGED <<websocket, receiver, told, at, loop, conn>>
      BY <1>6 DEF FinishClose, codexVars
    <2>3. ConnectionTypeOK'
      BY <1>1, <2>1, <2>2 DEF ConnectionTypeOK
    <2>4. ConnectionsAreNumbered'
      BY <1>1, <2>1, <2>2, ConnectionsStayNumbered
    <2>5. websocket = None
      BY <1>1, <2>1 DEF OneLoopLives, HasConnectLock
    <2>6. \A d \in Connections : ~Alive(d)
      BY <1>1, <2>1, <2>5, Apart DEF OneLoopLives, Alive, ReceiverEnded
    <2>7. OneLoopLives'
      BY <2>1, <2>2, <2>5, <2>6 DEF OneLoopLives, HasConnectLock, Alive
    <2> QED
      BY <2>3, <2>4, <2>7 DEF ConnectionsOK
  <1> QED
    BY <1>3, <1>4, <1>5, <1>6 DEF CloserSteps

LEMMA CodexKeepsConnections ==
  ASSUME ConnectionsOK, CodexSteps
  PROVE  ConnectionsOK'
  <1>1. ConnectionTypeOK /\ ConnectionsAreNumbered /\ OneLoopLives
    BY DEF ConnectionsOK
  <1>2. UNCHANGED <<websocket, receiver, loop, closer, at>>
    BY DEF CodexSteps, CodexAnswers, CodexSpeaks, ConnectionEnds
  <1>3. conn \in [Connections -> {"none", "open", "closed", "lost"}] /\ told \in Nat
    BY <1>1 DEF ConnectionTypeOK
  <1>4. told' \in Nat
    <2>1. told' = told \/ told' = told + 1
      BY DEF CodexSteps, CodexAnswers, CodexSpeaks, ConnectionEnds
    <2> QED
      BY <1>3, <2>1
  <1>5. /\ conn' \in [Connections -> {"none", "open", "closed", "lost"}]
        /\ \A d \in Connections : conn'[d] = "none" <=> conn[d] = "none"
    <2>1. CASE conn' = conn
      BY <1>3, <2>1
    <2>2. ASSUME NEW c \in Connections, NEW how \in {"closed", "lost"}, ConnectionEnds(c, how)
          PROVE  /\ conn' \in [Connections -> {"none", "open", "closed", "lost"}]
                 /\ \A d \in Connections : conn'[d] = "none" <=> conn[d] = "none"
      BY <1>3, <2>2 DEF ConnectionEnds, EndConnection
    <2> QED
      BY <2>1, <2>2 DEF CodexSteps, CodexAnswers, CodexSpeaks
  <1>6. ConnectionTypeOK'
    BY <1>1, <1>2, <1>4, <1>5 DEF ConnectionTypeOK
  <1>7. ConnectionsAreNumbered'
    BY <1>1, <1>2, <1>5, ConnectionsStayNumbered
  <1>8. OneLoopLives'
    BY <1>1, <1>2 DEF OneLoopLives, Alive
  <1> QED
    BY <1>6, <1>7, <1>8 DEF ConnectionsOK

-----------------------------------------------------------------------------
(* Requests that wait are watched, and settled by close().  A caller comes *)
(* to wait on the connection in use alone.                                 *)
SentNow ==
  \A u \in Requesters : Waits(u)' =>
    (Waits(u) /\ sentOn'[u] = sentOn[u]) \/ (websocket' # None /\ sentOn'[u] = websocket')

LEMMA TransmitSendsNow ==
  ASSUME NEW t \in Callers, NEW table, NEW waiting, Transmit(t, table, waiting),
         RequestTypeOK, at[t] \notin {"drain", "response"},
         \A u \in Requesters : u # t => future'[u] = future[u]
  PROVE  SentNow
  <1>1. at \in [Callers -> Places] /\ sentOn \in [Callers -> Connections \cup {None}]
    BY DEF RequestTypeOK
  <1>2. \A u \in Requesters : u \in Callers
    BY Apart
  <1>3. CASE at' = [at EXCEPT ![t] = "failed"] /\ UNCHANGED sentOn
    BY <1>1, <1>2, <1>3 DEF SentNow, Waits
  <1>4. ASSUME WorksNext, sentOn' = [sentOn EXCEPT ![t] = websocket'],
               NEW place, at' = [at EXCEPT ![t] = place]
        PROVE  SentNow
    <2>1. sentOn'[t] = websocket' /\ websocket' # None
      BY <1>1, <1>4 DEF WorksNext
    <2>2. \A u \in Callers : u # t => at'[u] = at[u] /\ sentOn'[u] = sentOn[u]
      BY <1>1, <1>4
    <2> QED
      BY <1>2, <2>1, <2>2 DEF SentNow, Waits
  <1> QED
    BY <1>3, <1>4 DEF Transmit

LEMMA SendSendsNow ==
  ASSUME NEW t \in Callers, Send(t), RequestTypeOK, at[t] \notin {"drain", "response"}
  PROVE  SentNow
  <1>1. /\ at \in [Callers -> Places]
        /\ future \in [Requesters -> {"none", "open", "failed"} \cup Requesters]
    BY DEF RequestTypeOK
  <1>2. \A u \in Requesters : u # t => future'[u] = future[u]
    BY <1>1 DEF Send
  <1>3. CASE at' = [at EXCEPT ![t] = "send lock"] /\ UNCHANGED sentOn
    <2>1. \A u \in Requesters : u \in Callers
      BY Apart
    <2> QED
      BY <1>1, <1>2, <1>3, <2>1 DEF SentNow, Waits
  <1>4. PICK table : table = IF t \in Requesters THEN [pending EXCEPT ![NextId] = t] ELSE pending
    OBVIOUS
  <1>5. CASE Transmit(t, table, <<>>)
    BY <1>2, <1>5, TransmitSendsNow
  <1> QED
    BY <1>3, <1>4, <1>5 DEF Send

LEMMA CallersSendNow ==
  ASSUME RequestTypeOK, NEW t \in Callers, Call(t) \/ CallerSteps(t)
  PROVE  SentNow
  <1>1. at \in [Callers -> Places] /\ \A u \in Requesters : u \in Callers
    BY Apart DEF RequestTypeOK
  <1>2. ASSUME UNCHANGED <<future, sentOn>>, NEW place, at' = [at EXCEPT ![t] = place],
               place \in {"drain", "response"} => at[t] \in {"drain", "response"}
        PROVE  SentNow
    BY <1>1, <1>2 DEF SentNow, Waits
  <1>3. CASE Send(t) /\ at[t] \in {"idle", "connect lock", "handshake"}
    BY <1>3, SendSendsNow
  <1>4. CASE Call(t)
    BY <1>2, <1>3, <1>4 DEF Call, Connect, tableVars
  <1>5. CASE GetConnectLock(t)
    BY <1>2, <1>3, <1>5 DEF GetConnectLock, Connect, tableVars
  <1>6. CASE HandshakeSucceeds(t)
    BY <1>3, <1>6 DEF HandshakeSucceeds
  <1>7. CASE HandshakeFails(t)
    BY <1>2, <1>7 DEF HandshakeFails, tableVars
  <1>8. CASE GetSendLock(t)
    <2>1. PICK table, waiting : table = pending /\ waiting = Tail(sendQueue)
      OBVIOUS
    <2>2. Transmit(t, table, waiting) /\ future' = future /\ at[t] = "send lock"
      BY <1>8, <2>1 DEF GetSendLock
    <2> QED
      BY <2>2, TransmitSendsNow
  <1>9. CASE Drained(t)
    BY <1>2, <1>9 DEF Drained
  <1>10. CASE Return(t)
    BY <1>2, <1>10 DEF Return
  <1> QED
    BY <1>4, <1>5, <1>6, <1>7, <1>8, <1>9, <1>10 DEF CallerSteps

LEMMA CallersKeepWatch ==
  ASSUME RequestsOK, ConnectionsOK, ConnectionsOK', SentIsWatched, ClosedIsSettled,
         NEW t \in Callers, Call(t) \/ CallerSteps(t)
  PROVE  SentIsWatched' /\ ClosedIsSettled'
  <1>1. /\ RequestTypeOK /\ ConnectionTypeOK /\ ConnectionsAreNumbered /\ OneLoopLives
        /\ ConnectionTypeOK' /\ OneLoopLives'
    BY DEF RequestsOK, ConnectionsOK
  <1>2. SentNow
    BY <1>1, CallersSendNow
  <1>3. closer' = closer
    BY DEF Call, CallerSteps, Connect, GetConnectLock, HandshakeSucceeds, HandshakeFails, GetSendLock,
           Drained, Return
  <1>4. \/ HandshakeSucceeds(t)
        \/ UNCHANGED <<websocket, loop, conn>>
    BY DEF Call, CallerSteps, Connect, GetConnectLock, HandshakeFails, GetSendLock, Drained, Return
  <1>5. /\ \A c \in Connections \cup {None} : Alive(c) /\ c # None => loop'[c] \notin {"none", "ended"}
        /\ \A c \in Connections : conn[c] = "closed" => conn'[c] = "closed"
        /\ closer.at = "done" /\ websocket' # None => websocket' > closer.receiver
    <2>1. CASE HandshakeSucceeds(t)
      <3>1. PICK c \in Connections :
              /\ c = Made + 1 /\ conn[c] = "none" /\ websocket' = c
              /\ conn' = [conn EXCEPT ![c] = "open"] /\ loop' = [loop EXCEPT ![c] = "scheduled"]
        BY <1>1, <2>1, NewConnection DEF HandshakeSucceeds
      <3>2. /\ loop \in [Connections -> LoopPlaces]
            /\ conn \in [Connections -> {"none", "open", "closed", "lost"}]
        BY <1>1 DEF ConnectionTypeOK
      <3>3. websocket' > closer.receiver
        <4>1. Made \in Nat
          BY <1>1, MadeSoFar
        <4>2. closer.receiver = 0 \/ (closer.receiver \in Nat /\ closer.receiver <= Made)
          <5>1. Named(closer.receiver)
            BY <1>1, NumberedMeans
          <5>2. CASE closer.receiver = None
            BY <5>2 DEF None
          <5>3. CASE closer.receiver \in Connections /\ conn[closer.receiver] # "none"
            BY <1>1, <5>3, Apart, MadeSoFar
          <5> QED
            BY <5>1, <5>2, <5>3 DEF Named
        <4> QED
          BY <3>1, <4>1, <4>2
      <3> QED
        BY <3>1, <3>2, <3>3 DEF Alive
    <2>2. CASE UNCHANGED <<websocket, loop, conn>>
      BY <2>2 DEF Alive, ClosedIsSettled
    <2> QED
      BY <1>4, <2>1, <2>2
  <1>6. websocket' # None => loop'[websocket'] \notin {"none", "ended"}
    BY <1>1 DEF OneLoopLives, Alive
  <1>7. ASSUME NEW u \in Requesters, Waits(u)'
        PROVE  /\ \/ loop'[sentOn'[u]] \notin {"none", "ended"} \/ conn'[sentOn'[u]] = "closed"
                  \/ closer.at \in HasConnectLock
               /\ closer.at = "done" => sentOn'[u] > closer.receiver
    <2>1. CASE Waits(u) /\ sentOn'[u] = sentOn[u]
      <3>1. Alive(sentOn[u]) \/ conn[sentOn[u]] = "closed" \/ closer.at \in HasConnectLock
        BY <2>1 DEF SentIsWatched
      <3>2. sentOn[u] \in Connections
        <4>1. sentOn[u] # None /\ sentOn[u] \in Connections \cup {None}
          BY <1>1, <2>1, Apart DEF RequestsOK, RequestsAdvance, Waits, RequestTypeOK
        <4> QED
          BY <4>1
      <3>3. closer.at = "done" => sentOn[u] > closer.receiver
        BY <2>1 DEF ClosedIsSettled
      <3> QED
        BY <1>5, <2>1, <3>1, <3>2, <3>3, Apart
    <2>2. CASE websocket' # None /\ sentOn'[u] = websocket'
      BY <1>5, <1>6, <2>2
    <2> QED
      BY <1>2, <1>7, <2>1, <2>2 DEF SentNow
  <1> QED
    BY <1>3, <1>5, <1>7 DEF SentIsWatched, ClosedIsSettled, Alive

LEMMA WaitsOn ==
  ASSUME RequestsOK, NEW u \in Requesters, Waits(u)
  PROVE  sentOn[u] \in Connections /\ id[u] \in Ids /\ pending[id[u]] = u
  <1>1. RequestTypeOK /\ RequestsAdvance
    BY DEF RequestsOK
  <1>2. sentOn[u] # None /\ sentOn[u] \in Connections \cup {None}
    BY <1>1, Apart DEF RequestsAdvance, Waits, RequestTypeOK
  <1>3. id[u] # None /\ pending[id[u]] = u /\ id[u] \in Ids \cup {None}
    BY <1>1 DEF RequestsAdvance, Waits, RequestTypeOK
  <1> QED
    BY <1>2, <1>3

(* Whoever waits is registered, so that failing the table ends all waits.  *)
LEMMA NobodyWaits ==
  ASSUME RequestsOK, FailPending, at' = at, NEW u \in Requesters
  PROVE  ~Waits(u)'
  <1>1. future'[u] = IF future[u] = "open" /\ \E i \in Ids : pending[i] = u THEN "failed" ELSE future[u]
    BY DEF FailPending
  <1>2. CASE Waits(u)
    BY <1>1, <1>2, WaitsOn DEF Waits
  <1>3. CASE ~Waits(u)
    BY <1>1, <1>3 DEF Waits
  <1> QED
    BY <1>2, <1>3

(* What a step has to leave alone for those who wait.                      *)
StillWaits == \A u \in Requesters : Waits(u)' => Waits(u) /\ sentOn'[u] = sentOn[u]

LEMMA StaysWatched ==
  ASSUME RequestsOK, SentIsWatched, StillWaits,
         \A c \in Connections : Alive(c) =>
           loop'[c] \notin {"none", "ended"} \/ conn'[c] = "closed" \/ closer'.at \in HasConnectLock,
         \A c \in Connections : conn[c] = "closed" => conn'[c] = "closed",
         closer.at \in HasConnectLock => closer'.at \in HasConnectLock
  PROVE  SentIsWatched'
  <1>1. ASSUME NEW u \in Requesters, Waits(u)'
        PROVE  \/ loop'[sentOn'[u]] \notin {"none", "ended"} \/ conn'[sentOn'[u]] = "closed"
               \/ closer'.at \in HasConnectLock
    <2>1. Waits(u) /\ sentOn'[u] = sentOn[u]
      BY <1>1 DEF StillWaits
    <2>2. sentOn[u] \in Connections
      BY <2>1, WaitsOn
    <2>3. Alive(sentOn[u]) \/ conn[sentOn[u]] = "closed" \/ closer.at \in HasConnectLock
      BY <2>1 DEF SentIsWatched
    <2> QED
      BY <2>1, <2>2, <2>3
  <1> QED
    BY <1>1 DEF SentIsWatched, Alive

LEMMA StaysSettled ==
  ASSUME ClosedIsSettled, StillWaits, websocket' \in {websocket, None},
         closer'.at = "done" => closer' = closer
  PROVE  ClosedIsSettled'
  BY DEF ClosedIsSettled, StillWaits

-----------------------------------------------------------------------------
(* What becomes of futures.                                                *)
Settles(u) ==
  \/ future'[u] = future[u]
  \/ future[u] = "open" /\ future'[u] \in {"failed", u}

LEMMA AnswerSettles ==
  ASSUME RequestsOK, NEW c \in Connections, inbox[c] # <<>>, NEW m, m = Head(inbox[c]),
         m.kind = "response", HandleResponse(c, m)
  PROVE  \A u \in Requesters : Settles(u)
  <1>1. RequestTypeOK
    BY DEF RequestsOK
  <1>2. m = inbox[c][1] /\ 1 \in 1..Len(inbox[c]) /\ m \in Letters
    <2>1. inbox[c] \in Seq(Letters)
      BY <1>1 DEF RequestTypeOK
    <2> QED
      BY <2>1
  <1>0. PICK u \in Requesters : IsAnswerTo(c, m, u)
    BY <1>2, AnswerIsExpected
  <1>3. /\ m.of = u /\ m.id = id[u]
        /\ pending[id[u]] \in {None, u} /\ (pending[id[u]] = u => future[u] = "open")
    BY <1>0 DEF IsAnswerTo
  <1>4. /\ future \in [Requesters -> {"none", "open", "failed"} \cup Requesters]
        /\ None \notin Requesters
    <2>1. None \notin Requesters
      BY Apart
    <2> QED
      BY <1>1, <2>1 DEF RequestTypeOK
  <1>5. CASE pending[id[u]] = u
    <2>1. future' = [future EXCEPT ![u] = u]
      BY <1>3, <1>4, <1>5 DEF HandleResponse
    <2> QED
      BY <1>3, <1>4, <1>5, <2>1 DEF Settles
  <1>6. CASE pending[id[u]] = None
    <2>1. future' = future
      BY <1>3, <1>6 DEF HandleResponse
    <2> QED
      BY <2>1 DEF Settles
  <1> QED
    BY <1>3, <1>5, <1>6

LEMMA LoopsSettle ==
  ASSUME RequestsOK, NEW c \in Connections, LoopSteps(c)
  PROVE  \A u \in Requesters : Settles(u)
  <1>1. CASE FailPending
    BY <1>1 DEF FailPending, Settles
  <1>2. CASE future' = future
    BY <1>2 DEF Settles
  <1>3. CASE Receive(c)
    <2>1. PICK m : m = Head(inbox[c])
      OBVIOUS
    <2>2. CASE m.kind = "response" /\ HandleResponse(c, m)
      BY <1>3, <2>1, <2>2, AnswerSettles DEF Receive
    <2> QED
      BY <1>1, <1>2, <1>3, <2>1, <2>2 DEF Receive, LoopSends
  <1> QED
    BY <1>1, <1>2, <1>3 DEF LoopSteps, LoopStarts, HandlerReturns, LoopGetsSendLock, LoopDrained, ReadsEnd,
       tableVars

LEMMA NamedApart ==
  ASSUME NEW u \in Requesters
  PROVE  u \notin {"none", "open", "failed"}
  OBVIOUS

LEMMA LoopsKeepWatch ==
  ASSUME RequestsOK, ConnectionsOK, SentIsWatched, ClosedIsSettled, NEW c \in Connections, LoopSteps(c)
  PROVE  SentIsWatched' /\ ClosedIsSettled'
  <1>1. ConnectionTypeOK /\ ConnectionsAreNumbered /\ OneLoopLives
    BY DEF ConnectionsOK
  <1>2. UNCHANGED <<closer, conn, at, sentOn>> /\ Alive(c)
    BY DEF LoopSteps, LoopStarts, Receive, HandlerReturns, LoopGetsSendLock, LoopDrained, ReadsEnd, Alive
  <1>3. loop \in [Connections -> LoopPlaces]
    BY <1>1 DEF ConnectionTypeOK
  <1>4. websocket' \in {websocket, None}
    BY DEF LoopSteps, LoopStarts, Receive, HandleResponse, LoopSends, HandlerReturns, LoopGetsSendLock,
           LoopDrained, ReadsEnd, EndLoop
  <1>5. StillWaits
    <2>1. \A u \in Requesters : Settles(u)
      BY LoopsSettle
    <2> QED
      BY <1>2, <2>1, NamedApart DEF StillWaits, Waits, Settles
  <1>6. ClosedIsSettled'
    BY <1>2, <1>4, <1>5, StaysSettled
  <1>7. ASSUME FailPending
        PROVE  SentIsWatched' /\ ClosedIsSettled'
    <2>1. \A u \in Requesters : ~Waits(u)'
      BY <1>2, <1>7, NobodyWaits
    <2> QED
      BY <1>6, <2>1 DEF SentIsWatched
  <1>8. ASSUME \/ loop'[c] \notin {"none", "ended"} \/ conn[c] = "closed"
               \/ closer.at \in HasConnectLock,
               \A d \in Connections : d # c => loop'[d] = loop[d]
        PROVE  SentIsWatched' /\ ClosedIsSettled'
    <2>1. \A d \in Connections : Alive(d) =>
            loop'[d] \notin {"none", "ended"} \/ conn'[d] = "closed" \/ closer'.at \in HasConnectLock
      BY <1>2, <1>8 DEF Alive
    <2> QED
      BY <1>2, <1>5, <1>6, <2>1, StaysWatched
  <1>9. ASSUME NEW place \in {"reading", "handler", "send lock", "drain"},
               loop' = [loop EXCEPT ![c] = place]
        PROVE  SentIsWatched' /\ ClosedIsSettled'
    BY <1>3, <1>8, <1>9
  <1>10. CASE UNCHANGED loop
    BY <1>2, <1>8, <1>10 DEF Alive
  <1>11. CASE LoopStarts(c)
    <2>1. CASE websocket = None /\ loop' = [loop EXCEPT ![c] = "ended"]
      <3>1. closer.at \in HasConnectLock
        BY <1>1, <1>2, <2>1, Apart DEF OneLoopLives
      <3> QED
        BY <1>3, <1>8, <2>1, <3>1
    <2> QED
      BY <1>9, <1>11, <2>1 DEF LoopStarts
  <1>12. CASE Receive(c)
    BY <1>7, <1>9, <1>10, <1>12 DEF Receive, HandleResponse, LoopSends
  <1>13. CASE HandlerReturns(c)
    BY <1>9, <1>13 DEF HandlerReturns
  <1>14. CASE LoopGetsSendLock(c)
    BY <1>7, <1>9, <1>14 DEF LoopGetsSendLock
  <1>15. CASE LoopDrained(c)
    BY <1>7, <1>9, <1>15 DEF LoopDrained
  <1>16. CASE ReadsEnd(c)
    <2>1. CASE conn[c] = "closed" /\ EndLoop(c)
      BY <1>3, <1>8, <2>1 DEF EndLoop
    <2>2. conn[c] \in {"closed", "lost"}
      <3>1. conn[c] # "none" /\ conn[c] # "open"
        BY <1>1, <1>2, <1>16 DEF ConnectionsAreNumbered, Alive, ReadsEnd
      <3>2. conn[c] \in {"none", "open", "closed", "lost"}
        BY <1>1 DEF ConnectionTypeOK
      <3> QED
        BY <3>1, <3>2
    <2> QED
      BY <1>7, <1>16, <2>1, <2>2 DEF ReadsEnd
  <1> QED
    BY <1>11, <1>12, <1>13, <1>14, <1>15, <1>16 DEF LoopSteps

LEMMA CloserKeepsWatch ==
  ASSUME RequestsOK, ConnectionsOK, SentIsWatched, ClosedIsSettled, Close \/ CloserSteps
  PROVE  SentIsWatched' /\ ClosedIsSettled'
  <1>1. ConnectionTypeOK /\ OneLoopLives
    BY DEF ConnectionsOK
  <1>2. UNCHANGED <<at, sentOn>>
    BY DEF Close, CloserSteps, CloserGetsLock, TakeOver, WebsocketCloses, FinishClose
  <1>3. closer \in [at : {"idle", "connect lock", "closing", "joining", "done"},
                    websocket : Connections \cup {None}, receiver : Connections \cup {None}]
    BY <1>1 DEF ConnectionTypeOK
  <1>4. ASSUME UNCHANGED future, closer'.at \in HasConnectLock
        PROVE  SentIsWatched' /\ ClosedIsSettled'
    BY <1>4 DEF SentIsWatched, ClosedIsSettled, HasConnectLock
  <1>5. ASSUME NEW waiting, TakeOver(waiting)
        PROVE  SentIsWatched' /\ ClosedIsSettled'
    <2>1. UNCHANGED future /\ closer'.at \in HasConnectLock
      BY <1>5 DEF TakeOver, tableVars, HasConnectLock
    <2> QED
      BY <1>4, <2>1
  <1>6. CASE /\ closer.at = "idle" /\ closer' = [closer EXCEPT !.at = "connect lock"]
             /\ UNCHANGED <<websocket, tableVars, loop, conn>>
    <2>1. closer'.at = "connect lock" /\ closer.at = "idle"
      BY <1>3, <1>6
    <2>2. StillWaits
      BY <1>2, <1>6 DEF StillWaits, Waits, tableVars
    <2>3. SentIsWatched'
      BY <1>6, <2>1, <2>2, StaysWatched DEF Alive, HasConnectLock
    <2> QED
      BY <2>1, <2>3 DEF ClosedIsSettled
  <1>7. CASE Close
    BY <1>5, <1>6, <1>7 DEF Close
  <1>8. CASE CloserGetsLock
    <2>1. PICK waiting : waiting = Tail(connectQueue)
      OBVIOUS
    <2> QED
      BY <1>5, <1>8, <2>1 DEF CloserGetsLock
  <1>9. CASE WebsocketCloses
    <2>1. UNCHANGED future /\ closer'.at = "joining"
      BY <1>3, <1>9 DEF WebsocketCloses, tableVars
    <2> QED
      BY <1>4, <2>1 DEF HasConnectLock
  <1>10. CASE FinishClose
    <2>1. FailPending /\ websocket' = websocket /\ closer.at = "joining"
      BY <1>10 DEF FinishClose
    <2>2. \A u \in Requesters : ~Waits(u)'
      BY <1>2, <2>1, NobodyWaits
    <2>3. websocket' = None
      BY <1>1, <2>1 DEF OneLoopLives, HasConnectLock
    <2> QED
      BY <2>2, <2>3 DEF SentIsWatched, ClosedIsSettled
  <1> QED
    BY <1>7, <1>8, <1>9, <1>10 DEF CloserSteps

LEMMA CodexKeepsWatch ==
  ASSUME RequestsOK, ConnectionTypeOK, SentIsWatched, ClosedIsSettled, CodexSteps
  PROVE  SentIsWatched' /\ ClosedIsSettled'
  <1>1. UNCHANGED <<websocket, loop, closer, at, sentOn, future>>
    BY DEF CodexSteps, CodexAnswers, CodexSpeaks, ConnectionEnds, tableVars
  <1>2. \A d \in Connections : conn[d] = "closed" => conn'[d] = "closed"
    <2>1. conn \in [Connections -> {"none", "open", "closed", "lost"}]
      BY DEF ConnectionTypeOK
    <2>2. ASSUME NEW c \in Connections, NEW how, ConnectionEnds(c, how)
          PROVE  \A d \in Connections : conn[d] = "closed" => conn'[d] = "closed"
      BY <2>1, <2>2 DEF ConnectionEnds, EndConnection
    <2> QED
      BY <2>2 DEF CodexSteps, CodexAnswers, CodexSpeaks
  <1>3. StillWaits
    BY <1>1 DEF StillWaits, Waits
  <1>4. SentIsWatched'
    BY <1>1, <1>2, <1>3, StaysWatched DEF Alive
  <1> QED
    BY <1>1, <1>3, <1>4, StaysSettled

-----------------------------------------------------------------------------
(* The invariant is inductive.                                             *)
LEMMA InitEstablishes == Init => IInv
  <1> SUFFICES ASSUME Init
               PROVE  /\ RequestsOK /\ ConnectionsOK /\ ConnectLockOK /\ SendLockOK
                      /\ SentIsWatched /\ ClosedIsSettled
    BY Regrouped
  <1>1. \A t \in Requesters : t \in Callers /\ at[t] = "idle" /\ id[t] = None /\ future[t] = "none"
    BY Apart DEF Init
  <1>2. RequestsOK
    <2>1. /\ RequestTypeOK /\ PendingInProgress
      BY DEF Init, RequestTypeOK, PendingInProgress, Places, None
    <2>2. RequestsAreNumbered
      <3>1. {t \in Requesters : id[t] # None} = {}
        BY <1>1
      <3>2. counter = Cardinality({t \in Requesters : id[t] # None})
        BY <3>1, FS_EmptySet DEF Init
      <3>3. \A t \in Requesters : id[t] <= counter
        BY <1>1 DEF Init, None
      <3> QED
        BY <1>1, <3>2, <3>3 DEF Init, RequestsAreNumbered
    <2>3. RequestsAdvance
      BY <1>1 DEF Init, RequestsAdvance
    <2>4. AnswersAreExpected
      BY DEF Init, AnswersAreExpected
    <2> QED
      BY <2>1, <2>2, <2>3, <2>4 DEF RequestsOK
  <1>3. ConnectionsOK
    <2>1. ConnectionTypeOK
      BY DEF Init, ConnectionTypeOK, LoopPlaces
    <2>2. ConnectionsAreNumbered
      <3>1. \A c \in Connections : conn[c] # "none" <=> c <= 0
        BY DEF Init, Connections
      <3> QED
        BY <3>1 DEF Init, ConnectionsAreNumbered
    <2>3. OneLoopLives
      BY DEF Init, OneLoopLives, Alive, HasConnectLock
    <2> QED
      BY <2>1, <2>2, <2>3 DEF ConnectionsOK
  <1>4. ConnectLockOK
    BY DEF Init, ConnectLockOK, Disciplined, ConnectHolding, HasConnectLock
  <1>5. SendLockOK
    BY DEF Init, SendLockOK, Disciplined, SendHolding
  <1>6. SentIsWatched /\ ClosedIsSettled
    BY <1>1 DEF Init, SentIsWatched, ClosedIsSettled, Waits
  <1> QED
    BY <1>2, <1>3, <1>4, <1>5, <1>6

LEMMA NextKeeps == IInv /\ [Next]_vars => IInv'
  <1> SUFFICES ASSUME RequestsOK, ConnectionsOK, ConnectLockOK, SendLockOK, SentIsWatched, ClosedIsSettled,
                      [Next]_vars
               PROVE  /\ RequestsOK' /\ ConnectionsOK' /\ ConnectLockOK' /\ SendLockOK'
                      /\ SentIsWatched' /\ ClosedIsSettled'
    BY Regrouped, PTL
  <1>1. /\ RequestTypeOK /\ ConnectionTypeOK /\ ConnectionsAreNumbered
        /\ at \in [Callers -> Places]
    BY DEF RequestsOK, ConnectionsOK, RequestTypeOK
  <1>2. ASSUME NEW t \in Callers, Call(t) \/ CallerSteps(t)
        PROVE  /\ RequestsOK' /\ ConnectionsOK' /\ ConnectLockOK' /\ SendLockOK'
               /\ SentIsWatched' /\ ClosedIsSettled'
    <2>1. RequestsOK' /\ ConnectionsOK'
      BY <1>1, <1>2, CallersKeepRequests, CallersKeepConnections
    <2>2. ConnectLockOK' /\ SendLockOK'
      BY <1>1, <1>2, CallersKeepConnectLock, CallersKeepSendLock
    <2> QED
      BY <1>2, <2>1, <2>2, CallersKeepWatch
  <1>3. ASSUME NEW c \in Connections, LoopSteps(c)
        PROVE  /\ RequestsOK' /\ ConnectionsOK' /\ ConnectLockOK' /\ SendLockOK'
               /\ SentIsWatched' /\ ClosedIsSettled'
    <2>1. UNCHANGED <<at, connectQueue, closer>>
      BY <1>3 DEF LoopSteps, LoopStarts, Receive, HandlerReturns, LoopGetsSendLock, LoopDrained, ReadsEnd,
         lockVars
    <2>2. ConnectLockOK'
      BY <2>1, OthersKeepConnectLock
    <2> QED
      BY <1>1, <1>3, <2>2, LoopsKeepRequests, LoopsKeepConnections, LoopsKeepSendLock, LoopsKeepWatch
  <1>4. CASE Close \/ CloserSteps
    BY <1>1, <1>4, CloserKeepsRequests, CloserKeepsConnections, CloserKeepsConnectLock,
       CloserKeepsSendLock, CloserKeepsWatch
  <1>5. CASE CodexSteps
    <2>1. UNCHANGED <<at, loop, closer, connectQueue, sendQueue>>
      BY <1>5 DEF CodexSteps, CodexAnswers, CodexSpeaks, ConnectionEnds, lockVars
    <2>2. ConnectLockOK' /\ SendLockOK'
      BY <2>1, OthersKeepConnectLock, OthersKeepSendLock
    <2> QED
      BY <1>1, <1>5, <2>2, CodexKeepsRequests, CodexKeepsConnections, CodexKeepsWatch
  <1>6. CASE UNCHANGED vars
    <2>1. UNCHANGED <<websocket, receiver, pending, counter, id, future, connectQueue, sendQueue, at, sentOn,
                      loop, closer, conn, owed, inbox, told>>
      BY <1>6 DEF vars, tableVars, lockVars, codexVars
    <2>2. RequestsOK'
      <3>1. RequestTypeOK' /\ PendingInProgress'
        BY <2>1 DEF RequestsOK, RequestTypeOK, PendingInProgress
      <3>2. RequestsAreNumbered'
        BY <2>1 DEF RequestsOK, RequestsAreNumbered
      <3>3. RequestsAdvance'
        BY <2>1 DEF RequestsOK, RequestsAdvance, Expecting
      <3>4. AnswersAreExpected'
        BY <2>1 DEF RequestsOK, AnswersAreExpected, Expecting
      <3> QED
        BY <3>1, <3>2, <3>3, <3>4 DEF RequestsOK
    <2>3. ConnectionsOK'
      BY <2>1 DEF ConnectionsOK, ConnectionTypeOK, ConnectionsAreNumbered, OneLoopLives, Alive
    <2>4. ConnectLockOK' /\ SendLockOK'
      BY <2>1, OthersKeepConnectLock, OthersKeepSendLock
    <2>5. SentIsWatched' /\ ClosedIsSettled'
      BY <2>1 DEF SentIsWatched, ClosedIsSettled, Waits, Alive
    <2> QED
      BY <2>2, <2>3, <2>4, <2>5
  <1> QED
    BY <1>2, <1>3, <1>4, <1>5, <1>6 DEF Next, CodexSteps

(* Whatever callers, receive loops, close() and Codex do, in any order.    *)
THEOREM Invariance == Spec => []IInv
  BY InitEstablishes, NextKeeps, PTL DEF Spec

(* Every table, lock and connection holds values of its type, nobody queues*)
(* twice for a lock, and a registered request is in progress.              *)
THEOREM TypeCorrect == Spec => []TypeOK
  <1>1. IInv => TypeOK
    BY DEF IInv
  <1> QED
    BY <1>1, Invariance, PTL

(* The connection in use is read by the one loop that is alive.            *)
THEOREM UsedIsRead == Spec => []UsedConnectionIsRead
  <1>1. IInv => UsedConnectionIsRead
    <2> SUFFICES ASSUME IInv
                 PROVE  UsedConnectionIsRead
      OBVIOUS
    <2>1. OneLoopLives
      BY DEF IInv
    <2>2. ASSUME NEW c \in Connections, Alive(c)
          PROVE  websocket \in {c, None}
      BY <2>1, <2>2 DEF OneLoopLives
    <2> QED
      BY <2>1, <2>2 DEF OneLoopLives, UsedConnectionIsRead
  <1> QED
    BY <1>1, Invariance, PTL

(* A request that waits is registered under its number and watched.        *)
THEOREM WaitsAreWatched == Spec => []WaitingIsWatched
  <1>1. IInv => WaitingIsWatched
    <2> SUFFICES ASSUME IInv, NEW t \in Requesters, at[t] = "response", future[t] = "open"
                 PROVE  /\ pending[id[t]] = t
                        /\ Alive(sentOn[t]) \/ conn[sentOn[t]] = "closed" \/ closer.at \in {"closing", "joining"}
      BY DEF WaitingIsWatched
    <2>1. Waits(t)
      BY DEF Waits
    <2>2. RequestsOK /\ SentIsWatched
      BY Regrouped
    <2> QED
      BY <2>1, <2>2, WaitsOn DEF SentIsWatched, HasConnectLock
  <1> QED
    BY <1>1, Invariance, PTL

(* close() leaves no request of an earlier connection waiting.             *)
THEOREM CloseSettles == Spec => []CloseSettlesEarlier
  <1>1. IInv => CloseSettlesEarlier
    BY DEF IInv, ClosedIsSettled, CloseSettlesEarlier, Waits
  <1> QED
    BY <1>1, Invariance, PTL

(* A future is made open with its request's number, and is done once.      *)
LEMMA SendOpens ==
  ASSUME RequestTypeOK, NEW t \in Callers, Send(t), t \in Requesters => future[t] = "none"
  PROVE  \A u \in Requesters : Settles(u) \/ (future[u] = "none" /\ future'[u] = "open")
  <1>1. future \in [Requesters -> {"none", "open", "failed"} \cup Requesters]
    BY DEF RequestTypeOK
  <1> QED
    BY <1>1 DEF Send, Settles

LEMMA FuturesSettle ==
  ASSUME IInv, [Next]_vars
  PROVE  \A u \in Requesters : Settles(u) \/ (future[u] = "none" /\ future'[u] = "open")
  <1>1. RequestsOK /\ RequestTypeOK /\ RequestsAdvance
    BY Regrouped DEF RequestsOK
  <1>2. CASE UNCHANGED future
    BY <1>2 DEF Settles
  <1>3. ASSUME NEW t \in Callers, Call(t) \/ CallerSteps(t)
        PROVE  \A u \in Requesters : Settles(u) \/ (future[u] = "none" /\ future'[u] = "open")
    <2>1. CASE Send(t) /\ at[t] \in {"idle", "connect lock", "handshake"}
      <3>1. t \in Requesters => future[t] = "none"
        BY <1>1, <2>1 DEF RequestsAdvance
      <3> QED
        BY <1>1, <2>1, <3>1, SendOpens
    <2> QED
      BY <1>2, <1>3, <2>1 DEF Call, CallerSteps, Connect, GetConnectLock, HandshakeSucceeds, HandshakeFails,
         GetSendLock, Drained, Return, tableVars
  <1>4. ASSUME NEW c \in Connections, LoopSteps(c)
        PROVE  \A u \in Requesters : Settles(u)
    BY <1>1, <1>4, LoopsSettle
  <1>5. CASE Close \/ CloserSteps
    <2>1. CASE FailPending
      BY <2>1 DEF FailPending, Settles
    <2> QED
      BY <1>2, <1>5, <2>1 DEF Close, CloserSteps, CloserGetsLock, TakeOver, WebsocketCloses, FinishClose,
         tableVars
  <1>6. CASE CodexSteps
    BY <1>2, <1>6 DEF CodexSteps, CodexAnswers, CodexSpeaks, ConnectionEnds, tableVars
  <1>7. CASE UNCHANGED vars
    BY <1>2, <1>7 DEF vars, tableVars
  <1> QED
    BY <1>3, <1>4, <1>5, <1>6, <1>7 DEF Next, CodexSteps

(* A caller gets Codex's answer to its own request, whatever connections   *)
(* came and went meanwhile.                                                *)
THEOREM AnswersAreOwn == Spec => []OwnAnswer
  <1>1. Init => OwnAnswer
    BY DEF Init, OwnAnswer
  <1>2. IInv /\ OwnAnswer /\ [Next]_vars => OwnAnswer'
    BY FuturesSettle DEF OwnAnswer, Settles
  <1> QED
    BY <1>1, <1>2, Invariance, PTL DEF Spec

(* A future that is done is never set again.                               *)
THEOREM FuturesAreSetOnce == Spec => SetOnce
  <1>1. IInv /\ [Next]_vars =>
          [\A t \in Requesters : future[t] \notin {"none", "open"} => future'[t] = future[t]]_future
    BY FuturesSettle DEF Settles
  <1> QED
    BY <1>1, Invariance, PTL DEF Spec, SetOnce

=============================================================================
