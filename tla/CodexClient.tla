----------------------------- MODULE CodexClient -----------------------------
(***************************************************************************)
(* The JSON-RPC client of the Codex app server (adapters/codex_client.py): *)
(* connecting under a lock, requests and the futures they wait for,        *)
(* responses to Codex's own requests, the receive loop of each connection, *)
(* and close().                                                            *)
(*                                                                         *)
(* An action is the code of one task between two suspensions.  What        *)
(* suspends is a lock somebody else has, the handshake of a new            *)
(* connection, a send whose buffer is full, a future, a handler of the     *)
(* receive loop, and the two awaits of close().  The asyncio locks are     *)
(* queues whose head has the lock: they are handed over in order of        *)
(* arrival, and nobody overtakes a woken waiter (SessionExecutor models    *)
(* this in detail).                                                        *)
(*                                                                         *)
(* Connections are numbered in the order they are made.  A connection that *)
(* Codex closes properly is "closed", one that breaks is "lost"; messages  *)
(* that arrived before that can still be read.                             *)
(***************************************************************************)
EXTENDS Integers, Sequences, FiniteSets

CONSTANTS
  Requesters,      \* tasks that call request()
  Responders,      \* tasks that call respond_to_server_request()
  Starter,         \* the requester that sends initialize: the runtime's run()
  MaxConnections,  \* bound on connections made
  MaxMessages,     \* bound on messages of Codex's own
  Slow,            \* bound: callers and loops whose send may find the buffer full
  Closer           \* the task that calls close()

Callers == Requesters \cup Responders
Connections == 1..MaxConnections
Ids == 1..Cardinality(Requesters)
None == 0

ASSUME ClientAssumption ==
  /\ IsFiniteSet(Requesters) /\ Starter \in Requesters
  /\ Requesters \cap Responders = {} /\ Closer \notin Callers
  /\ MaxConnections \in Nat /\ MaxMessages \in Nat
  /\ Slow \subseteq Callers \cup Connections
  /\ (Callers \cup {Closer}) \cap Int = {}
  /\ Requesters \cap {"none", "open", "failed"} = {}

VARIABLES
  websocket,     \* _websocket
  receiver,      \* _receiver_task, named by the connection it was made with
  pending,       \* _pending_requests: the task behind each id
  counter,       \* _request_counter
  connectQueue,  \* _connect_lock: its owner, then those who wait
  sendQueue,     \* _send_lock: likewise; a receive loop is its connection's number
  at,            \* what each caller awaits
  id,            \* the id of each requester's request
  future,        \* its future: "none", "open", "failed", or the task Codex answered
  sentOn,        \* the connection each caller's message went out on
  loop,          \* what the receive loop of each connection awaits
  closer,        \* what close() awaits, the websocket and the task it took over
  conn,          \* each connection: "none", "open", "closed", "lost"
  owed,          \* Codex: the requests it has yet to answer
  inbox,         \* messages of Codex that no receive loop has read
  told           \* Codex: messages of its own so far

tableVars == <<pending, counter, id, future>>
lockVars == <<connectQueue, sendQueue>>
codexVars == <<owed, inbox, told>>
vars == <<websocket, receiver, tableVars, lockVars, at, sentOn, loop, closer, conn, codexVars>>

Init ==
  /\ websocket = None /\ receiver = None
  /\ pending = [i \in Ids |-> None] /\ counter = 0
  /\ connectQueue = <<>> /\ sendQueue = <<>>
  /\ at = [t \in Callers |-> "idle"]
  /\ id = [t \in Requesters |-> None] /\ future = [t \in Requesters |-> "none"]
  /\ sentOn = [t \in Callers |-> None]
  /\ loop = [c \in Connections |-> "none"]
  /\ closer = [at |-> "idle", websocket |-> None, receiver |-> None]
  /\ conn = [c \in Connections |-> "none"]
  /\ owed = {} /\ inbox = [c \in Connections |-> <<>>] /\ told = 0

-----------------------------------------------------------------------------
Made == Cardinality({c \in Connections : conn[c] # "none"})
Owns(queue, p) == queue # <<>> /\ Head(queue) = p

(* _fail_pending_requests.                                                 *)
ForgetPending ==  \* mutant: the futures are dropped, not failed
  /\ pending' = [i \in Ids |-> None]
  /\ UNCHANGED future

FailAndKeep ==  \* mutant: the table is not cleared
  /\ future' = [t \in Requesters |->
                  IF future[t] = "open" /\ \E i \in Ids : pending[i] = t THEN "failed" ELSE future[t]]
  /\ UNCHANGED pending

FailPending ==
  /\ future' = [t \in Requesters |->
                  IF future[t] = "open" /\ \E i \in Ids : pending[i] = t THEN "failed" ELSE future[t]]
  /\ pending' = [i \in Ids |-> None]

(* The finally block of request().                                         *)
Left(table, t) == table  \* mutant
Without(table, t) == IF t \in Requesters THEN [table EXCEPT ![id'[t]] = None] ELSE table

-----------------------------------------------------------------------------
(* _send_json.  The websocket is read once the lock is taken: by then it   *)
(* may be gone, closed, or that of a newer connection.  A send suspends    *)
(* with the lock while the buffer is full.  (The step that makes a         *)
(* connection sends at once, hence the primes.)                            *)
SentAlready(t) == IF t \in Requesters THEN "response" ELSE "done"

WorksNext == websocket' # None /\ conn'[websocket'] = "open"

Transmit(t, table, waiting) ==
  \/ /\ ~WorksNext
     /\ at' = [at EXCEPT ![t] = "failed"]
     /\ pending' = Without(table, t)
     /\ sendQueue' = waiting
     /\ UNCHANGED <<sentOn, owed>>
  \/ /\ WorksNext
     /\ sentOn' = [sentOn EXCEPT ![t] = websocket']
     /\ owed' = owed \cup ({t} \cap Requesters)
     /\ pending' = table
     /\ \/ at' = [at EXCEPT ![t] = SentAlready(t)] /\ sendQueue' = waiting
        \/ t \in Slow /\ at' = [at EXCEPT ![t] = "drain"] /\ sendQueue' = <<t>> \o waiting

(* What follows connect() in request() and respond_to_server_request(): a  *)
(* request takes the next number and registers its future before it sends. *)
FirstId == 1  \* mutant: a number for all
NextId == counter + 1

Send(t) ==
  LET table == IF t \in Requesters THEN [pending EXCEPT ![NextId] = t] ELSE pending
  IN  /\ IF t \in Requesters
         THEN /\ counter' = counter + 1
              /\ id' = [id EXCEPT ![t] = NextId]
              /\ future' = [future EXCEPT ![t] = "open"]
         ELSE UNCHANGED <<counter, id, future>>
      /\ \/ sendQueue = <<>> /\ Transmit(t, table, <<>>)
         \/ /\ sendQueue # <<>>
            /\ sendQueue' = Append(sendQueue, t)
            /\ at' = [at EXCEPT ![t] = "send lock"]
            /\ pending' = table
            /\ UNCHANGED <<sentOn, owed>>

-----------------------------------------------------------------------------
(* connect() with its lock taken.                                          *)
Connect(t, waiting) ==
  /\ UNCHANGED <<websocket, receiver, loop, closer, conn, inbox, told>>
  /\ \/ websocket # None /\ connectQueue' = waiting /\ Send(t)
     \/ /\ websocket = None
        /\ connectQueue' = <<t>> \o waiting
        /\ at' = [at EXCEPT ![t] = "handshake"]
        /\ UNCHANGED <<tableVars, sendQueue, sentOn, owed>>

(* The runtime starts Feishu's thread, whose messages become requests,     *)
(* only after initialize.                                                  *)
Started == at[Starter] = "done"

Call(t) ==
  /\ at[t] = "idle" /\ (t = Starter \/ Started)
  /\ \/ connectQueue = <<>> /\ Connect(t, <<>>)
     \/ /\ connectQueue # <<>>
        /\ connectQueue' = Append(connectQueue, t)
        /\ at' = [at EXCEPT ![t] = "connect lock"]
        /\ UNCHANGED <<websocket, receiver, tableVars, sendQueue, sentOn, loop, closer, conn, codexVars>>

GetConnectLock(t) ==
  /\ at[t] = "connect lock" /\ Owns(connectQueue, t)
  /\ Connect(t, Tail(connectQueue))

HandshakeSucceeds(t) ==
  /\ at[t] = "handshake" /\ Made < MaxConnections
  /\ LET c == Made + 1
     IN  /\ websocket' = c /\ receiver' = c
         /\ conn' = [conn EXCEPT ![c] = "open"]
         /\ loop' = [loop EXCEPT ![c] = "scheduled"]
  /\ connectQueue' = Tail(connectQueue)
  /\ Send(t)
  /\ UNCHANGED <<closer, inbox, told>>

HandshakeFailsLocked(t) ==  \* mutant: the lock is kept
  /\ at[t] = "handshake"
  /\ at' = [at EXCEPT ![t] = "failed"]
  /\ UNCHANGED <<websocket, receiver, tableVars, lockVars, sentOn, loop, closer, conn, codexVars>>

HandshakeFails(t) ==
  /\ at[t] = "handshake"
  /\ at' = [at EXCEPT ![t] = "failed"]
  /\ connectQueue' = Tail(connectQueue)
  /\ UNCHANGED <<websocket, receiver, tableVars, sendQueue, sentOn, loop, closer, conn, codexVars>>

GetSendLock(t) ==
  /\ at[t] = "send lock" /\ Owns(sendQueue, t)
  /\ UNCHANGED <<websocket, receiver, counter, id, future, connectQueue, loop, closer, conn, inbox, told>>
  /\ Transmit(t, pending, Tail(sendQueue))

(* The buffer has drained, or the connection has ended: then the send      *)
(* raises or returns, as it ended with an error or without.                *)
Drained(t) ==
  /\ at[t] = "drain"
  /\ sendQueue' = Tail(sendQueue)
  /\ UNCHANGED <<websocket, receiver, counter, id, future, connectQueue, sentOn, loop, closer, conn, codexVars>>
  /\ \/ at' = [at EXCEPT ![t] = SentAlready(t)] /\ UNCHANGED pending
     \/ /\ conn[sentOn[t]] # "open"
        /\ at' = [at EXCEPT ![t] = "failed"]
        /\ pending' = Without(pending, t)

(* The future is done: the task goes on.                                   *)
Return(t) ==
  /\ at[t] = "response" /\ future[t] # "open"
  /\ at' = [at EXCEPT ![t] = IF future[t] = "failed" THEN "failed" ELSE "done"]
  /\ UNCHANGED <<websocket, receiver, counter, id, future, lockVars, sentOn, loop, closer, conn, codexVars>>
  /\ pending' = Without(pending, t)

-----------------------------------------------------------------------------
(* _receive_loop.  It begins by reading the websocket, so that one that is *)
(* closed first ends at once.                                              *)
LoopStarts(c) ==
  /\ loop[c] = "scheduled"
  /\ loop' = [loop EXCEPT ![c] = IF websocket = None THEN "ended" ELSE "reading"]
  /\ UNCHANGED <<websocket, receiver, tableVars, lockVars, at, sentOn, closer, conn, codexVars>>

EndLoop(c) ==
  /\ loop' = [loop EXCEPT ![c] = "ended"]
  /\ websocket' = None

(* _handle_response: a response that nobody waits for is dropped.  A JSON- *)
(* RPC error is an answer like any other here.                             *)
HandleResponse(c, m) ==
  LET t == pending[m.id]
  IN  /\ future' = IF t = None THEN future ELSE [future EXCEPT ![t] = m.of]
      /\ UNCHANGED <<websocket, loop, pending, sendQueue>>

(* The response of the loop itself to a request of Codex that the handler  *)
(* failed on: it shares the send lock.                                     *)
Works == websocket # None /\ conn[websocket] = "open"

LoopSends(c) ==
  \/ /\ ~Works /\ (websocket # None => sendQueue = <<>>)
     /\ EndLoop(c) /\ FailPending
     /\ UNCHANGED sendQueue
  \/ /\ Works /\ sendQueue = <<>>
     /\ \/ UNCHANGED <<loop, sendQueue>>
        \/ c \in Slow /\ loop' = [loop EXCEPT ![c] = "drain"] /\ sendQueue' = <<c>>
     /\ UNCHANGED <<websocket, future, pending>>
  \/ /\ websocket # None /\ sendQueue # <<>>
     /\ loop' = [loop EXCEPT ![c] = "send lock"]
     /\ sendQueue' = Append(sendQueue, c)
     /\ UNCHANGED <<websocket, future, pending>>

(* _handle_message: a response, something a handler deals with (and may    *)
(* await), a request no handler answers, or nonsense, which ends the loop  *)
(* but not the connection.                                                 *)
Receive(c) ==
  /\ loop[c] = "reading" /\ inbox[c] # <<>>
  /\ inbox' = [inbox EXCEPT ![c] = Tail(@)]
  /\ LET m == Head(inbox[c])
     IN  \/ m.kind = "response" /\ HandleResponse(c, m)
         \/ /\ m.kind = "event"
            /\ loop' = [loop EXCEPT ![c] = "handler"]
            /\ UNCHANGED <<websocket, future, pending, sendQueue>>
         \/ m.kind = "request" /\ LoopSends(c)
         \/ m.kind = "nonsense" /\ EndLoop(c) /\ FailPending /\ UNCHANGED sendQueue
  /\ UNCHANGED <<receiver, counter, id, connectQueue, at, sentOn, closer, conn, owed, told>>

HandlerReturns(c) ==
  /\ loop[c] = "handler"
  /\ loop' = [loop EXCEPT ![c] = "reading"]
  /\ UNCHANGED <<websocket, receiver, tableVars, lockVars, at, sentOn, closer, conn, codexVars>>

LoopGetsSendLock(c) ==
  /\ loop[c] = "send lock" /\ Owns(sendQueue, c)
  /\ \/ /\ ~Works
        /\ EndLoop(c) /\ FailPending
        /\ sendQueue' = Tail(sendQueue)
     \/ /\ Works
        /\ \/ loop' = [loop EXCEPT ![c] = "reading"] /\ sendQueue' = Tail(sendQueue)
           \/ c \in Slow /\ loop' = [loop EXCEPT ![c] = "drain"] /\ UNCHANGED sendQueue
        /\ UNCHANGED <<websocket, future, pending>>
  /\ UNCHANGED <<receiver, counter, id, connectQueue, at, sentOn, closer, conn, codexVars>>

LoopDrained(c) ==
  /\ loop[c] = "drain"
  /\ sendQueue' = Tail(sendQueue)
  /\ \/ loop' = [loop EXCEPT ![c] = "reading"] /\ UNCHANGED <<websocket, future, pending>>
     \/ conn[c] # "open" /\ EndLoop(c) /\ FailPending
  /\ UNCHANGED <<receiver, counter, id, connectQueue, at, sentOn, closer, conn, codexVars>>

(* The connection has ended and all that arrived is handled.  Only an      *)
(* error fails the requests that wait.                                     *)
ReadsEnd(c) ==
  /\ loop[c] = "reading" /\ inbox[c] = <<>> /\ conn[c] # "open"
  /\ EndLoop(c)
  /\ IF conn[c] = "lost" THEN FailPending ELSE UNCHANGED <<future, pending>>
  /\ UNCHANGED <<receiver, counter, id, lockVars, at, sentOn, closer, conn, codexVars>>

-----------------------------------------------------------------------------
(* close(), called once Feishu's thread may have scheduled anything.       *)
CancelledAt(c) ==  \* a handler may swallow the cancellation (ReplyService awaiting its flush task)
  IF loop[c] = "handler" THEN {"ended", "reading"} ELSE {"ended"}

Cancel(c) ==
  \/ c = None /\ UNCHANGED <<loop, sendQueue>>
  \/ /\ c # None
     /\ \E next \in CancelledAt(c) : loop' = [loop EXCEPT ![c] = next]
     /\ \/ (\A i \in 1..Len(sendQueue) : sendQueue[i] # c) /\ UNCHANGED sendQueue
        \/ \E i \in 1..Len(sendQueue) :
             /\ sendQueue[i] = c
             /\ sendQueue' = SubSeq(sendQueue, 1, i - 1) \o SubSeq(sendQueue, i + 1, Len(sendQueue))

(* With the lock: it takes the websocket and the loop over, and awaits the *)
(* closing handshake, then the cancelled loop.                             *)
TakeOver(waiting) ==
  /\ websocket' = None /\ receiver' = None
  /\ connectQueue' = <<Closer>> \o waiting
  /\ \/ /\ websocket # None
        /\ closer' = [at |-> "closing", websocket |-> websocket, receiver |-> receiver]
        /\ UNCHANGED <<loop, sendQueue>>
     \/ /\ websocket = None
        /\ closer' = [at |-> "joining", websocket |-> None, receiver |-> receiver]
        /\ Cancel(receiver)
  /\ UNCHANGED <<tableVars, at, sentOn, conn, codexVars>>

Close ==
  /\ closer.at = "idle" /\ Started
  /\ \/ connectQueue = <<>> /\ TakeOver(<<>>)
     \/ /\ connectQueue # <<>>
        /\ connectQueue' = Append(connectQueue, Closer)
        /\ closer' = [closer EXCEPT !.at = "connect lock"]
        /\ UNCHANGED <<websocket, receiver, tableVars, sendQueue, at, sentOn, loop, conn, codexVars>>

CloserGetsLock ==
  /\ closer.at = "connect lock" /\ Owns(connectQueue, Closer)
  /\ TakeOver(Tail(connectQueue))

EndConnection(c, how) ==
  /\ conn' = [conn EXCEPT ![c] = how]
  /\ owed' = {t \in owed : sentOn[t] # c}

WebsocketCloses ==
  /\ closer.at = "closing"
  /\ closer' = [closer EXCEPT !.at = "joining"]
  /\ IF conn[closer.websocket] = "open"
     THEN EndConnection(closer.websocket, "closed")
     ELSE UNCHANGED <<conn, owed>>
  /\ Cancel(closer.receiver)
  /\ UNCHANGED <<websocket, receiver, tableVars, connectQueue, at, sentOn, inbox, told>>

NotAwaited == TRUE  \* mutant
ReceiverEnded == closer.receiver = None \/ loop[closer.receiver] = "ended"

FinishClose ==
  /\ closer.at = "joining" /\ ReceiverEnded
  /\ closer' = [closer EXCEPT !.at = "done"]
  /\ FailPending
  /\ connectQueue' = Tail(connectQueue)
  /\ UNCHANGED <<websocket, receiver, counter, id, sendQueue, at, sentOn, loop, conn, codexVars>>

-----------------------------------------------------------------------------
(* Codex: answers, messages of its own, and the end of a connection.       *)
Deliver(c, m) == inbox' = [inbox EXCEPT ![c] = Append(@, m)]

CodexAnswers(t) ==
  /\ t \in owed
  /\ owed' = owed \ {t}
  /\ Deliver(sentOn[t], [kind |-> "response", id |-> id[t], of |-> t])
  /\ UNCHANGED <<websocket, receiver, tableVars, lockVars, at, sentOn, loop, closer, conn, told>>

CodexSpeaks(c, kind) ==
  /\ conn[c] = "open" /\ told < MaxMessages
  /\ told' = told + 1
  /\ Deliver(c, [kind |-> kind, id |-> None, of |-> None])
  /\ UNCHANGED <<websocket, receiver, tableVars, lockVars, at, sentOn, loop, closer, conn, owed>>

ConnectionEnds(c, how) ==
  /\ conn[c] = "open"
  /\ EndConnection(c, how)
  /\ UNCHANGED <<websocket, receiver, tableVars, lockVars, at, sentOn, loop, closer, inbox, told>>

CallerSteps(t) ==
  \/ GetConnectLock(t) \/ HandshakeSucceeds(t) \/ HandshakeFails(t)
  \/ GetSendLock(t) \/ Drained(t)
  \/ t \in Requesters /\ Return(t)

LoopSteps(c) ==
  LoopStarts(c) \/ Receive(c) \/ HandlerReturns(c) \/ LoopGetsSendLock(c) \/ LoopDrained(c) \/ ReadsEnd(c)

CloserSteps == CloserGetsLock \/ WebsocketCloses \/ FinishClose

Next ==
  \/ \E t \in Callers : Call(t) \/ CallerSteps(t)
  \/ \E c \in Connections : LoopSteps(c)
  \/ Close \/ CloserSteps
  \/ \E t \in Requesters : CodexAnswers(t)
  \/ \E c \in Connections, kind \in {"event", "request", "nonsense"} : CodexSpeaks(c, kind)
  \/ \E c \in Connections, how \in {"closed", "lost"} : ConnectionEnds(c, how)

Spec == Init /\ [][Next]_vars

(* What the event loop does by itself: whoever can go on does, handshakes  *)
(* and sends end, handlers return.  Nothing is asked of callers and Codex. *)
Fairness ==
  /\ \A t \in Callers : WF_vars(CallerSteps(t))
  /\ \A c \in Connections : WF_vars(LoopSteps(c))
  /\ WF_vars(CloserSteps)

LiveSpec == Spec /\ Fairness

-----------------------------------------------------------------------------
LoopPlaces == {"none", "scheduled", "reading", "handler", "send lock", "drain", "ended"}
Alive(c) == loop[c] \notin {"none", "ended"}

(* Every table, lock and connection holds values of its type, nobody queues*)
(* twice for a lock, and a registered request is in progress.              *)
TypeOK ==
  /\ websocket \in Connections \cup {None} /\ receiver \in Connections \cup {None}
  /\ pending \in [Ids -> Requesters \cup {None}] /\ counter \in Ids \cup {0}
  /\ \A i \in Ids : pending[i] # None => at[pending[i]] \in {"send lock", "drain", "response"}
  /\ connectQueue \in Seq(Callers \cup {Closer}) /\ sendQueue \in Seq(Callers \cup Connections)
  /\ \A q \in {connectQueue, sendQueue} : \A i, j \in DOMAIN q : q[i] = q[j] => i = j
  /\ at \in [Callers -> {"idle", "connect lock", "handshake", "send lock", "drain", "response",
                         "done", "failed"}]
  /\ id \in [Requesters -> Ids \cup {None}]
  /\ future \in [Requesters -> {"none", "open", "failed"} \cup Requesters]
  /\ sentOn \in [Callers -> Connections \cup {None}]
  /\ loop \in [Connections -> LoopPlaces]
  /\ closer \in [at : {"idle", "connect lock", "closing", "joining", "done"},
                 websocket : Connections \cup {None}, receiver : Connections \cup {None}]
  /\ conn \in [Connections -> {"none", "open", "closed", "lost"}]
  /\ owed \subseteq Requesters
  /\ inbox \in [Connections -> Seq([kind : {"response", "event", "request", "nonsense"},
                                    id : Ids \cup {None}, of : Requesters \cup {None}])]
  /\ told \in Nat

(* The connection in use has a receive loop that still reads it, and no    *)
(* loop of an older connection is left that could clear the websocket when *)
(* it ends (the unconditional assignment in _receive_loop).                *)
UsedConnectionIsRead ==
  /\ websocket # None => Alive(websocket)
  /\ \A c \in Connections : Alive(c) => websocket \in {c, None}

(* A caller gets Codex's answer to its own request, on whichever           *)
(* connections the requests of others went out meanwhile.                  *)
OwnAnswer == \A t \in Requesters : future[t] \in {"none", "open", "failed", t}

(* A request that waits can still be settled: it is registered under its   *)
(* number, and the loop that could bring its answer or fail it has not     *)
(* ended, or close() is about to.  The one exception is a connection that  *)
(* Codex closed properly.                                                  *)
WaitingIsWatched ==
  \A t \in Requesters : at[t] = "response" /\ future[t] = "open" =>
    /\ pending[id[t]] = t
    /\ Alive(sentOn[t]) \/ conn[sentOn[t]] = "closed" \/ closer.at \in {"closing", "joining"}

(* close() leaves no request of an earlier connection waiting, those that  *)
(* were queued for the send lock or left over by a proper close included.  *)
CloseSettlesEarlier ==
  closer.at = "done" =>
    \A t \in Requesters : at[t] = "response" /\ future[t] = "open" => sentOn[t] > closer.receiver

(* A future that is done is never set again: that would raise in the       *)
(* receive loop and end it.                                                *)
SetOnce ==
  [][\A t \in Requesters : future[t] \notin {"none", "open"} => future'[t] = future[t]]_future

LeftOver(t) ==
  /\ at[t] = "response" /\ future[t] = "open"
  /\ conn[sentOn[t]] = "closed" /\ loop[sentOn[t]] = "ended"

(* Every request ends in an answer or an exception, unless Codex owes the  *)
(* answer, or its connection was closed properly meanwhile.                *)
RequestsSettle ==
  \A t \in Requesters :
    at[t] # "idle" ~> at[t] \in {"done", "failed"} \/ t \in owed \/ LeftOver(t)

(* close() ends, whatever the receive loop is doing, whoever connects.     *)
CloseEnds == closer.at # "idle" ~> closer.at = "done"

-----------------------------------------------------------------------------
(* The inductive invariant behind the safety properties, part by part.     *)
HasConnectLock == {"closing", "joining"}
Waits(t) == at[t] \in {"drain", "response"} /\ future[t] = "open"
Expecting(t) == id[t] # None /\ (pending[id[t]] = t => future[t] = "open")

(* Numbers are taken in order, each by one request; a registered number is *)
(* that of the task behind it.                                             *)
RequestsAreNumbered ==
  /\ counter = Cardinality({t \in Requesters : id[t] # None})
  /\ \A t \in Requesters : id[t] <= counter
  /\ \A t, u \in Requesters : id[t] # None /\ id[t] = id[u] => t = u
  /\ \A i \in Ids : pending[i] # None => id[pending[i]] = i

(* A request has a future once it has a number, and is registered until    *)
(* the future is done; it reaches Codex once.                              *)
RequestsAdvance ==
  /\ \A t \in Requesters :
       /\ at[t] \in {"idle", "connect lock", "handshake"} => id[t] = None /\ future[t] = "none"
       /\ at[t] = "send lock" => Expecting(t)
       /\ at[t] \in {"send lock", "drain", "response"} /\ future[t] = "open" =>
            id[t] # None /\ pending[id[t]] = t
  /\ \A t \in Callers :
       /\ at[t] \in {"idle", "connect lock", "handshake", "send lock"} => sentOn[t] = None
       /\ at[t] \in {"drain", "response"} => sentOn[t] # None

(* Codex answers each request once, and nobody has had the answer before.  *)
AnswersAreExpected ==
  /\ \A t \in owed : sentOn[t] # None /\ Expecting(t)
  /\ \A c \in Connections : \A i \in 1..Len(inbox[c]) :
       LET m == inbox[c][i]
       IN  m.kind = "response" =>
             /\ m.of # None /\ m.of \notin owed /\ sentOn[m.of] # None
             /\ m.id = id[m.of] /\ Expecting(m.of)
             /\ \A d \in Connections : \A j \in 1..Len(inbox[d]) :
                  inbox[d][j].kind = "response" /\ inbox[d][j].of = m.of => c = d /\ i = j

(* Connections get their numbers in order, and a loop each.                *)
ConnectionsAreNumbered ==
  /\ \E n \in 0..MaxConnections : \A c \in Connections : conn[c] # "none" <=> c <= n
  /\ \A c \in Connections : loop[c] = "none" <=> conn[c] = "none"
  /\ \A c \in {websocket, receiver, closer.websocket, closer.receiver} :
       c # None => conn[c] # "none"

(* The head of a lock's queue has the lock; the others of it wait for it.  *)
ConnectLockIsHeld ==
  /\ \A i \in 1..Len(connectQueue) :
       LET p == connectQueue[i]
       IN  IF p = Closer
           THEN closer.at = "connect lock" \/ (i = 1 /\ closer.at \in HasConnectLock)
           ELSE at[p] = "connect lock" \/ (i = 1 /\ at[p] = "handshake")
  /\ \A t \in Callers : at[t] = "handshake" => Owns(connectQueue, t)
  /\ closer.at \in HasConnectLock => Owns(connectQueue, Closer)

SendLockIsHeld ==
  /\ \A i \in 1..Len(sendQueue) :
       LET p == sendQueue[i]
       IN  IF p \in Callers
           THEN at[p] = "send lock" \/ (i = 1 /\ at[p] = "drain")
           ELSE loop[p] = "send lock" \/ (i = 1 /\ loop[p] = "drain")
  /\ \A t \in Callers : at[t] = "drain" => Owns(sendQueue, t)
  /\ \A c \in Connections : loop[c] = "drain" => Owns(sendQueue, c)

(* A loop is alive for the connection in use, or for the one that close()  *)
(* took over, while it has the lock that a new connection needs.           *)
OneLoopLives ==
  /\ websocket # None => Alive(websocket) /\ receiver = websocket
  /\ \A c \in Connections : Alive(c) /\ c # websocket =>
       closer.at \in HasConnectLock /\ closer.receiver = c
  /\ closer.at \in HasConnectLock => websocket = None
  /\ closer.at = "closing" => closer.websocket # None
  /\ \A t \in Callers : at[t] = "handshake" => websocket = None

(* As in WaitingIsWatched and CloseSettlesEarlier, from the moment a       *)
(* request is sent; after close() only a newer connection can be in use.   *)
SentIsWatched ==
  \A t \in Requesters : Waits(t) =>
    Alive(sentOn[t]) \/ conn[sentOn[t]] = "closed" \/ closer.at \in HasConnectLock

ClosedIsSettled ==
  closer.at = "done" =>
    /\ websocket # None => websocket > closer.receiver
    /\ \A t \in Requesters : Waits(t) => sentOn[t] > closer.receiver

IInv ==
  /\ TypeOK
  /\ RequestsAreNumbered
  /\ RequestsAdvance
  /\ AnswersAreExpected
  /\ ConnectionsAreNumbered
  /\ ConnectLockIsHeld
  /\ SendLockIsHeld
  /\ OneLoopLives
  /\ SentIsWatched
  /\ ClosedIsSettled

-----------------------------------------------------------------------------
(* What the repository says and the code does not do.                      *)

(* design.md 8.3: after a reconnection initialize is sent again, so that   *)
(* the connection of every request was initialized.                        *)
RequestsAreInitialized ==
  \A t \in Requesters : sentOn[t] # None => sentOn[t] = sentOn[Starter]
=============================================================================
