---------------------------- MODULE TurnDispatch ----------------------------
(***************************************************************************)
(* From an inbound Feishu message to a registered Codex turn: the runtime  *)
(* (runtime.py _handle_feishu_message), the conversation service, the      *)
(* message and session tables, the registry of active turns, and Codex     *)
(* behind one ordered connection.                                          *)
(*                                                                         *)
(* Every delivery of a message, and every "bot added to group" event, is   *)
(* an asyncio task.  Feishu calls and SQLite are synchronous, so a task is *)
(* interrupted only where it awaits the session slot or a Codex response;  *)
(* an action is the code between two such points.  The receive loop        *)
(* handles Codex messages one at a time: a response only completes the     *)
(* future of its task, which runs later.                                   *)
(*                                                                         *)
(* A turn, like the thread it opens, is named by the task that asked Codex *)
(* for it.                                                                 *)
(***************************************************************************)
EXTENDS Integers, Sequences, FiniteSets

CONSTANTS
  Deliveries,   \* deliveries of im.message.receive_v1, duplicates included
  Joins,        \* deliveries of im.chat.member.bot.added_v1
  Messages,     \* Feishu message ids
  Sessions,     \* session_scope_key values
  DirectChats,  \* the sessions that are one-to-one chats
  SessionOf,    \* the session of each message
  JoinOf,       \* the session of each bot-added event
  Kind,         \* what each message asks for
  SentAt,       \* created_at of each message
  Ttl,          \* _DM_SESSION_TTL
  MaxFaults,    \* bound on process restarts and connection losses together
  None

(* The last two: a group message that mentions nobody, and a message of a  *)
(* user outside the whitelist.                                             *)
Kinds == {"text", "clear", "unsupported", "empty", "unaddressed", "outsider"}
Tasks == Deliveries \cup Joins

(* The rows of table sessions.                                             *)
Records == [thread : Tasks, generation : Nat \ {0}, expiresAt : Nat \cup {None}]

ASSUME DispatchAssumption ==
  /\ Deliveries \cap Joins = {} /\ None \notin Tasks \cup Sessions \cup Messages \cup Records
  /\ IsFiniteSet(Tasks) /\ DirectChats \subseteq Sessions
  /\ SessionOf \in [Messages -> Sessions] /\ JoinOf \in [Joins -> Sessions \ DirectChats]
  /\ Kind \in [Messages -> Kinds] /\ SentAt \in [Messages -> Nat]
  /\ Ttl \in Nat /\ MaxFaults \in Nat

VARIABLES
  queue, serving, served,  \* the session executor, as SessionQueue has it
  activeTurn,  \* SessionExecutor._active_turns
  streams,     \* ReplyService._streams_by_turn and runtime._turn_contexts
  sessions,    \* table sessions (persistent)
  processed,   \* table processed_messages: the status of each message (persistent)
  pc,          \* what each task awaits
  job,         \* the message a delivery carries
  existing,    \* the session record a task read when its operation began
  thread,      \* the thread a task starts its turn on
  answer,      \* the future of each task's Codex request
  link,        \* the websocket: "up", "closing" (closed, not yet noticed), "down"
  requests,    \* tasks whose request Codex has yet to answer
  inbox,       \* messages from Codex the receive loop has yet to handle
  turns,       \* Codex: the state of each turn
  sent,        \* history: tasks that sent turn/start
  stranded,    \* history: tasks whose request a graceful close left open
  alerts, told, alertStep,  \* blocked attempts, as SecurityAlerts has them
  crashes, drops

executorVars == <<queue, serving, served>>
registryVars == <<activeTurn, streams>>
tableVars == <<sessions, processed>>
taskVars == <<pc, job, existing, thread, answer>>
linkVars == <<link, requests, inbox>>
historyVars == <<sent, stranded>>
alertVars == <<alerts, told, alertStep>>
boundVars == <<crashes, drops>>
vars == <<executorVars, registryVars, tableVars, taskVars, linkVars, turns,
          historyVars, alertVars, boundVars>>

Executor == INSTANCE SessionQueue WITH Keys <- Sessions
Security == INSTANCE SecurityAlerts WITH Attempts <- Deliveries, step <- alertStep

(* The session a task works for.                                           *)
ScopeOf(t) == IF t \in Joins THEN JoinOf[t] ELSE SessionOf[job[t]]

InFlight(t) == pc[t] \in {"resume", "open", "turn"}

Init ==
  /\ Executor!Init
  /\ activeTurn = [s \in Sessions |-> None] /\ streams = {}
  /\ sessions = [s \in Sessions |-> None]
  /\ processed = [m \in Messages |-> "none"]
  /\ pc = [t \in Tasks |-> "idle"]
  /\ job = [t \in Deliveries |-> None]
  /\ existing = [t \in Tasks |-> None]
  /\ thread = [t \in Tasks |-> None]
  /\ answer = [t \in Tasks |-> "none"]
  /\ link = "up" /\ requests = {} /\ inbox = <<>>
  /\ turns = [t \in Tasks |-> "none"]
  /\ sent = {} /\ stranded = {}
  /\ Security!Init
  /\ crashes = 0 /\ drops = 0

-----------------------------------------------------------------------------
(* CodexClient.request: it reconnects when the link is known to be down,   *)
(* and raises when reconnecting fails or the socket is already closed.     *)
Request(t, method) ==
  /\ pc' = [pc EXCEPT ![t] = method]
  /\ sent' = IF method = "turn" THEN sent \cup {t} ELSE sent
  /\ \/ /\ link \in {"up", "down"}
        /\ link' = "up"
        /\ requests' = requests \cup {t}
        /\ answer' = [answer EXCEPT ![t] = "none"]
     \/ /\ link \in {"closing", "down"}
        /\ answer' = [answer EXCEPT ![t] = "error"]
        /\ UNCHANGED <<link, requests>>
  /\ UNCHANGED inbox

(* _expires_at_for_scope: group sessions never expire.                     *)
ExpiresAt(s, time) == IF s \in DirectChats THEN time + Ttl ELSE None

Expired(m) ==
  LET s == SessionOf[m]
  IN  s \in DirectChats /\ sessions[s].expiresAt <= SentAt[m]

NeedsNewThread(m) ==
  \/ Kind[m] = "clear"
  \/ sessions[SessionOf[m]] = None
  \/ Expired(m)

(* _dispatch_message up to its first request.                              *)
BeginDispatch(t, m) ==
  /\ existing' = [existing EXCEPT ![t] = sessions[SessionOf[m]]]
  /\ Request(t, IF NeedsNewThread(m) THEN "open" ELSE "resume")

(* How a dispatch may end before any request: rejected, or with an         *)
(* exception when an image cannot be downloaded, or a rejection not sent.  *)
Rejected(m) == Kind[m] \in {"unsupported", "empty"}

EarlyOutcomes(m) ==
  CASE Kind[m] = "empty" -> {"ignored_empty_input"}
    [] Kind[m] = "unsupported" -> {"ignored_unsupported_slash", "dispatch_failed"}
    [] OTHER -> {"dispatch_failed"}

-----------------------------------------------------------------------------
(* A delivery reaches the loop.  A message that is not addressed to the    *)
(* bot is ignored, one of an outsider blocked.  For the others the gate on *)
(* the active turn comes first, then the insert into processed_messages,   *)
(* then the session slot.                                                  *)
IsForUs(m) == Kind[m] \notin {"unaddressed", "outsider"}

Gated(m) == activeTurn[SessionOf[m]] # None

SeenWhenStarted(m) == processed[m] = "turn_started"  \* mutant

Seen(m) == processed[m] # "none"

EndEarly(t, m) ==
  /\ \E outcome \in EarlyOutcomes(m) : processed' = [processed EXCEPT ![m] = outcome]
  /\ pc' = [pc EXCEPT ![t] = "done"]
  /\ UNCHANGED <<existing, answer, linkVars, sent>>

Drop(t) ==
  /\ pc' = [pc EXCEPT ![t] = "done"]
  /\ UNCHANGED <<executorVars, processed, existing, answer, linkVars, sent>>

IgnoreUnaddressed(t, m) == Kind[m] = "unaddressed" /\ Drop(t) /\ UNCHANGED alertVars

BlockOutsider(t, m) ==
  /\ Kind[m] = "outsider"
  /\ Drop(t)
  /\ Security!RecordUnauthorizedAttempt(t)

ReceiveBusy(t, m) == Gated(m) /\ Drop(t)
ReceiveDuplicate(t, m) == ~Gated(m) /\ Seen(m) /\ Drop(t)

ReceiveNew(t, m) ==
  /\ ~Gated(m) /\ ~Seen(m)
  /\ \/ /\ Executor!SubmitBrief(t, SessionOf[m])
        /\ EndEarly(t, m)
     \/ /\ Executor!SubmitNow(t, SessionOf[m])
        /\ processed' = [processed EXCEPT ![m] = "accepted"]
        /\ ~Rejected(m) /\ BeginDispatch(t, m)
     \/ /\ Executor!SubmitLater(t, SessionOf[m])
        /\ processed' = [processed EXCEPT ![m] = "accepted"]
        /\ pc' = [pc EXCEPT ![t] = "waiting"]
        /\ UNCHANGED <<existing, answer, linkVars, sent>>

HandleMessage(t, m) ==
  /\ pc[t] = "idle"
  /\ job' = [job EXCEPT ![t] = m]
  /\ \/ IgnoreUnaddressed(t, m)
     \/ BlockOutsider(t, m)
     \/ /\ IsForUs(m)
        /\ ReceiveBusy(t, m) \/ ReceiveDuplicate(t, m) \/ ReceiveNew(t, m)
        /\ UNCHANGED alertVars
  /\ UNCHANGED <<registryVars, sessions, thread, turns, stranded, boundVars>>

(* handle_bot_added: a group gets a new thread, in its session's slot.     *)
BeginJoin(t) ==
  /\ existing' = [existing EXCEPT ![t] = sessions[JoinOf[t]]]
  /\ Request(t, "open")

HandleBotAdded(t) ==
  /\ pc[t] = "idle"
  /\ \/ Executor!SubmitNow(t, JoinOf[t]) /\ BeginJoin(t)
     \/ /\ Executor!SubmitLater(t, JoinOf[t])
        /\ pc' = [pc EXCEPT ![t] = "waiting"]
        /\ UNCHANGED <<existing, answer, linkVars, sent>>
  /\ UNCHANGED <<registryVars, tableVars, job, thread, turns, stranded, alertVars, boundVars>>

(* A waiting task gets its session's slot.  The gate is not looked at      *)
(* again.                                                                  *)
EnterSlot(t) ==
  /\ pc[t] = "waiting"
  /\ \/ /\ t \in Joins
        /\ Executor!Serve(t, ScopeOf(t)) /\ BeginJoin(t) /\ UNCHANGED processed
     \/ /\ t \in Deliveries /\ ~Rejected(job[t])
        /\ Executor!Serve(t, ScopeOf(t)) /\ BeginDispatch(t, job[t]) /\ UNCHANGED processed
     \/ /\ t \in Deliveries
        /\ Executor!ServeBrief(t, ScopeOf(t)) /\ EndEarly(t, job[t])
  /\ UNCHANGED <<registryVars, sessions, job, thread, turns, stranded, alertVars, boundVars>>

-----------------------------------------------------------------------------
(* A task whose Codex request is over runs on.  Its session record may     *)
(* have been read long before; the slot is what keeps it current.          *)
StartTurnOn(t, th) ==
  /\ thread' = [thread EXCEPT ![t] = th]
  /\ Request(t, "turn")

(* handle_message's except branch, then SessionExecutor.run's finally.     *)
AbortQuietly(t) ==  \* mutant: the message keeps its accepted status
  /\ Executor!Finish(t, ScopeOf(t))
  /\ pc' = [pc EXCEPT ![t] = "done"]
  /\ UNCHANGED <<sessions, processed, thread, answer, linkVars, sent>>

Abort(t) ==
  /\ Executor!Finish(t, ScopeOf(t))
  /\ processed' = IF t \in Joins THEN processed
                  ELSE [processed EXCEPT ![job[t]] = "dispatch_failed"]
  /\ pc' = [pc EXCEPT ![t] = "done"]
  /\ UNCHANGED <<sessions, thread, answer, linkVars, sent>>

AdoptInMemory(t) == sessions  \* mutant: the new thread id is not stored

(* Codex resumed the session under another thread id.                      *)
Adopt(t) == [sessions EXCEPT ![ScopeOf(t)] = [existing[t] EXCEPT !.thread = t]]

ThreadResumed(t) ==
  /\ pc[t] = "resume"
  /\ \/ /\ answer[t] = "ok"
        /\ StartTurnOn(t, existing[t].thread)
        /\ UNCHANGED sessions
     \/ /\ answer[t] = "moved"
        /\ sessions' = Adopt(t)
        /\ StartTurnOn(t, t)
     \/ /\ answer[t] = "error"
        /\ Request(t, "open")
        /\ UNCHANGED <<sessions, thread>>
  /\ UNCHANGED <<executorVars, processed, registryVars>>

RotatedRecordUncounted(t) ==  \* mutant: generations start at 0 and stay there
  [thread |-> t,
   generation |-> IF existing[t] = None THEN 0 ELSE existing[t].generation,
   expiresAt |-> IF t \in Joins THEN None ELSE ExpiresAt(ScopeOf(t), SentAt[job[t]])]

(* _create_session_record: the generation follows the record read first.   *)
RotatedRecord(t) ==
  [thread |-> t,
   generation |-> (IF existing[t] = None THEN 0 ELSE existing[t].generation) + 1,
   expiresAt |-> IF t \in Joins THEN None ELSE ExpiresAt(ScopeOf(t), SentAt[job[t]])]

ThreadOpened(t) ==
  /\ pc[t] = "open"
  /\ \/ /\ answer[t] = "ok" /\ t \in Deliveries
        /\ sessions' = [sessions EXCEPT ![ScopeOf(t)] = RotatedRecord(t)]
        /\ StartTurnOn(t, t)
        /\ UNCHANGED <<executorVars, processed>>
     \/ /\ answer[t] = "ok" /\ t \in Joins
        /\ sessions' = [sessions EXCEPT ![ScopeOf(t)] = RotatedRecord(t)]
        /\ Executor!Finish(t, ScopeOf(t))
        /\ pc' = [pc EXCEPT ![t] = "done"]
        /\ UNCHANGED <<processed, thread, answer, linkVars, sent>>
     \/ answer[t] = "error" /\ Abort(t)
  /\ UNCHANGED registryVars

(* ReplyService.start_turn: activate_turn refuses a second active turn of  *)
(* the session, and then no stream is registered.                          *)
CanActivateAlways(s, t) == TRUE  \* mutant: the newer turn takes over

CanActivate(s, t) == activeTurn[s] \in {None, t}

StartReply(s, t) ==
  IF CanActivate(s, t)
  THEN /\ activeTurn' = [activeTurn EXCEPT ![s] = t]
       /\ streams' = streams \cup {t}
  ELSE UNCHANGED registryVars

Touch(s, time) == [sessions EXCEPT ![s].expiresAt = ExpiresAt(s, time)]

TurnAccepted(t) ==
  /\ pc[t] = "turn"
  /\ \/ /\ answer[t] = "ok"
        /\ sessions' = Touch(ScopeOf(t), SentAt[job[t]])
        /\ processed' = [processed EXCEPT ![job[t]] = "turn_started"]
        /\ Executor!Finish(t, ScopeOf(t))
        /\ pc' = [pc EXCEPT ![t] = "done"]
        /\ StartReply(ScopeOf(t), t)
        /\ UNCHANGED <<thread, answer, linkVars, sent>>
     \/ answer[t] = "error" /\ Abort(t) /\ UNCHANGED registryVars

Continue(t) ==
  /\ answer[t] # "none"
  /\ ThreadResumed(t) \/ ThreadOpened(t) \/ TurnAccepted(t)
  /\ UNCHANGED <<job, existing, turns, stranded, alertVars, boundVars>>

-----------------------------------------------------------------------------
(* Codex, as far as the program relies on it: it answers requests in some  *)
(* order, and reports the end of a turn once, after its turn/start answer. *)
CodexAnswers(t) ==
  /\ t \in requests
  /\ requests' = requests \ {t}
  /\ \E r \in {"ok", "error"} \cup (IF pc[t] = "resume" THEN {"moved"} ELSE {}) :
       /\ inbox' = Append(inbox, [type |-> "response", task |-> t, result |-> r])
       /\ turns' = IF pc[t] = "turn" /\ r = "ok" THEN [turns EXCEPT ![t] = "running"] ELSE turns
  /\ UNCHANGED <<executorVars, registryVars, tableVars, taskVars, link, historyVars, alertVars, boundVars>>

CodexEndsTurn(t) ==
  /\ turns[t] = "running"
  /\ turns' = [turns EXCEPT ![t] = "over"]
  /\ inbox' = Append(inbox, [type |-> "turn/completed", task |-> t, result |-> "ok"])
  /\ UNCHANGED <<executorVars, registryVars, tableVars, taskVars, link, requests,
                 historyVars, alertVars, boundVars>>

Interrupted == [t \in Tasks |-> IF turns[t] = "running" THEN "over" ELSE turns[t]]

(* The connection is lost: the client still gets what it had received,     *)
(* then an error, or the end of the stream if the server closed properly.  *)
ConnectionLost ==
  /\ link = "up" /\ crashes + drops < MaxFaults
  /\ drops' = drops + 1
  /\ link' = "closing"
  /\ \E n \in 0..Len(inbox), how \in {"broken", "ended"} :
       inbox' = Append(SubSeq(inbox, 1, n), [type |-> how, task |-> None, result |-> "ok"])
  /\ requests' = {}
  /\ turns' = Interrupted
  /\ UNCHANGED <<executorVars, registryVars, tableVars, taskVars, historyVars, alertVars, crashes>>

-----------------------------------------------------------------------------
(* _receive_loop handles the oldest message.  A notification of a turn     *)
(* without a stream is dropped; _finalize_state ends the active turn.      *)
Unanswered == {t \in Tasks : InFlight(t) /\ answer[t] = "none"}

CompleteTurn(t) ==
  IF t \in streams
  THEN /\ streams' = streams \ {t}
       /\ activeTurn' = [s \in Sessions |-> IF activeTurn[s] = t THEN None ELSE activeTurn[s]]
  ELSE UNCHANGED registryVars

(* A broken connection fails the open requests; one closed properly ends   *)
(* the loop without an exception, and they stay open.                      *)
Receive ==
  /\ inbox # <<>>
  /\ inbox' = Tail(inbox)
  /\ LET msg == Head(inbox)
     IN  \/ /\ msg.type = "response"
            /\ answer' = [answer EXCEPT ![msg.task] = msg.result]
            /\ UNCHANGED <<registryVars, link, stranded>>
         \/ /\ msg.type = "turn/completed"
            /\ CompleteTurn(msg.task)
            /\ UNCHANGED <<answer, link, stranded>>
         \/ /\ msg.type = "broken"
            /\ answer' = [t \in Tasks |-> IF t \in Unanswered THEN "error" ELSE answer[t]]
            /\ link' = "down"
            /\ UNCHANGED <<registryVars, stranded>>
         \/ /\ msg.type = "ended"
            /\ stranded' = stranded \cup Unanswered
            /\ link' = "down"
            /\ UNCHANGED <<registryVars, answer>>
  /\ UNCHANGED <<executorVars, tableVars, pc, job, existing, thread, requests, turns,
                 sent, alertVars, boundVars>>

(* The rest of _handle_unauthorized_message.                               *)
ReportOutsider(t) ==
  /\ Security!SendOwnerAlert(t) \/ Security!MarkAlert(t)
  /\ UNCHANGED <<executorVars, registryVars, tableVars, taskVars, linkVars, turns,
                 historyVars, boundVars>>

(* The process dies and starts again: only the tables survive, and run()   *)
(* connects before it takes messages.                                      *)
Restart ==
  /\ crashes + drops < MaxFaults
  /\ crashes' = crashes + 1
  /\ queue' = [s \in Sessions |-> <<>>]
  /\ serving' = [s \in Sessions |-> None]
  /\ served' = served \cup {t \in Tasks : pc[t] # "idle"}
  /\ activeTurn' = [s \in Sessions |-> None] /\ streams' = {}
  /\ pc' = [t \in Tasks |-> IF pc[t] = "idle" THEN "idle" ELSE "done"]
  /\ existing' = [t \in Tasks |-> None] /\ thread' = [t \in Tasks |-> None]
  /\ answer' = [t \in Tasks |-> "none"]
  /\ link' = "up" /\ requests' = {} /\ inbox' = <<>>
  /\ turns' = Interrupted
  /\ Security!ProcessEnds
  /\ UNCHANGED <<tableVars, job, historyVars, drops>>

Next ==
  \/ \E t \in Deliveries, m \in Messages : HandleMessage(t, m)
  \/ \E t \in Joins : HandleBotAdded(t)
  \/ \E t \in Tasks : EnterSlot(t) \/ Continue(t)
  \/ \E t \in Tasks : CodexAnswers(t) \/ CodexEndsTurn(t)
  \/ \E t \in Deliveries : ReportOutsider(t)
  \/ ConnectionLost
  \/ Receive
  \/ Restart

Spec == Init /\ [][Next]_vars

(* The loop runs every task that can go on, and the receive loop.          *)
FairSpec ==
  /\ Spec
  /\ WF_vars(Receive)
  /\ \A t \in Tasks : WF_vars(EnterSlot(t)) /\ WF_vars(Continue(t))
  /\ \A t \in Deliveries : WF_vars(ReportOutsider(t))

-----------------------------------------------------------------------------
Statuses == {"none", "accepted", "turn_started", "dispatch_failed",
             "ignored_empty_input", "ignored_unsupported_slash"}
Answers == {"none", "ok", "moved", "error"}
CodexMessages ==
  [type : {"response", "turn/completed"}, task : Tasks, result : Answers \ {"none"}]
    \cup [type : {"broken", "ended"}, task : {None}, result : {"ok"}]

(* Tables, registries and tasks hold values of their types.                *)
TypeOK ==
  /\ serving \in [Sessions -> Tasks \cup {None}] /\ served \subseteq Tasks
  /\ queue \in [Sessions -> Seq(Tasks)]
  /\ activeTurn \in [Sessions -> Deliveries \cup {None}] /\ streams \subseteq Deliveries
  /\ sessions \in [Sessions -> Records \cup {None}]
  /\ processed \in [Messages -> Statuses]
  /\ pc \in [Tasks -> {"idle", "waiting", "resume", "open", "turn", "done"}]
  /\ job \in [Deliveries -> Messages \cup {None}]
  /\ existing \in [Tasks -> Records \cup {None}]
  /\ thread \in [Tasks -> Tasks \cup {None}]
  /\ answer \in [Tasks -> Answers]
  /\ link \in {"up", "closing", "down"} /\ requests \subseteq Tasks
  /\ inbox \in Seq(CodexMessages)
  /\ turns \in [Tasks -> {"none", "running", "over"}]
  /\ sent \subseteq Deliveries /\ stranded \subseteq Tasks
  /\ Security!AlertsTypeOK
  /\ crashes \in Nat /\ drops \in Nat

(* A message is forwarded to Codex at most once, whatever is redelivered,  *)
(* fails, reconnects or crashes in between (processed_messages).           *)
ForwardedAtMostOnce ==
  \A t, u \in sent : job[t] = job[u] => t = u

(* While the process lives, a message marked accepted is being worked on:  *)
(* every way out of handle_message leaves a final status.                  *)
AcceptedIsInProgress ==
  crashes = 0 => \A m \in Messages : processed[m] = "accepted" =>
    \E t \in Deliveries : job[t] = m /\ (pc[t] = "waiting" \/ InFlight(t))

(* The thread a turn is started on is still the session's thread when the  *)
(* turn is accepted, although the record was read several awaits earlier.  *)
TurnOnSessionThread ==
  \A t \in Deliveries : pc[t] = "turn" =>
    /\ sessions[ScopeOf(t)] # None
    /\ sessions[ScopeOf(t)].thread = thread[t]

(* No rotation of a session's thread is lost: the record that a task       *)
(* replaces is still the one it read when its operation began, several     *)
(* awaits before, so that generations follow one another.                  *)
RotationsAreSerial ==
  [][\A t \in Tasks :
       /\ pc[t] \in {"resume", "open"} /\ pc'[t] # pc[t]
       /\ sessions'[ScopeOf(t)] # sessions[ScopeOf(t)]
       => existing[t] = sessions[ScopeOf(t)]]_sessions

(* A session streams one turn at most, the active one, so two messages     *)
(* never write the same reply and the gate knows of every stream.          *)
OneStreamPerSession ==
  /\ \A t \in streams : activeTurn[ScopeOf(t)] = t
  /\ \A s \in Sessions : activeTurn[s] # None => activeTurn[s] \in streams

(* If Codex answers what it is asked, every accepted message gets a final  *)
(* status, unless the process dies first, or the server has closed the     *)
(* connection properly while a request of that session was open: that      *)
(* request is never failed (_receive_loop), and it keeps the slot.         *)
AcceptedIsSettled ==
  (\A t \in Tasks : t \in requests ~> t \notin requests)
    => \A m \in Messages : processed[m] = "accepted" ~>
         \/ processed[m] # "accepted" \/ crashes > 0
         \/ \E t \in stranded : ScopeOf(t) = SessionOf[m]

Outsider(t) == job[t] # None /\ Kind[job[t]] = "outsider"

(* A message of a user outside the whitelist reaches neither the table of  *)
(* processed messages nor Codex, and its row tells what the owner got: an  *)
(* alert marked as sent has arrived, and only the end of the process can   *)
(* leave the row as it was made.                                           *)
OutsidersAreReported ==
  \A t \in Deliveries :
    /\ Outsider(t) => processed[job[t]] = "none" /\ t \notin sent
    /\ alerts[t] # "none" <=> Outsider(t)
    /\ alerts[t] = "alert_sent" => t \in told
    /\ alerts[t] = "blocked" => crashes > 0 \/ alertStep[t] # "over"

-----------------------------------------------------------------------------
(* The inductive invariant behind the properties above, part by part.      *)

Working(t) == pc[t] = "waiting" \/ InFlight(t)
Took(t) == Working(t) \/ t \in sent

(* A task that has yet to begin has left no trace; a bot-added event only  *)
(* opens a thread; whoever works for a message works for one of the bot's. *)
TasksFit ==
  /\ \A t \in Tasks : pc[t] = "idle" => t \notin sent \cup streams
  /\ \A t \in Deliveries : job[t] = None <=> pc[t] = "idle"
  /\ \A t \in Tasks : pc[t] \in {"resume", "turn"} => t \in Deliveries
  /\ \A t \in Deliveries : Working(t) => IsForUs(job[t])

(* The slot of a session is that of the one task of it that is in flight.  *)
SlotIsHeld ==
  /\ \A s \in Sessions : serving[s] # None => InFlight(serving[s]) /\ ScopeOf(serving[s]) = s
  /\ \A t \in Tasks : InFlight(t) => serving[ScopeOf(t)] = t

(* Those queued for the slot wait for that session, each once.             *)
QueuedTasksWait ==
  \A s \in Sessions : \A i \in 1..Len(queue[s]) :
    /\ pc[queue[s][i]] = "waiting" /\ ScopeOf(queue[s][i]) = s
    /\ \A j \in 1..Len(queue[s]) : queue[s][i] = queue[s][j] => i = j

(* A message that a task took is marked, by that task alone.               *)
EachMessageHasOneTaker ==
  /\ \A m \in Messages : processed[m] # "none" => IsForUs(m)
  /\ \A t \in Deliveries : Took(t) => processed[job[t]] # "none"
  /\ \A t, u \in Deliveries : Took(t) /\ Took(u) /\ job[t] = job[u] => t = u

(* The record a task has read is still in the table until it writes.       *)
SlotKeepsRecord ==
  \A t \in Tasks :
    /\ pc[t] \in {"resume", "open"} => existing[t] = sessions[ScopeOf(t)]
    /\ pc[t] = "resume" => existing[t] # None

(* An alert advances with its row.                                         *)
AlertsAdvance ==
  \A t \in Deliveries :
    /\ alertStep[t] = "none" <=> alerts[t] = "none"
    /\ alertStep[t] = "mark sent" => t \in told

IInv ==
  /\ TypeOK
  /\ TasksFit
  /\ SlotIsHeld
  /\ QueuedTasksWait
  /\ EachMessageHasOneTaker
  /\ AcceptedIsInProgress
  /\ SlotKeepsRecord
  /\ TurnOnSessionThread
  /\ OneStreamPerSession
  /\ AlertsAdvance
  /\ OutsidersAreReported

-----------------------------------------------------------------------------
(* What the repository says and the code does not do.                      *)

(* design.md 4.3: a session has one active turn at any time.               *)
OneActiveTurnPerSession ==
  \A t, u \in Tasks :
    turns[t] = "running" /\ turns[u] = "running" /\ ScopeOf(t) = ScopeOf(u) => t = u

(* design.md 7.1: the completion of a turn ends its reply; until then the  *)
(* turn runs, or its completion is on its way.                             *)
CompletionEndsReply ==
  \A t \in streams :
    \/ turns[t] = "running"
    \/ \E i \in 1..Len(inbox) : inbox[i].type = "turn/completed" /\ inbox[i].task = t

(* design.md 8.3: when the connection is lost the turns in flight are      *)
(* failed and their reactions removed.                                     *)
LossEndsReplies == link = "down" => streams = {}
=============================================================================
