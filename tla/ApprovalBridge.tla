--------------------------- MODULE ApprovalBridge ---------------------------
(***************************************************************************)
(* Requests Codex makes of the user (ApprovalService, the card and command *)
(* handlers of runtime.py, and the table pending_actions).                 *)
(*                                                                         *)
(* A request becomes a card, or a text for user input, and a row keyed by  *)
(* its JSON-RPC id; the answer comes back later, from a click on the card, *)
(* or from an /approve or /input command naming the id.  Feishu and SQLite *)
(* calls are synchronous: a response suspends only in the Codex client,    *)
(* before its message is sent (connecting) or after (a full buffer), and a *)
(* click updates its card in a task of its own.                            *)
(*                                                                         *)
(* Codex numbers its requests from 0 each time it starts, and ignores an   *)
(* answer to a number that is not open.                                    *)
(***************************************************************************)
EXTENDS Integers, FiniteSets

CONSTANTS
  Requests,          \* what Codex asks for
  Kind,              \* what kind of request each of them is
  Secret,            \* the requests for input that are secret and come from a group
  Tasks,             \* deliveries of clicks and of commands
  Decisions,         \* what a user may decide
  MaxCodexRestarts,  \* bound
  MaxRestarts,       \* bound on restarts of the program
  MaxFailures,       \* bound on failing calls
  None

Payloads == Decisions \cup {"permissions", "no permissions"}
Rows == [request : Requests,
         status : {"pending", "awaiting_private_reply", "approved", "rejected", "completed"},
         response : Payloads \cup {None}, sequence : Nat]
Prompts == [shown : Payloads \cup {None}, sequence : Nat]

ASSUME ApprovalAssumption ==
  /\ IsFiniteSet(Requests) /\ IsFiniteSet(Tasks)
  /\ Kind \in [Requests -> {"command", "file", "permissions", "empty permissions", "input"}]
  /\ Secret \subseteq {r \in Requests : Kind[r] = "input"}
  /\ Decisions # {} /\ None \notin Requests \cup Decisions \cup Rows \cup Prompts
  /\ MaxCodexRestarts \in Nat /\ MaxRestarts \in Nat /\ MaxFailures \in Nat

VARIABLES
  asked,      \* Codex: how each request stands
  answer,     \* Codex: the decision it took for each request
  id,         \* the JSON-RPC id of each request
  nextId,     \* Codex: the next number
  actions,    \* table pending_actions (persistent)
  prompts,    \* Feishu: the prompt of each request: what it shows, its sequence
  pc,         \* what each task awaits
  job,        \* what each task was asked to do
  record,     \* the row a task has read, with the response it will store
  responses,  \* history: <<task, request>> for each response sent
  codexRestarts, restarts, failures

codexVars == <<asked, answer, id, nextId, codexRestarts>>
taskVars == <<pc, job, record>>
vars == <<codexVars, actions, prompts, taskVars, responses, restarts, failures>>

Ids == 0..Cardinality(Requests) - 1
NoJob == [via |-> "none", id |-> 0, decision |-> None, card |-> None]

Init ==
  /\ asked = [r \in Requests |-> "no"] /\ answer = [r \in Requests |-> None]
  /\ id = [r \in Requests |-> 0] /\ nextId = 0
  /\ actions = [i \in Ids |-> None]
  /\ prompts = [r \in Requests |-> None]
  /\ pc = [t \in Tasks |-> "idle"] /\ job = [t \in Tasks |-> NoJob]
  /\ record = [t \in Tasks |-> None]
  /\ responses = {}
  /\ codexRestarts = 0 /\ restarts = 0 /\ failures = 0

IsApproval(r) == Kind[r] # "input"

MayFail == failures < MaxFailures /\ failures' = failures + 1

-----------------------------------------------------------------------------
(* handle_server_request: the prompt, then the row.  Codex gets an error   *)
(* when the turn is not known, or the prompt cannot be sent.  The prompt of*)
(* a secret request in a group asks for a private answer.                  *)
FreshRow(r) ==
  [request |-> r, status |-> IF r \in Secret THEN "awaiting_private_reply" ELSE "pending",
   response |-> None, sequence |-> 0]

HandleServerRequest(r) ==
  /\ asked[r] = "no"
  /\ id' = [id EXCEPT ![r] = nextId]
  /\ nextId' = nextId + 1
  /\ \/ /\ asked' = [asked EXCEPT ![r] = "open"]
        /\ prompts' = [prompts EXCEPT ![r] = [shown |-> None, sequence |-> 0]]
        /\ actions' = [actions EXCEPT ![nextId] = FreshRow(r)]
        /\ UNCHANGED failures
     \/ /\ asked' = [asked EXCEPT ![r] = "refused"]
        /\ MayFail \/ UNCHANGED failures
        /\ UNCHANGED <<prompts, actions>>
  /\ UNCHANGED <<answer, codexRestarts, taskVars, responses, restarts>>

(* A click is not taken for a row that is no longer pending; a command is. *)
IsPending(row) == row.status = "pending"

(* What a decision answers: permissions are granted as asked for, which    *)
(* may be none at all, or not.                                             *)
Granting == {"accept", "acceptForSession", "approved"}

Payload(r, decision) ==
  CASE Kind[r] = "permissions" /\ decision \in Granting -> "permissions"
    [] Kind[r] = "permissions" /\ decision \notin Granting -> "no permissions"
    [] Kind[r] = "empty permissions" -> "no permissions"
    [] OTHER -> decision

Click(t, r, decision) ==
  /\ pc[t] = "idle" /\ IsApproval(r) /\ prompts[r] # None
  /\ job' = [job EXCEPT ![t] = [via |-> "click", id |-> id[r], decision |-> decision, card |-> r]]
  /\ LET row == actions[id[r]]
     IN  \/ /\ IsPending(row) /\ IsApproval(row.request)
            /\ record' = [record EXCEPT ![t] = [row EXCEPT !.response = Payload(row.request, decision)]]
            /\ pc' = [pc EXCEPT ![t] = "responding"]
         \/ /\ ~(IsPending(row) /\ IsApproval(row.request))
            /\ pc' = [pc EXCEPT ![t] = "done"]
            /\ UNCHANGED record
  /\ UNCHANGED <<codexVars, actions, prompts, responses, restarts, failures>>

(* /approve and /input, each for its kind of request.                      *)
Command(t, i, decision) ==
  /\ pc[t] = "idle" /\ actions[i] # None
  /\ job' = [job EXCEPT ![t] = [via |-> "command", id |-> i, decision |-> decision, card |-> None]]
  /\ record' = [record EXCEPT ![t] = [actions[i] EXCEPT !.response = Payload(actions[i].request, decision)]]
  /\ pc' = [pc EXCEPT ![t] = "responding"]
  /\ UNCHANGED <<codexVars, actions, prompts, responses, restarts, failures>>

(* respond_to_server_request sends, or raises.                             *)
OpenRequest(i) == {r \in Requests : asked[r] = "open" /\ id[r] = i}

RespondCatchingErrors(t) ==  \* mutant: what was not sent is stored all the same
  /\ pc[t] = "responding"
  /\ MayFail
  /\ pc' = [pc EXCEPT ![t] = "sent"]
  /\ UNCHANGED <<codexVars, actions, prompts, job, record, responses, restarts>>

Respond(t) ==
  /\ pc[t] = "responding"
  /\ \/ /\ responses' = responses \cup {<<t, record[t].request>>}
        /\ asked' = [r \in Requests |-> IF r \in OpenRequest(job[t].id) THEN "answered" ELSE asked[r]]
        /\ answer' = [r \in Requests |->
                       IF r \in OpenRequest(job[t].id) THEN record[t].response ELSE answer[r]]
        /\ pc' = [pc EXCEPT ![t] = "sent"]
        /\ UNCHANGED failures
     \/ /\ MayFail
        /\ pc' = [pc EXCEPT ![t] = "done"]
        /\ UNCHANGED <<responses, asked, answer>>
  /\ UNCHANGED <<id, nextId, codexRestarts, actions, prompts, job, record, restarts>>

-----------------------------------------------------------------------------
StatusAsDecided(r, payload) == payload  \* mutant

Approving == Granting \cup {"approved_for_session", "permissions"}

StatusOf(r, payload) ==
  IF Kind[r] = "input" THEN "completed"
  ELSE IF payload \in Approving THEN "approved" ELSE "rejected"

(* _persist_response stores the row read before the response was sent.     *)
Persisted(row) == [row EXCEPT !.status = StatusOf(row.request, row.response)]

(* _update_prompt_after_response stores the payload it holds with the next *)
(* sequence, keeping the status in the table, and redraws the card; Feishu *)
(* refuses a sequence that is not above the last.  A text has no sequence. *)
SameSequence(row) == row.sequence  \* mutant
NextSequence(row) == row.sequence + 1

UpdatePrompt(table, i, row) ==
  LET n == NextSequence(row)
      drawn == [shown |-> row.response, sequence |-> n]
      p == row.request
  IN  \/ /\ IsApproval(p)
         /\ actions' = [table EXCEPT ![i] = [row EXCEPT !.sequence = n, !.status = table[i].status]]
         /\ \/ /\ prompts' = [prompts EXCEPT ![p] = IF n > prompts[p].sequence THEN drawn ELSE @]
               /\ UNCHANGED failures
            \/ MayFail /\ UNCHANGED prompts
      \/ /\ ~IsApproval(p)
         /\ actions' = table
         /\ \/ prompts' = [prompts EXCEPT ![p].shown = row.response] /\ UNCHANGED failures
            \/ MayFail /\ UNCHANGED prompts

Persist(t) ==
  /\ pc[t] = "sent"
  /\ LET i == job[t].id
         row == Persisted(record[t])
         table == [actions EXCEPT ![i] = row]
     IN  \/ /\ job[t].via = "click"
            /\ actions' = table
            /\ record' = [record EXCEPT ![t] = row]
            /\ pc' = [pc EXCEPT ![t] = "finalizing"]
            /\ UNCHANGED <<prompts, failures>>
         \/ /\ job[t].via = "command"
            /\ UpdatePrompt(table, i, row)
            /\ pc' = [pc EXCEPT ![t] = "done"]
            /\ UNCHANGED record
  /\ UNCHANGED <<codexVars, job, responses, restarts>>

(* _finalize_card_action_async.                                            *)
FinalizeClick(t) ==
  /\ pc[t] = "finalizing"
  /\ UpdatePrompt(actions, job[t].id, record[t])
  /\ pc' = [pc EXCEPT ![t] = "done"]
  /\ UNCHANGED <<codexVars, job, record, responses, restarts>>

-----------------------------------------------------------------------------
(* Codex starts again: its open requests are gone.                         *)
CodexRestarts ==
  /\ codexRestarts < MaxCodexRestarts
  /\ codexRestarts' = codexRestarts + 1
  /\ nextId' = 0
  /\ asked' = [r \in Requests |-> IF asked[r] = "open" THEN "lost" ELSE asked[r]]
  /\ UNCHANGED <<answer, id, actions, prompts, taskVars, responses, restarts, failures>>

(* The program starts again: tasks are gone, the table and the cards stay; *)
(* Codex may drop what it asked over the connection that was lost.         *)
Restart ==
  /\ restarts < MaxRestarts
  /\ restarts' = restarts + 1
  /\ \/ UNCHANGED asked
     \/ asked' = [r \in Requests |-> IF asked[r] = "open" THEN "lost" ELSE asked[r]]
  /\ pc' = [t \in Tasks |-> IF pc[t] = "idle" THEN "idle" ELSE "done"]
  /\ UNCHANGED <<answer, id, nextId, codexRestarts, actions, prompts, job, record, responses, failures>>

Next ==
  \/ \E r \in Requests : HandleServerRequest(r)
  \/ \E t \in Tasks, r \in Requests, d \in Decisions : Click(t, r, d)
  \/ \E t \in Tasks, i \in Ids, d \in Decisions : Command(t, i, d)
  \/ \E t \in Tasks : Respond(t) \/ Persist(t) \/ FinalizeClick(t)
  \/ CodexRestarts
  \/ Restart

Spec == Init /\ [][Next]_vars

-----------------------------------------------------------------------------
(* Rows, cards and tasks hold values of their types; a row has one of the  *)
(* statuses that the card and the start-up report know.                    *)
TypeOK ==
  /\ asked \in [Requests -> {"no", "open", "answered", "refused", "lost"}]
  /\ answer \in [Requests -> Payloads \cup {None}]
  /\ id \in [Requests -> Ids] /\ nextId \in Nat
  /\ actions \in [Ids -> Rows \cup {None}]
  /\ prompts \in [Requests -> Prompts \cup {None}]
  /\ pc \in [Tasks -> {"idle", "responding", "sent", "finalizing", "done"}]
  /\ job \in [Tasks -> [via : {"none", "click", "command"}, id : Nat,
                        decision : Decisions \cup {None}, card : Requests \cup {None}]]
  /\ record \in [Tasks -> Rows \cup {None}]
  /\ responses \subseteq Tasks \X Requests
  /\ codexRestarts \in Nat /\ restarts \in Nat /\ failures \in Nat

Reused(r) == \E q \in Requests \ {r} : asked[q] # "no" /\ id[q] = id[r]
Idle(r) == \A t \in Tasks : record[t] # None /\ record[t].request = r => pc[t] = "done"
Responders(r) == {t \in Tasks : <<t, r>> \in responses}

(* A response the table holds was sent to Codex before, whatever failed or *)
(* restarted, and whichever row was overwritten by a stale one.            *)
StoredResponseWasSent ==
  \A i \in Ids : actions[i] # None /\ actions[i].response # None =>
    \E t \in Responders(actions[i].request) :
        actions[i].response = Payload(actions[i].request, job[t].decision)

(* While Codex waits for an answer, the row still takes it, whoever is     *)
(* giving one: a response that failed, or died with the process, can be    *)
(* given again.                                                            *)
OpenRequestIsAnswerable ==
  \A r \in Requests : asked[r] = "open" /\ ~Reused(r) =>
    /\ actions[id[r]] # None /\ actions[id[r]].request = r
    /\ actions[id[r]].status = FreshRow(r).status

(* A request answered once ends up the same in Codex, the table and on its *)
(* card, when nothing fails and its number is not used again.              *)
SingleAnswerAgrees ==
  \A r \in Requests, t \in Tasks :
    /\ Responders(r) = {t} /\ Idle(r) /\ ~Reused(r)
    /\ failures = 0 /\ restarts = 0
    => /\ actions[id[r]].request = r
       /\ actions[id[r]].status = StatusOf(r, Payload(r, job[t].decision))
       /\ prompts[r].shown = Payload(r, job[t].decision)
       /\ answer[r] \in {Payload(r, job[t].decision), None}

-----------------------------------------------------------------------------
(* The inductive invariant behind these properties, part by part.          *)

(* A row is that of a request Codex made under the row's number, and every *)
(* prompt finds one.                                                       *)
Known(r, i) == asked[r] # "no" /\ id[r] = i /\ prompts[r] # None

RowsAreKnown ==
  /\ \A i \in Ids : actions[i] # None => Known(actions[i].request, i)
  /\ \A r \in Requests : prompts[r] # None => asked[r] # "no" /\ actions[id[r]] # None

(* Numbers are left for the requests that Codex has yet to make.           *)
NumbersLast == nextId <= Cardinality({r \in Requests : asked[r] # "no"})

(* A task under way holds such a row and the response its user decided on; *)
(* once that is sent, Codex waits for it no more.                          *)
TasksHoldRows ==
  \A t \in Tasks :
    /\ pc[t] \in {"responding", "sent", "finalizing"} =>
         /\ record[t] # None /\ Known(record[t].request, job[t].id)
         /\ record[t].response = Payload(record[t].request, job[t].decision)
    /\ pc[t] \in {"sent", "finalizing"} =>
         <<t, record[t].request>> \in responses /\ asked[record[t].request] # "open"
    /\ pc[t] = "finalizing" => job[t].via = "click"

RespondersHoldRows ==
  \A t \in Tasks, r \in Requests : <<t, r>> \in responses =>
    /\ pc[t] \in {"sent", "finalizing", "done"} /\ asked[r] # "no"
    /\ record[t] # None /\ record[t].request = r

(* Codex took a decision only from a task that sent it, for that request   *)
(* unless the number was used again.                                       *)
AnswersWereGiven ==
  \A r \in Requests : answer[r] # None =>
    /\ asked[r] # "no"
    /\ ~Reused(r) => \E t \in Responders(r) : answer[r] = Payload(r, job[t].decision)

(* Only a task that is done has redrawn a card.                            *)
CardsWereRedrawn ==
  \A r \in Requests : prompts[r] # None /\ prompts[r].sequence # 0 =>
    \E t \in Responders(r) : pc[t] = "done"

(* As SingleAnswerAgrees, from the moment that the response is stored.     *)
Agreed(r, payload) ==
  LET row == actions[id[r]]
  IN  row # None /\ row.request = r /\ row.status = StatusOf(r, payload)

SingleAnswerIsStored ==
  failures = 0 /\ restarts = 0 =>
    \A r \in Requests, t \in Tasks : Responders(r) = {t} /\ ~Reused(r) =>
      /\ pc[t] \in {"finalizing", "done"} => Agreed(r, Payload(r, job[t].decision))
      /\ pc[t] = "done" => prompts[r].shown = Payload(r, job[t].decision)

IInv ==
  /\ TypeOK
  /\ NumbersLast
  /\ RowsAreKnown
  /\ TasksHoldRows
  /\ RespondersHoldRows
  /\ AnswersWereGiven
  /\ CardsWereRedrawn
  /\ StoredResponseWasSent
  /\ OpenRequestIsAnswerable
  /\ SingleAnswerIsStored

-----------------------------------------------------------------------------
(* What the repository says and the code does not do.                      *)

(* design.md 7.7: a card shows one request, and the decision the user      *)
(* clicks on it is the answer to that request.                             *)
ClickAnswersItsRequest ==
  [][\A t \in Tasks, r \in Requests :
       pc[t] = "responding" /\ pc'[t] = "sent" /\ asked[r] = "open" /\ asked'[r] = "answered"
         => job[t].card \in {r, None}]_vars
=============================================================================
