------------------------ MODULE ApprovalBridgeProofs ------------------------
(* Proofs about ApprovalBridge for any requests, tasks and decisions.      *)
EXTENDS ApprovalBridge, FiniteSetTheorems, TLAPS

(* Rows, prompts and decisions are not mistaken for None.                  *)
LEMMA Distinct ==
  /\ None \notin Requests /\ None \notin Decisions /\ None \notin Rows /\ None \notin Prompts
  /\ \A r \in Requests : [shown |-> None, sequence |-> 0] \in Prompts /\ FreshRow(r) \in Rows
  BY ApprovalAssumption DEF Prompts, Rows, FreshRow

LEMMA PayloadType ==
  ASSUME NEW r \in Requests, NEW d \in Decisions
  PROVE  Payload(r, d) \in Payloads
  BY DEF Payload, Payloads

(* The next number is one of Ids while Codex has a request to make.        *)
LEMMA NextNumber ==
  ASSUME TypeOK, NumbersLast, NEW r \in Requests, asked[r] = "no"
  PROVE  /\ nextId \in Ids
         /\ Cardinality({q \in Requests : asked[q] # "no"} \cup {r})
              = Cardinality({q \in Requests : asked[q] # "no"}) + 1
         /\ Cardinality({q \in Requests : asked[q] # "no"}) \in Nat
  <1> DEFINE made == {q \in Requests : asked[q] # "no"}
  <1>1. IsFiniteSet(made) /\ IsFiniteSet(Requests) /\ made \cup {r} \subseteq Requests /\ r \notin made
    BY ApprovalAssumption, FS_Subset
  <1>2. Cardinality(made \cup {r}) = Cardinality(made) + 1
    BY <1>1, FS_AddElement
  <1>3. Cardinality(made \cup {r}) <= Cardinality(Requests)
    BY <1>1, FS_Subset
  <1>4. Cardinality(made) \in Nat /\ Cardinality(Requests) \in Nat
    BY <1>1, FS_CardinalityType
  <1>5. nextId \in Nat /\ nextId <= Cardinality(made)
    BY DEF TypeOK, NumbersLast
  <1> HIDE DEF made
  <1>6. nextId \in 0..Cardinality(Requests) - 1
    BY <1>2, <1>3, <1>4, <1>5
  <1> QED
    BY <1>2, <1>4, <1>6 DEF Ids, made

LEMMA InitEstablishes == Init => IInv
  <1> SUFFICES ASSUME Init
               PROVE  IInv
    OBVIOUS
  <1>1. TypeOK
    <2>1. ASSUME NEW r \in Requests
          PROVE  0 \in Ids
      <3>1. Cardinality(Requests) \in Nat /\ Cardinality(Requests) # 0
        BY ApprovalAssumption, FS_CardinalityType, FS_EmptySet
      <3> QED
        BY <3>1 DEF Ids
    <2>2. id \in [Requests -> Ids]
      BY <2>1 DEF Init
    <2> QED
      BY <2>2 DEF Init, TypeOK, NoJob
  <1>2. NumbersLast
    <2>1. {r \in Requests : asked[r] # "no"} = {}
      BY DEF Init
    <2> QED
      BY <2>1, FS_EmptySet DEF Init, NumbersLast
  <1>3. RowsAreKnown /\ TasksHoldRows /\ RespondersHoldRows
    BY DEF Init, RowsAreKnown, TasksHoldRows, RespondersHoldRows
  <1>4. AnswersWereGiven /\ CardsWereRedrawn /\ StoredResponseWasSent /\ OpenRequestIsAnswerable
    BY DEF Init, AnswersWereGiven, CardsWereRedrawn, StoredResponseWasSent, OpenRequestIsAnswerable
  <1>5. SingleAnswerIsStored
    BY DEF Init, SingleAnswerIsStored, Responders
  <1> QED
    BY <1>1, <1>2, <1>3, <1>4, <1>5 DEF IInv

-----------------------------------------------------------------------------
(* handle_server_request: a row of its own, unless the number was used     *)
(* before; then the earlier request is Reused from now on.                 *)
LEMMA RequestKeepsIInv ==
  ASSUME IInv, NEW r \in Requests, HandleServerRequest(r)
  PROVE  IInv'
  <1>1. /\ TypeOK /\ NumbersLast /\ RowsAreKnown /\ TasksHoldRows /\ RespondersHoldRows
        /\ AnswersWereGiven /\ CardsWereRedrawn /\ StoredResponseWasSent
        /\ OpenRequestIsAnswerable /\ SingleAnswerIsStored
    BY DEF IInv
  <1> PICK i : i = nextId
    OBVIOUS
  <1>2. /\ asked[r] = "no" /\ i \in Ids /\ i \in Nat
        /\ id' = [id EXCEPT ![r] = i] /\ nextId' = i + 1
        /\ UNCHANGED <<answer, codexRestarts, pc, job, record, responses, restarts>>
    BY <1>1, NextNumber DEF HandleServerRequest, taskVars, TypeOK
  <1>3. \/ /\ asked' = [asked EXCEPT ![r] = "open"]
           /\ prompts' = [prompts EXCEPT ![r] = [shown |-> None, sequence |-> 0]]
           /\ actions' = [actions EXCEPT ![i] = FreshRow(r)]
           /\ UNCHANGED failures
        \/ /\ asked' = [asked EXCEPT ![r] = "refused"]
           /\ failures' \in {failures, failures + 1}
           /\ UNCHANGED <<prompts, actions>>
    BY DEF HandleServerRequest, MayFail
  <1>4. TypeOK'
    <2>1. /\ asked' \in [Requests -> {"no", "open", "answered", "refused", "lost"}]
          /\ id' \in [Requests -> Ids] /\ nextId' \in Nat /\ failures' \in Nat
      BY <1>1, <1>2, <1>3 DEF TypeOK
    <2>2. actions' \in [Ids -> Rows \cup {None}] /\ prompts' \in [Requests -> Prompts \cup {None}]
      BY <1>1, <1>2, <1>3, Distinct DEF TypeOK
    <2> QED
      BY <1>1, <1>2, <2>1, <2>2 DEF TypeOK
  <1>5. /\ asked'[r] \in {"open", "refused"} /\ id'[r] = i
        /\ \A q \in Requests : q # r => asked'[q] = asked[q] /\ id'[q] = id[q] /\ prompts'[q] = prompts[q]
        /\ \A j \in Ids : j # i => actions'[j] = actions[j]
    BY <1>1, <1>2, <1>3 DEF TypeOK
  <1>6. \/ /\ asked'[r] = "open" /\ prompts'[r] = [shown |-> None, sequence |-> 0]
           /\ actions'[i] = FreshRow(r) /\ failures' = failures
        \/ /\ asked'[r] = "refused" /\ prompts'[r] = prompts[r] /\ actions'[i] = actions[i]
           /\ failures' = 0 => failures = 0
    BY <1>1, <1>2, <1>3 DEF TypeOK
  <1>7. /\ prompts[r] = None /\ answer[r] = None /\ \A t \in Tasks : <<t, r>> \notin responses
        /\ \A j \in Ids : actions[j] # None => actions[j].request \in Requests \ {r}
    <2>1. \A j \in Ids : actions[j] # None => actions[j] \in Rows
      BY <1>1 DEF TypeOK
    <2> QED
      BY <1>1, <1>2, <2>1 DEF RowsAreKnown, Known, AnswersWereGiven, RespondersHoldRows, Rows
  <1>8. \A q \in Requests, j \in Ids : q # r /\ Known(q, j) => Known(q, j)'
    BY <1>5 DEF Known
  <1>9. \A q \in Requests : q # r => /\ Reused(q) => Reused(q)'
                                     /\ id[q] = i => Reused(q)'
    BY <1>2, <1>5 DEF Reused
  <1>10. NumbersLast'
    <2>1. {q \in Requests : asked'[q] # "no"} = {q \in Requests : asked[q] # "no"} \cup {r}
      BY <1>5
    <2>2. i <= Cardinality({q \in Requests : asked[q] # "no"})
      BY <1>1 DEF NumbersLast
    <2> QED
      BY <1>1, <1>2, <2>1, <2>2, NextNumber DEF NumbersLast
  <1>11. RowsAreKnown'
    <2>1. ASSUME NEW j \in Ids, actions'[j] # None
          PROVE  LET q == actions'[j].request
                 IN  asked'[q] # "no" /\ id'[q] = j /\ prompts'[q] # None
      <3>1. CASE actions'[j] = actions[j]
        BY <1>1, <1>7, <1>8, <2>1, <3>1 DEF RowsAreKnown, Known
      <3>2. CASE j = i /\ actions'[i] = FreshRow(r) /\ prompts'[r] = [shown |-> None, sequence |-> 0]
        BY <1>5, <3>2, Distinct DEF FreshRow, Known
      <3> QED
        BY <1>5, <1>6, <3>1, <3>2
    <2>2. ASSUME NEW q \in Requests, prompts'[q] # None
          PROVE  asked'[q] # "no" /\ actions'[id'[q]] # None
      <3>1. CASE q = r
        BY <1>5, <1>6, <1>7, <2>2, <3>1, Distinct
      <3>2. CASE q # r
        <4>1. asked[q] # "no" /\ actions[id[q]] # None /\ id[q] \in Ids
          BY <1>1, <1>5, <2>2, <3>2 DEF RowsAreKnown, TypeOK
        <4> QED
          BY <1>5, <1>6, <3>2, <4>1, Distinct
      <3> QED
        BY <3>1, <3>2
    <2> QED
      BY <2>1, <2>2 DEF RowsAreKnown, Known
  <1>12. TasksHoldRows'
    <2>1. ASSUME NEW t \in Tasks, pc[t] \in {"responding", "sent", "finalizing"}
          PROVE  /\ record[t] # None /\ record[t].request \in Requests \ {r}
                 /\ Known(record[t].request, job[t].id) /\ job[t].id \in Ids
      <3>1. record[t] # None /\ Known(record[t].request, job[t].id)
        BY <1>1, <2>1 DEF TasksHoldRows
      <3>2. record[t].request \in Requests
        BY <1>1, <3>1 DEF TypeOK, Rows
      <3> QED
        BY <1>1, <1>2, <3>1, <3>2 DEF Known, TypeOK
    <2>2. \A t \in Tasks : pc[t] \in {"sent", "finalizing"} => asked'[record[t].request] = asked[record[t].request]
      BY <1>5, <2>1
    <2> QED
      BY <1>1, <1>2, <1>8, <2>1, <2>2 DEF TasksHoldRows
  <1>13. RespondersHoldRows'
    BY <1>1, <1>2, <1>5 DEF RespondersHoldRows
  <1>14. AnswersWereGiven'
    <2>1. \A q \in Requests : Responders(q)' = Responders(q)
      BY <1>2 DEF Responders
    <2> QED
      BY <1>1, <1>2, <1>5, <1>7, <1>9, <2>1 DEF AnswersWereGiven
  <1>15. CardsWereRedrawn'
    BY <1>1, <1>2, <1>5, <1>6, <1>7 DEF CardsWereRedrawn, Responders
  <1>16. StoredResponseWasSent'
    <2>1. \A j \in Ids : actions'[j] # None /\ actions'[j].response # None => actions'[j] = actions[j]
      BY <1>5, <1>6 DEF FreshRow
    <2> SUFFICES ASSUME NEW j \in Ids, actions'[j] # None, actions'[j].response # None
                 PROVE  \E t \in Tasks :
                          /\ <<t, actions'[j].request>> \in responses'
                          /\ actions'[j].response = Payload(actions'[j].request, job'[t].decision)
      BY DEF StoredResponseWasSent, Responders
    <2>2. PICK t \in Responders(actions[j].request) :
            actions[j].response = Payload(actions[j].request, job[t].decision)
      BY <1>1, <2>1 DEF StoredResponseWasSent
    <2>3. t \in Tasks /\ <<t, actions[j].request>> \in responses
      BY <2>2 DEF Responders
    <2> QED
      BY <1>2, <2>1, <2>2, <2>3
  <1>17. OpenRequestIsAnswerable'
    <2> SUFFICES ASSUME NEW q \in Requests, asked'[q] = "open", ~Reused(q)'
                 PROVE  /\ actions'[id'[q]] # None /\ actions'[id'[q]].request = q
                        /\ actions'[id'[q]].status = FreshRow(q).status
      BY DEF OpenRequestIsAnswerable, FreshRow
    <2>1. CASE q = r
      BY <1>5, <1>6, <2>1, Distinct DEF FreshRow
    <2>2. CASE q # r
      <3>1. ~Reused(q) /\ id[q] # i /\ asked[q] = "open" /\ id'[q] = id[q] /\ id[q] \in Ids
        BY <1>1, <1>5, <1>9, <2>2 DEF TypeOK
      <3> QED
        BY <1>1, <1>5, <3>1 DEF OpenRequestIsAnswerable
    <2> QED
      BY <2>1, <2>2
  <1>18. SingleAnswerIsStored'
    <2> SUFFICES ASSUME failures' = 0, restarts' = 0, NEW q \in Requests, NEW t \in Tasks,
                        Responders(q)' = {t}, ~Reused(q)'
                 PROVE  LET payload == Payload(q, job'[t].decision)
                        IN  /\ pc'[t] \in {"finalizing", "done"} =>
                                 /\ actions'[id'[q]] # None /\ actions'[id'[q]].request = q
                                 /\ actions'[id'[q]].status = StatusOf(q, payload)
                            /\ pc'[t] = "done" => prompts'[q].shown = payload
      BY DEF SingleAnswerIsStored, Agreed
    <2>1. q # r /\ Responders(q) = {t} /\ failures = 0 /\ restarts = 0
      BY <1>2, <1>6, <1>7 DEF Responders
    <2>2. ~Reused(q) /\ id[q] # i /\ id'[q] = id[q] /\ id[q] \in Ids /\ prompts'[q] = prompts[q]
      BY <1>1, <1>5, <1>9, <2>1 DEF TypeOK
    <2>3. actions'[id'[q]] = actions[id[q]]
      BY <1>5, <2>2
    <2>4. /\ pc[t] \in {"finalizing", "done"} => Agreed(q, Payload(q, job[t].decision))
          /\ pc[t] = "done" => prompts[q].shown = Payload(q, job[t].decision)
      BY <1>1, <2>1, <2>2 DEF SingleAnswerIsStored
    <2> QED
      BY <1>2, <2>2, <2>3, <2>4 DEF Agreed
  <1> QED
    BY <1>4, <1>10, <1>11, <1>12, <1>13, <1>14, <1>15, <1>16, <1>17, <1>18 DEF IInv

-----------------------------------------------------------------------------
(* A click or a command: the task takes the row under its number, or finds *)
(* that there is nothing left to do.                                       *)
Begins(t, i, decision, how) ==
  /\ pc[t] = "idle"
  /\ job' = [job EXCEPT ![t] = how]
  /\ \/ /\ actions[i] # None
        /\ record' = [record EXCEPT ![t] = [actions[i] EXCEPT
                                              !.response = Payload(actions[i].request, decision)]]
        /\ pc' = [pc EXCEPT ![t] = "responding"]
     \/ /\ pc' = [pc EXCEPT ![t] = "done"]
        /\ UNCHANGED record
  /\ UNCHANGED <<asked, answer, id, nextId, codexRestarts, actions, prompts, responses, restarts, failures>>

LEMMA BeginKeepsIInv ==
  ASSUME IInv, NEW t \in Tasks, NEW i \in Ids, NEW d \in Decisions, NEW how,
         how \in [via : {"none", "click", "command"}, id : Nat,
                  decision : Decisions \cup {None}, card : Requests \cup {None}],
         how.id = i, how.decision = d, Begins(t, i, d, how)
  PROVE  IInv'
  <1>1. /\ TypeOK /\ NumbersLast /\ RowsAreKnown /\ TasksHoldRows /\ RespondersHoldRows
        /\ AnswersWereGiven /\ CardsWereRedrawn /\ StoredResponseWasSent
        /\ OpenRequestIsAnswerable /\ SingleAnswerIsStored
    BY DEF IInv
  <1>2. /\ pc[t] = "idle"
        /\ UNCHANGED <<asked, answer, id, nextId, codexRestarts, actions, prompts, responses, restarts, failures>>
    BY DEF Begins
  <1>3. \A r \in Requests : <<t, r>> \notin responses
    BY <1>1, <1>2 DEF RespondersHoldRows
  <1>4. ASSUME actions[i] # None
        PROVE  /\ [actions[i] EXCEPT !.response = Payload(actions[i].request, d)] \in Rows
               /\ actions[i].request \in Requests
               /\ [actions[i] EXCEPT !.response = Payload(actions[i].request, d)].request = actions[i].request
               /\ [actions[i] EXCEPT !.response = Payload(actions[i].request, d)].response
                    = Payload(actions[i].request, d)
    <2>1. actions[i] \in Rows
      BY <1>1, <1>4 DEF TypeOK
    <2>2. actions[i].request \in Requests
      BY <2>1 DEF Rows
    <2>3. Payload(actions[i].request, d) \in Payloads
      BY <2>2, PayloadType
    <2> QED
      BY <2>1, <2>2, <2>3 DEF Rows
  <1>5. /\ pc' \in [Tasks -> {"idle", "responding", "sent", "finalizing", "done"}]
        /\ record' \in [Tasks -> Rows \cup {None}]
        /\ job' \in [Tasks -> [via : {"none", "click", "command"}, id : Nat,
                               decision : Decisions \cup {None}, card : Requests \cup {None}]]
    <2>1. pc' \in [Tasks -> {"idle", "responding", "sent", "finalizing", "done"}]
      BY <1>1 DEF Begins, TypeOK
    <2>2. job' \in [Tasks -> [via : {"none", "click", "command"}, id : Nat,
                               decision : Decisions \cup {None}, card : Requests \cup {None}]]
      <3>1. job' = [job EXCEPT ![t] = how]
        BY DEF Begins
      <3> QED
        BY <1>1, <3>1 DEF TypeOK
    <2>3. record' \in [Tasks -> Rows \cup {None}]
      <3>1. PICK row : row = [actions[i] EXCEPT !.response = Payload(actions[i].request, d)]
        OBVIOUS
      <3>2. record' = record \/ (row \in Rows /\ record' = [record EXCEPT ![t] = row])
        BY <1>4, <3>1 DEF Begins
      <3> QED
        BY <1>1, <3>2 DEF TypeOK
    <2> QED
      BY <2>1, <2>2, <2>3
  <1>6. /\ job'[t] = how
        /\ \A u \in Tasks : u # t => pc'[u] = pc[u] /\ record'[u] = record[u] /\ job'[u] = job[u]
        /\ \/ /\ pc'[t] = "responding" /\ actions[i] # None
              /\ record'[t] = [actions[i] EXCEPT !.response = Payload(actions[i].request, d)]
           \/ pc'[t] = "done"
    BY <1>1 DEF Begins, TypeOK
  <1>7. \A r \in Requests : Responders(r)' = Responders(r) /\ t \notin Responders(r)
    BY <1>2, <1>3 DEF Responders
  <1>8. TypeOK'
    BY <1>1, <1>2, <1>5 DEF TypeOK
  <1>9. NumbersLast' /\ RowsAreKnown' /\ OpenRequestIsAnswerable'
    BY <1>1, <1>2 DEF NumbersLast, RowsAreKnown, Known, OpenRequestIsAnswerable, Reused
  <1>10. TasksHoldRows'
    <2>1. CASE pc'[t] = "responding"
      <3>1. /\ record'[t] # None /\ record'[t].request = actions[i].request
            /\ record'[t].response = Payload(actions[i].request, d)
        BY <1>4, <1>6, <2>1, Distinct
      <3>2. Known(actions[i].request, i)
        BY <1>1, <1>6, <2>1 DEF RowsAreKnown
      <3> QED
        BY <1>1, <1>2, <1>6, <2>1, <3>1, <3>2 DEF TasksHoldRows, Known
    <2>2. CASE pc'[t] = "done"
      BY <1>1, <1>2, <1>6, <2>2 DEF TasksHoldRows, Known
    <2> QED
      BY <1>6, <2>1, <2>2
  <1>11. RespondersHoldRows'
    BY <1>1, <1>2, <1>3, <1>6 DEF RespondersHoldRows
  <1>12. AnswersWereGiven'
    BY <1>1, <1>2, <1>3, <1>6 DEF AnswersWereGiven, Responders, Reused
  <1>13. CardsWereRedrawn'
    BY <1>1, <1>2, <1>3, <1>6 DEF CardsWereRedrawn, Responders
  <1>14. StoredResponseWasSent'
    <2>1. \A j \in Ids : actions[j] # None => actions[j].request \in Requests
      BY <1>1 DEF TypeOK, Rows
    <2> QED
      BY <1>1, <1>2, <1>3, <1>6, <2>1 DEF StoredResponseWasSent, Responders
  <1>15. SingleAnswerIsStored'
    <2> SUFFICES ASSUME failures = 0, restarts = 0, NEW r \in Requests, NEW u \in Tasks,
                        Responders(r)' = {u}, ~Reused(r)'
                 PROVE  LET payload == Payload(r, job'[u].decision)
                        IN  /\ pc'[u] \in {"finalizing", "done"} =>
                                 /\ actions'[id'[r]] # None /\ actions'[id'[r]].request = r
                                 /\ actions'[id'[r]].status = StatusOf(r, payload)
                            /\ pc'[u] = "done" => prompts'[r].shown = payload
      BY <1>2 DEF SingleAnswerIsStored, Agreed
    <2>1. Responders(r) = {u} /\ u # t /\ ~Reused(r)
      BY <1>2, <1>7 DEF Reused
    <2> QED
      BY <1>1, <1>2, <1>6, <2>1 DEF SingleAnswerIsStored, Agreed
  <1> QED
    BY <1>8, <1>9, <1>10, <1>11, <1>12, <1>13, <1>14, <1>15 DEF IInv

LEMMA ClickKeepsIInv ==
  ASSUME IInv, NEW t \in Tasks, NEW r \in Requests, NEW d \in Decisions, Click(t, r, d)
  PROVE  IInv'
  <1> PICK i, how : i = id[r] /\ how = [via |-> "click", id |-> i, decision |-> d, card |-> r]
    OBVIOUS
  <1>1. i \in Ids /\ i \in Nat /\ actions[i] # None
    BY DEF IInv, TypeOK, RowsAreKnown, Click, Ids
  <1>2. Begins(t, i, d, how)
    BY <1>1 DEF Click, Begins, codexVars
  <1> QED
    BY <1>1, <1>2, BeginKeepsIInv

LEMMA CommandKeepsIInv ==
  ASSUME IInv, NEW t \in Tasks, NEW i \in Ids, NEW d \in Decisions, Command(t, i, d)
  PROVE  IInv'
  <1> PICK how : how = [via |-> "command", id |-> i, decision |-> d, card |-> None]
    OBVIOUS
  <1>1. i \in Nat
    BY DEF Ids
  <1>2. Begins(t, i, d, how)
    BY DEF Command, Begins, codexVars
  <1> QED
    BY <1>1, <1>2, BeginKeepsIInv

-----------------------------------------------------------------------------
(* The response is sent, or the call raises.  Codex takes it for the open  *)
(* request of that number, which is the task's own unless it is Reused.    *)
LEMMA RespondKeepsIInv ==
  ASSUME IInv, NEW t \in Tasks, Respond(t)
  PROVE  IInv'
  <1>1. /\ TypeOK /\ NumbersLast /\ RowsAreKnown /\ TasksHoldRows /\ RespondersHoldRows
        /\ AnswersWereGiven /\ CardsWereRedrawn /\ StoredResponseWasSent
        /\ OpenRequestIsAnswerable /\ SingleAnswerIsStored
    BY DEF IInv
  <1>2. pc[t] = "responding" /\ UNCHANGED <<id, nextId, codexRestarts, actions, prompts, job, record, restarts>>
    BY DEF Respond
  <1> PICK p, n, payload : p = record[t].request /\ n = job[t].id /\ payload = record[t].response
    OBVIOUS
  <1>3. /\ record[t] # None /\ Known(p, n) /\ p \in Requests
        /\ payload = Payload(p, job[t].decision) /\ payload \in Payloads \cup {None}
    <2>1. record[t] # None /\ Known(p, n) /\ payload = Payload(p, job[t].decision)
      BY <1>1, <1>2 DEF TasksHoldRows
    <2>2. record[t] \in Rows
      BY <1>1, <2>1 DEF TypeOK
    <2> QED
      BY <2>1, <2>2 DEF Rows
  <1>4. \A r \in Requests : <<t, r>> \notin responses
    BY <1>1, <1>2 DEF RespondersHoldRows
  <1>5. /\ NumbersLast' /\ RowsAreKnown'
        /\ \A r \in Requests : (asked'[r] = "no" <=> asked[r] = "no") /\ (asked'[r] = "open" => asked[r] = "open")
    <2>1. \A r \in Requests : (asked'[r] = "no" <=> asked[r] = "no") /\ (asked'[r] = "open" => asked[r] = "open")
      BY DEF Respond, OpenRequest
    <2>2. {r \in Requests : asked'[r] # "no"} = {r \in Requests : asked[r] # "no"}
      BY <2>1
    <2>3. NumbersLast'
      BY <1>1, <1>2, <2>2 DEF NumbersLast
    <2>4. \A i \in Ids : actions[i] # None => actions[i].request \in Requests
      BY <1>1 DEF TypeOK, Rows
    <2>5. RowsAreKnown'
      BY <1>1, <1>2, <2>1, <2>4 DEF RowsAreKnown, Known
    <2> QED
      BY <2>1, <2>3, <2>5
  <1>6. \A r \in Requests : Reused(r)' <=> Reused(r)
    BY <1>2, <1>5 DEF Reused
  <1>7. OpenRequestIsAnswerable'
    BY <1>1, <1>2, <1>5, <1>6 DEF OpenRequestIsAnswerable, FreshRow
  <1>8. CASE /\ responses' = responses \cup {<<t, p>>}
             /\ asked' = [r \in Requests |-> IF r \in OpenRequest(n) THEN "answered" ELSE asked[r]]
             /\ answer' = [r \in Requests |-> IF r \in OpenRequest(n) THEN payload ELSE answer[r]]
             /\ pc' = [pc EXCEPT ![t] = "sent"] /\ UNCHANGED failures
    <2>1. TypeOK'
      BY <1>1, <1>2, <1>3, <1>8 DEF TypeOK
    <2>2. /\ pc'[t] = "sent" /\ \A u \in Tasks : u # t => pc'[u] = pc[u]
          /\ Responders(p)' = Responders(p) \cup {t}
          /\ \A r \in Requests : r # p => Responders(r)' = Responders(r)
      BY <1>1, <1>3, <1>8 DEF TypeOK, Responders
    <2>3. asked'[p] # "open"
      BY <1>3, <1>8 DEF OpenRequest, Known
    <2>4. TasksHoldRows'
      <3>1. \A u \in Tasks : pc[u] \in {"responding", "sent", "finalizing"} => record[u].request \in Requests
        BY <1>1 DEF TasksHoldRows, TypeOK, Rows
      <3>2. ASSUME NEW u \in Tasks, pc'[u] \in {"responding", "sent", "finalizing"}
            PROVE  /\ record[u] # None /\ record[u].response = Payload(record[u].request, job[u].decision)
                   /\ asked'[record[u].request] # "no" /\ id[record[u].request] = job[u].id
                   /\ prompts[record[u].request] # None
        <4>1. pc[u] \in {"responding", "sent", "finalizing"}
          BY <1>2, <2>2, <3>2
        <4> QED
          BY <1>1, <1>5, <3>1, <4>1 DEF TasksHoldRows, Known
      <3>3. ASSUME NEW u \in Tasks, pc'[u] \in {"sent", "finalizing"}
            PROVE  <<u, record[u].request>> \in responses' /\ asked'[record[u].request] # "open"
        BY <1>1, <1>5, <1>8, <2>2, <2>3, <3>1, <3>3 DEF TasksHoldRows
      <3> QED
        BY <1>1, <1>2, <2>2, <3>2, <3>3 DEF TasksHoldRows, Known
    <2>5. RespondersHoldRows'
      BY <1>1, <1>2, <1>3, <1>5, <1>8, <2>2 DEF RespondersHoldRows, Known
    <2>6. AnswersWereGiven'
      <3> SUFFICES ASSUME NEW r \in Requests, answer'[r] # None
                   PROVE  /\ asked'[r] # "no"
                          /\ ~Reused(r)' => \E u \in Responders(r)' : answer'[r] = Payload(r, job'[u].decision)
        BY DEF AnswersWereGiven
      <3>1. CASE r \in OpenRequest(n)
        <4>1. asked[r] = "open" /\ id[r] = n /\ answer'[r] = payload
          BY <1>8, <3>1 DEF OpenRequest
        <4>2. r # p => Reused(r)
          BY <1>3, <4>1 DEF Reused, Known
        <4> QED
          BY <1>2, <1>3, <1>5, <1>6, <2>2, <4>1, <4>2
      <3>2. CASE r \notin OpenRequest(n)
        <4>1. answer'[r] = answer[r]
          BY <1>8, <3>2
        <4>2. Responders(r) \subseteq Responders(r)'
          BY <2>2
        <4> QED
          BY <1>1, <1>2, <1>5, <1>6, <4>1, <4>2 DEF AnswersWereGiven
      <3> QED
        BY <3>1, <3>2
    <2>7. CardsWereRedrawn'
      <3>1. \A r \in Requests : \A u \in Responders(r) : u \in Responders(r)' /\ u \in Tasks /\ u # t
        BY <1>4, <2>2 DEF Responders
      <3> QED
        BY <1>1, <1>2, <2>2, <3>1 DEF CardsWereRedrawn
    <2>8. StoredResponseWasSent'
      BY <1>1, <1>2, <1>8 DEF StoredResponseWasSent, Responders
    <2>9. SingleAnswerIsStored'
      <3> SUFFICES ASSUME failures = 0, restarts = 0, NEW r \in Requests, NEW u \in Tasks,
                          Responders(r)' = {u}, ~Reused(r)'
                   PROVE  LET given == Payload(r, job'[u].decision)
                          IN  /\ pc'[u] \in {"finalizing", "done"} =>
                                   /\ actions'[id'[r]] # None /\ actions'[id'[r]].request = r
                                   /\ actions'[id'[r]].status = StatusOf(r, given)
                              /\ pc'[u] = "done" => prompts'[r].shown = given
        BY <1>2, <1>8 DEF SingleAnswerIsStored, Agreed
      <3>1. CASE u = t
        BY <2>2, <3>1
      <3>2. CASE u # t
        <4>1. Responders(r) = {u} /\ ~Reused(r)
          BY <1>6, <2>2, <3>2
        <4> QED
          BY <1>1, <1>2, <2>2, <3>2, <4>1 DEF SingleAnswerIsStored, Agreed
      <3> QED
        BY <3>1, <3>2
    <2> QED
      BY <1>5, <1>7, <2>1, <2>4, <2>5, <2>6, <2>7, <2>8, <2>9 DEF IInv
  <1>9. CASE /\ failures' = failures + 1 /\ pc' = [pc EXCEPT ![t] = "done"]
             /\ UNCHANGED <<responses, asked, answer>>
    <2>1. TypeOK' /\ failures' # 0
      BY <1>1, <1>2, <1>9 DEF TypeOK
    <2>2. pc'[t] = "done" /\ \A u \in Tasks : u # t => pc'[u] = pc[u]
      BY <1>1, <1>9 DEF TypeOK
    <2>3. TasksHoldRows' /\ RespondersHoldRows'
      BY <1>1, <1>2, <1>9, <2>2 DEF TasksHoldRows, RespondersHoldRows, Known
    <2>4. AnswersWereGiven' /\ StoredResponseWasSent'
      BY <1>1, <1>2, <1>9 DEF AnswersWereGiven, StoredResponseWasSent, Responders, Reused
    <2>5. CardsWereRedrawn'
      BY <1>1, <1>2, <1>9, <2>2 DEF CardsWereRedrawn, Responders
    <2>6. SingleAnswerIsStored'
      BY <2>1 DEF SingleAnswerIsStored
    <2> QED
      BY <1>5, <1>7, <2>1, <2>3, <2>4, <2>5, <2>6 DEF IInv
  <1> QED
    BY <1>8, <1>9 DEF Respond, MayFail

-----------------------------------------------------------------------------
(* The row and the card of a response that was sent.  A row that another   *)
(* request needs is overwritten only when the number is Reused.            *)
Agrees(t, p, i, payload) ==
  /\ actions'[i] # None /\ actions'[i].request = p /\ actions'[i].status = StatusOf(p, payload)
  /\ pc'[t] = "done" => prompts'[p].shown = payload

Redraws(t, p) ==
  /\ prompts' \in [Requests -> Prompts \cup {None}] /\ prompts'[p] # None
  /\ \A r \in Requests : r # p => prompts'[r] = prompts[r]
  /\ pc'[t] = "done" \/ prompts' = prompts

Stores(t, place, p, i, payload, held, row) ==
  /\ UNCHANGED <<asked, answer, id, nextId, codexRestarts, job, responses, restarts>>
  /\ pc' = [pc EXCEPT ![t] = place] /\ (place = "finalizing" => job[t].via = "click")
  /\ p = record[t].request /\ i = job[t].id /\ payload = record[t].response
  /\ held.request = p /\ held.response = payload /\ record' = [record EXCEPT ![t] = held]
  /\ \/ /\ row \in Rows /\ row.request = p /\ row.response = payload
        /\ actions' = [actions EXCEPT ![i] = row]
     \/ actions' = actions
  /\ Redraws(t, p) /\ failures' \in Nat /\ (failures' = 0 => failures = 0)
  /\ failures' = 0 /\ restarts = 0 /\ Responders(p) = {t} /\ ~Reused(p) => Agrees(t, p, i, payload)

LEMMA StoreKeepsIInv ==
  ASSUME IInv, NEW t \in Tasks, pc[t] \in {"sent", "finalizing"},
         NEW place \in {"finalizing", "done"}, NEW p, NEW i, NEW payload, NEW held \in Rows, NEW row,
         Stores(t, place, p, i, payload, held, row)
  PROVE  IInv'
  <1> USE DEF Stores
  <1>1. /\ TypeOK /\ NumbersLast /\ RowsAreKnown /\ TasksHoldRows /\ RespondersHoldRows
        /\ AnswersWereGiven /\ CardsWereRedrawn /\ StoredResponseWasSent
        /\ OpenRequestIsAnswerable /\ SingleAnswerIsStored
    BY DEF IInv
  <1>2. /\ asked[p] \notin {"no", "open"} /\ id[p] = i /\ prompts[p] # None /\ <<t, p>> \in responses
        /\ payload = Payload(p, job[t].decision) /\ p \in Requests /\ i \in Ids
    <2>1. /\ record[t] # None /\ Known(p, i) /\ payload = Payload(p, job[t].decision)
          /\ <<t, p>> \in responses /\ asked[p] # "open"
      BY <1>1 DEF TasksHoldRows
    <2>2. p \in Requests
      BY <1>1, <2>1 DEF TypeOK, Rows
    <2> QED
      BY <1>1, <2>1, <2>2 DEF Known, TypeOK
  <1>3. /\ pc'[t] = place /\ record'[t] = held
        /\ \A u \in Tasks : u # t => pc'[u] = pc[u] /\ record'[u] = record[u]
        /\ \A j \in Ids : j # i => actions'[j] = actions[j]
        /\ \/ row \in Rows /\ row.request = p /\ row.response = payload /\ actions'[i] = row
           \/ actions'[i] = actions[i]
    BY <1>1, <1>2 DEF TypeOK
  <1>4. TypeOK'
    <2>1. actions' \in [Ids -> Rows \cup {None}] /\ record' \in [Tasks -> Rows \cup {None}]
      BY <1>1, <1>2 DEF TypeOK
    <2>2. pc' \in [Tasks -> {"idle", "responding", "sent", "finalizing", "done"}]
      BY <1>1 DEF TypeOK
    <2> QED
      BY <1>1, <2>1, <2>2 DEF TypeOK, Redraws
  <1>5. NumbersLast'
    BY <1>1 DEF NumbersLast
  <1>6. \A r \in Requests : /\ prompts[r] # None => prompts'[r] # None
                            /\ r # p => prompts'[r] = prompts[r]
    BY DEF Redraws
  <1>7. \A r \in Requests : /\ Reused(r)' <=> Reused(r)
                            /\ id[r] = i /\ ~Reused(r) => r = p
    BY <1>2 DEF Reused
  <1>8. RowsAreKnown'
    <2>1. ASSUME NEW j \in Ids, actions'[j] # None
          PROVE  LET r == actions'[j].request
                 IN  asked[r] # "no" /\ id[r] = j /\ prompts'[r] # None
      <3>1. CASE actions'[j] = actions[j]
        <4>1. actions[j].request \in Requests
          BY <1>1, <2>1, <3>1 DEF TypeOK, Rows
        <4> QED
          BY <1>1, <1>6, <2>1, <3>1, <4>1 DEF RowsAreKnown, Known
      <3>2. CASE j = i /\ actions'[i] = row /\ row.request = p
        BY <1>2, <1>6, <3>2
      <3> QED
        BY <1>3, <3>1, <3>2
    <2>2. ASSUME NEW r \in Requests, prompts'[r] # None
          PROVE  asked[r] # "no" /\ actions'[id[r]] # None
      <3>1. asked[r] # "no" /\ actions[id[r]] # None /\ id[r] \in Ids
        BY <1>1, <1>2, <1>6, <2>2 DEF RowsAreKnown, TypeOK
      <3> QED
        BY <1>3, <3>1, Distinct
    <2> QED
      BY <2>1, <2>2 DEF RowsAreKnown, Known
  <1>9. TasksHoldRows'
    <2>1. ASSUME NEW u \in Tasks, u # t, pc[u] \in {"responding", "sent", "finalizing"}
          PROVE  /\ record[u] # None /\ record[u].response = Payload(record[u].request, job[u].decision)
                 /\ asked[record[u].request] # "no" /\ id[record[u].request] = job[u].id
                 /\ prompts'[record[u].request] # None
      <3>1. record[u].request \in Requests
        BY <1>1, <2>1 DEF TasksHoldRows, TypeOK, Rows
      <3> QED
        BY <1>1, <1>6, <2>1, <3>1 DEF TasksHoldRows, Known
    <2>2. /\ record'[t] # None /\ record'[t].request = p /\ record'[t].response = Payload(p, job[t].decision)
          /\ asked[p] # "no" /\ id[p] = job[t].id /\ prompts'[p] # None
      BY <1>2, <1>3, <1>6, Distinct
    <2>3. \A u \in Tasks : u # t => /\ pc[u] \in {"sent", "finalizing"} =>
                                         <<u, record[u].request>> \in responses /\ asked[record[u].request] # "open"
                                    /\ pc[u] = "finalizing" => job[u].via = "click"
      BY <1>1 DEF TasksHoldRows
    <2> QED
      BY <1>2, <1>3, <2>1, <2>2, <2>3 DEF TasksHoldRows, Known
  <1>10. RespondersHoldRows'
    BY <1>1, <1>3, Distinct DEF RespondersHoldRows
  <1>11. AnswersWereGiven'
    BY <1>1, <1>7 DEF AnswersWereGiven, Responders
  <1>12. CardsWereRedrawn'
    <2> SUFFICES ASSUME NEW r \in Requests, prompts'[r] # None, prompts'[r].sequence # 0
                 PROVE  \E u \in Tasks : <<u, r>> \in responses /\ pc'[u] = "done"
      BY DEF CardsWereRedrawn, Responders
    <2>1. CASE prompts'[r] = prompts[r]
      <3>1. PICK u \in Tasks : <<u, r>> \in responses /\ pc[u] = "done"
        BY <1>1, <2>1 DEF CardsWereRedrawn, Responders
      <3> QED
        BY <1>3, <3>1
    <2>2. CASE r = p /\ pc'[t] = "done"
      BY <1>2, <2>2
    <2> QED
      BY <2>1, <2>2 DEF Redraws
  <1>13. StoredResponseWasSent'
    <2> SUFFICES ASSUME NEW j \in Ids, actions'[j] # None, actions'[j].response # None
                 PROVE  \E u \in Tasks : /\ <<u, actions'[j].request>> \in responses
                                         /\ actions'[j].response = Payload(actions'[j].request, job[u].decision)
      BY DEF StoredResponseWasSent, Responders
    <2>1. CASE actions'[j] = actions[j]
      BY <1>1, <2>1 DEF StoredResponseWasSent, Responders
    <2>2. CASE actions'[j] = row /\ row.request = p /\ row.response = payload
      BY <1>2, <2>2
    <2> QED
      BY <1>3, <2>1, <2>2
  <1>14. OpenRequestIsAnswerable'
    <2> SUFFICES ASSUME NEW r \in Requests, asked[r] = "open", ~Reused(r)
                 PROVE  /\ actions'[id[r]] # None /\ actions'[id[r]].request = r
                        /\ actions'[id[r]].status = FreshRow(r).status
      BY <1>7 DEF OpenRequestIsAnswerable, FreshRow
    <2>1. id[r] # i /\ id[r] \in Ids
      BY <1>1, <1>2, <1>7 DEF TypeOK
    <2> QED
      BY <1>1, <1>3, <2>1 DEF OpenRequestIsAnswerable
  <1>15. SingleAnswerIsStored'
    <2> SUFFICES ASSUME failures' = 0, restarts = 0, NEW r \in Requests, NEW u \in Tasks,
                        Responders(r) = {u}, ~Reused(r)
                 PROVE  LET given == Payload(r, job[u].decision)
                        IN  /\ pc'[u] \in {"finalizing", "done"} =>
                                 /\ actions'[id[r]] # None /\ actions'[id[r]].request = r
                                 /\ actions'[id[r]].status = StatusOf(r, given)
                            /\ pc'[u] = "done" => prompts'[r].shown = given
      BY <1>7 DEF SingleAnswerIsStored, Agreed, Responders
    <2>1. CASE r = p
      <3>1. u = t
        BY <1>2, <2>1 DEF Responders
      <3> QED
        BY <1>2, <2>1, <3>1 DEF Agrees
    <2>2. CASE r # p
      <3>1. <<u, r>> \in responses
        BY DEF Responders
      <3>2. u # t
        BY <1>1, <2>2, <3>1 DEF RespondersHoldRows
      <3>3. id[r] # i /\ id[r] \in Ids
        BY <1>1, <1>7, <2>2 DEF TypeOK
      <3> QED
        BY <1>1, <1>3, <1>6, <2>2, <3>2, <3>3 DEF SingleAnswerIsStored, Agreed
    <2> QED
      BY <2>1, <2>2
  <1> QED
    BY <1>4, <1>5, <1>8, <1>9, <1>10, <1>11, <1>12, <1>13, <1>14, <1>15 DEF IInv

(* _update_prompt_after_response, with the table as the caller left it.    *)
Updates(t, p, i, payload, held, table) ==
  /\ UNCHANGED <<asked, answer, id, nextId, codexRestarts, job, record, responses, restarts>>
  /\ pc' = [pc EXCEPT ![t] = "done"]
  /\ p = record[t].request /\ i = job[t].id /\ payload = record[t].response
  /\ held.request = p /\ held.response = payload
  /\ table = actions \/ table = [actions EXCEPT ![i] = held]
  /\ table[i] # None
  /\ failures = 0 /\ restarts = 0 /\ Responders(p) = {t} /\ ~Reused(p) =>
       table[i].request = p /\ table[i].status = StatusOf(p, payload)
  /\ UpdatePrompt(table, i, held)

LEMMA UpdateKeepsIInv ==
  ASSUME IInv, NEW t \in Tasks, pc[t] \in {"sent", "finalizing"},
         NEW p, NEW i, NEW payload, NEW held \in Rows, NEW table,
         Updates(t, p, i, payload, held, table)
  PROVE  IInv'
  <1> USE DEF Updates
  <1>1. TypeOK /\ TasksHoldRows /\ CardsWereRedrawn
    BY DEF IInv
  <1>2. record[t] # None /\ Known(p, i) /\ <<t, p>> \in responses
    BY <1>1 DEF TasksHoldRows
  <1>3. /\ record[t] \in Rows /\ p \in Requests /\ i \in Ids /\ payload \in Payloads \cup {None}
        /\ prompts[p] \in Prompts /\ prompts[p] # None
    <2>1. record[t] \in Rows
      BY <1>1, <1>2 DEF TypeOK
    <2>2. p \in Requests /\ payload \in Payloads \cup {None}
      BY <2>1 DEF Rows
    <2> QED
      BY <1>1, <1>2, <2>1, <2>2 DEF TypeOK, Known
  <1>4. table \in [Ids -> Rows \cup {None}] /\ table[i] \in Rows
    <2>1. table \in [Ids -> Rows \cup {None}]
      BY <1>1, <1>3 DEF TypeOK
    <2> QED
      BY <1>3, <2>1
  <1> PICK n, drawn, redrawn :
         /\ n = held.sequence + 1 /\ drawn = [shown |-> payload, sequence |-> n]
         /\ redrawn = [held EXCEPT !.sequence = n, !.status = table[i].status]
    OBVIOUS
  <1>5. /\ n \in Nat /\ n > 0 /\ drawn \in Prompts /\ drawn.shown = payload
        /\ redrawn \in Rows /\ redrawn.request = p /\ redrawn.response = payload
        /\ redrawn.status = table[i].status
    <2>1. n \in Nat /\ n > 0
      BY DEF Rows
    <2>2. drawn \in Prompts /\ drawn.shown = payload
      BY <1>3, <2>1 DEF Prompts
    <2>3. /\ redrawn \in Rows /\ redrawn.request = p /\ redrawn.response = payload
          /\ redrawn.status = table[i].status
      BY <1>4, <2>1 DEF Rows
    <2> QED
      BY <2>1, <2>2, <2>3
  <1>6. Responders(p) = {t} => prompts[p].sequence = 0
    BY <1>1, <1>2, <1>3 DEF CardsWereRedrawn, Responders
  <1>7. pc'[t] = "done"
    BY <1>1 DEF TypeOK
  <1>8. \/ /\ IsApproval(p) /\ actions' = [table EXCEPT ![i] = redrawn]
           /\ \/ /\ prompts' = [prompts EXCEPT ![p] = IF n > prompts[p].sequence THEN drawn ELSE prompts[p]]
                 /\ UNCHANGED failures
              \/ failures' = failures + 1 /\ UNCHANGED prompts
        \/ /\ ~IsApproval(p) /\ actions' = table
           /\ \/ prompts' = [prompts EXCEPT ![p] = [prompts[p] EXCEPT !.shown = payload]] /\ UNCHANGED failures
              \/ failures' = failures + 1 /\ UNCHANGED prompts
    BY <1>1, <1>3 DEF UpdatePrompt, NextSequence, MayFail, TypeOK
  <1>9. failures \in Nat /\ failures' \in Nat /\ (failures' = 0 => failures = 0 /\ UNCHANGED failures)
    BY <1>1, <1>8 DEF TypeOK
  <1>10. \/ \E row : /\ row \in Rows /\ row.request = p /\ row.response = payload
                     /\ actions' = [actions EXCEPT ![i] = row]
         \/ actions' = actions
    <2>1. CASE actions' = table
      BY <2>1
    <2>2. CASE actions' = [table EXCEPT ![i] = redrawn]
      <3>1. actions' = [actions EXCEPT ![i] = redrawn]
        BY <1>1, <1>3, <1>4, <2>2 DEF TypeOK
      <3> QED
        BY <1>5, <3>1
    <2> QED
      BY <1>8, <2>1, <2>2
  <1>11. Redraws(t, p)
    <2>1. ASSUME NEW new \in Prompts, prompts' = [prompts EXCEPT ![p] = new]
          PROVE  /\ prompts' \in [Requests -> Prompts \cup {None}] /\ prompts'[p] # None
                 /\ \A r \in Requests : r # p => prompts'[r] = prompts[r]
      BY <1>1, <1>3, <2>1, Distinct DEF TypeOK
    <2>2. [prompts[p] EXCEPT !.shown = payload] \in Prompts
      BY <1>3 DEF Prompts
    <2>3. \/ \E new \in Prompts : prompts' = [prompts EXCEPT ![p] = new]
          \/ prompts' = prompts
      BY <1>3, <1>5, <1>8, <2>2
    <2>4. CASE \E new \in Prompts : prompts' = [prompts EXCEPT ![p] = new]
      BY <1>7, <2>1, <2>4 DEF Redraws
    <2>5. CASE prompts' = prompts
      BY <1>1, <1>3, <1>7, <2>5 DEF Redraws, TypeOK
    <2> QED
      BY <2>3, <2>4, <2>5
  <1>12. ASSUME failures' = 0, restarts = 0, Responders(p) = {t}, ~Reused(p)
         PROVE  Agrees(t, p, i, payload)
    <2>1. table[i].request = p /\ table[i].status = StatusOf(p, payload)
      BY <1>9, <1>12
    <2>2. actions'[i] # None /\ actions'[i].request = p /\ actions'[i].status = StatusOf(p, payload)
      <3>1. actions'[i] = table[i] \/ actions'[i] = redrawn
        BY <1>3, <1>4, <1>8
      <3> QED
        BY <1>4, <1>5, <2>1, <3>1, Distinct
    <2>3. prompts'[p].shown = payload
      <3>1. n > prompts[p].sequence
        BY <1>5, <1>6, <1>12
      <3>2. failures' # failures + 1
        BY <1>9, <1>12
      <3>3. prompts'[p] = drawn \/ prompts'[p] = [prompts[p] EXCEPT !.shown = payload]
        BY <1>1, <1>3, <1>8, <3>1, <3>2 DEF TypeOK
      <3>4. [prompts[p] EXCEPT !.shown = payload].shown = payload
        BY <1>3 DEF Prompts
      <3> QED
        BY <1>5, <3>3, <3>4
    <2> QED
      BY <2>2, <2>3 DEF Agrees
  <1>13. record' = [record EXCEPT ![t] = record[t]]
    BY <1>1 DEF TypeOK
  <1>14. PICK row : \/ /\ row \in Rows /\ row.request = p /\ row.response = payload
                       /\ actions' = [actions EXCEPT ![i] = row]
                    \/ actions' = actions
    BY <1>10
  <1> PICK own : own = record[t]
    OBVIOUS
  <1>15. own \in Rows /\ Stores(t, "done", p, i, payload, own, row)
    BY <1>3, <1>9, <1>11, <1>12, <1>13, <1>14 DEF Stores
  <1> QED
    BY <1>15, StoreKeepsIInv

LEMMA PersistKeepsIInv ==
  ASSUME IInv, NEW t \in Tasks, Persist(t)
  PROVE  IInv'
  <1> PICK p, i, payload, held :
         /\ p = record[t].request /\ i = job[t].id /\ payload = record[t].response
         /\ held = Persisted(record[t])
    OBVIOUS
  <1>1. TypeOK /\ TasksHoldRows
    BY DEF IInv
  <1>2. pc[t] = "sent" /\ UNCHANGED <<asked, answer, id, nextId, codexRestarts, job, responses, restarts>>
    BY DEF Persist, codexVars
  <1>3. record[t] # None /\ record[t] \in Rows /\ Known(p, i) /\ p \in Requests /\ i \in Ids
    <2>1. record[t] # None /\ Known(p, i)
      BY <1>1, <1>2 DEF TasksHoldRows
    <2>2. record[t] \in Rows
      BY <1>1, <2>1 DEF TypeOK
    <2> QED
      BY <1>1, <2>1, <2>2 DEF TypeOK, Rows, Known
  <1>4. /\ held \in Rows /\ held.request = p /\ held.response = payload
        /\ held.status = StatusOf(p, payload)
    <2>1. StatusOf(p, payload) \in {"completed", "approved", "rejected"}
      BY DEF StatusOf
    <2> QED
      BY <1>3, <2>1 DEF Persisted, Rows
  <1>5. CASE /\ job[t].via = "click" /\ actions' = [actions EXCEPT ![i] = held]
             /\ record' = [record EXCEPT ![t] = held] /\ pc' = [pc EXCEPT ![t] = "finalizing"]
             /\ UNCHANGED <<prompts, failures>>
    <2>1. Redraws(t, p)
      BY <1>1, <1>3, <1>5 DEF Redraws, TypeOK, Known
    <2>2. Agrees(t, p, i, payload)
      <3>1. actions'[i] = held /\ pc'[t] = "finalizing"
        BY <1>1, <1>3, <1>5 DEF TypeOK
      <3> QED
        BY <1>4, <3>1, Distinct DEF Agrees
    <2>3. failures' \in Nat /\ failures' = failures
      BY <1>1, <1>5 DEF TypeOK
    <2>4. Stores(t, "finalizing", p, i, payload, held, held)
      BY <1>2, <1>4, <1>5, <2>1, <2>2, <2>3 DEF Stores
    <2> QED
      BY <1>2, <1>4, <2>4, StoreKeepsIInv
  <1>6. CASE /\ UpdatePrompt([actions EXCEPT ![i] = held], i, held)
             /\ pc' = [pc EXCEPT ![t] = "done"] /\ UNCHANGED record
    <2> PICK table : table = [actions EXCEPT ![i] = held]
      OBVIOUS
    <2>1. UpdatePrompt(table, i, held)
      BY <1>6
    <2>2. table[i] = held /\ table[i] # None
      BY <1>1, <1>3, <1>4, Distinct DEF TypeOK
    <2>3. Updates(t, p, i, payload, held, table)
      BY <1>2, <1>4, <1>6, <2>1, <2>2 DEF Updates
    <2> QED
      BY <1>2, <1>4, <2>3, UpdateKeepsIInv
  <1> QED
    BY <1>5, <1>6 DEF Persist

LEMMA FinalizeKeepsIInv ==
  ASSUME IInv, NEW t \in Tasks, FinalizeClick(t)
  PROVE  IInv'
  <1> PICK p, i, payload, held, table :
         /\ p = record[t].request /\ i = job[t].id /\ payload = record[t].response
         /\ held = record[t] /\ table = actions
    OBVIOUS
  <1>1. TypeOK /\ RowsAreKnown /\ TasksHoldRows /\ SingleAnswerIsStored
    BY DEF IInv
  <1>2. /\ pc[t] = "finalizing" /\ pc' = [pc EXCEPT ![t] = "done"]
        /\ UNCHANGED <<asked, answer, id, nextId, codexRestarts, job, record, responses, restarts>>
    BY DEF FinalizeClick, codexVars
  <1>3. UpdatePrompt(table, i, held)
    BY DEF FinalizeClick
  <1>4. /\ record[t] # None /\ held \in Rows /\ Known(p, i) /\ p \in Requests
        /\ payload = Payload(p, job[t].decision)
    <2>1. record[t] # None /\ Known(p, i) /\ payload = Payload(p, job[t].decision)
      BY <1>1, <1>2 DEF TasksHoldRows
    <2>2. record[t] \in Rows
      BY <1>1, <2>1 DEF TypeOK
    <2> QED
      BY <2>1, <2>2 DEF Rows
  <1>5. table[i] # None /\ id[p] = i
    BY <1>1, <1>4 DEF RowsAreKnown, Known
  <1>6. failures = 0 /\ restarts = 0 /\ Responders(p) = {t} /\ ~Reused(p) =>
          table[i].request = p /\ table[i].status = StatusOf(p, payload)
    BY <1>1, <1>2, <1>4, <1>5 DEF SingleAnswerIsStored, Agreed
  <1>7. Updates(t, p, i, payload, held, table)
    BY <1>2, <1>3, <1>4, <1>5, <1>6 DEF Updates
  <1> QED
    BY <1>2, <1>4, <1>7, UpdateKeepsIInv

-----------------------------------------------------------------------------
(* Restarts: requests and tasks are lost, what was stored stays.           *)
LEMMA CodexRestartKeepsIInv ==
  ASSUME IInv, CodexRestarts
  PROVE  IInv'
  <1>1. /\ TypeOK /\ NumbersLast /\ RowsAreKnown /\ TasksHoldRows /\ RespondersHoldRows
        /\ AnswersWereGiven /\ CardsWereRedrawn /\ StoredResponseWasSent
        /\ OpenRequestIsAnswerable /\ SingleAnswerIsStored
    BY DEF IInv
  <1>2. /\ nextId' = 0 /\ codexRestarts' = codexRestarts + 1
        /\ UNCHANGED <<answer, id, actions, prompts, pc, job, record, responses, restarts, failures>>
        /\ asked' = [r \in Requests |-> IF asked[r] = "open" THEN "lost" ELSE asked[r]]
    BY DEF CodexRestarts, taskVars
  <1>3. \A r \in Requests : (asked'[r] = "no" <=> asked[r] = "no") /\ asked'[r] # "open"
    BY <1>2
  <1>4. TypeOK'
    BY <1>1, <1>2 DEF TypeOK
  <1>5. NumbersLast'
    <2>1. IsFiniteSet({r \in Requests : asked'[r] # "no"})
      BY ApprovalAssumption, FS_Subset
    <2>2. Cardinality({r \in Requests : asked'[r] # "no"}) \in Nat
      BY <2>1, FS_CardinalityType
    <2> QED
      BY <1>2, <2>2 DEF NumbersLast
  <1>6. RowsAreKnown'
    <2>1. \A j \in Ids : actions[j] # None => actions[j].request \in Requests
      BY <1>1 DEF TypeOK, Rows
    <2> QED
      BY <1>1, <1>2, <1>3, <2>1 DEF RowsAreKnown, Known
  <1>7. TasksHoldRows'
    <2>1. \A t \in Tasks : pc[t] \in {"responding", "sent", "finalizing"} => record[t].request \in Requests
      BY <1>1 DEF TasksHoldRows, TypeOK, Rows
    <2> QED
      BY <1>1, <1>2, <1>3, <2>1 DEF TasksHoldRows, Known
  <1>8. RespondersHoldRows' /\ OpenRequestIsAnswerable'
    BY <1>1, <1>2, <1>3 DEF RespondersHoldRows, OpenRequestIsAnswerable
  <1>9. \A r \in Requests : Reused(r)' <=> Reused(r)
    BY <1>2, <1>3 DEF Reused
  <1>10. AnswersWereGiven'
    BY <1>1, <1>2, <1>3, <1>9 DEF AnswersWereGiven, Responders
  <1>11. CardsWereRedrawn' /\ StoredResponseWasSent'
    BY <1>1, <1>2 DEF CardsWereRedrawn, StoredResponseWasSent, Responders
  <1>12. SingleAnswerIsStored'
    BY <1>1, <1>2, <1>9 DEF SingleAnswerIsStored, Agreed, Responders
  <1> QED
    BY <1>4, <1>5, <1>6, <1>7, <1>8, <1>10, <1>11, <1>12 DEF IInv

LEMMA RestartKeepsIInv ==
  ASSUME IInv, Restart
  PROVE  IInv'
  <1>1. /\ TypeOK /\ NumbersLast /\ RowsAreKnown /\ TasksHoldRows /\ RespondersHoldRows
        /\ AnswersWereGiven /\ CardsWereRedrawn /\ StoredResponseWasSent
        /\ OpenRequestIsAnswerable /\ SingleAnswerIsStored
    BY DEF IInv
  <1>2. /\ restarts' = restarts + 1
        /\ UNCHANGED <<answer, id, nextId, codexRestarts, actions, prompts, job, record, responses, failures>>
        /\ pc' = [t \in Tasks |-> IF pc[t] = "idle" THEN "idle" ELSE "done"]
    BY DEF Restart
  <1>3. /\ asked' \in [Requests -> {"no", "open", "answered", "refused", "lost"}]
        /\ \A r \in Requests : /\ asked'[r] = "no" <=> asked[r] = "no"
                               /\ asked'[r] = "open" => asked[r] = "open"
    BY <1>1 DEF Restart, TypeOK
  <1>4. TypeOK' /\ restarts' # 0
    BY <1>1, <1>2, <1>3 DEF TypeOK
  <1>5. NumbersLast'
    <2>1. {r \in Requests : asked'[r] # "no"} = {r \in Requests : asked[r] # "no"}
      BY <1>3
    <2> QED
      BY <1>1, <1>2, <2>1 DEF NumbersLast
  <1>6. RowsAreKnown'
    <2>1. \A j \in Ids : actions[j] # None => actions[j].request \in Requests
      BY <1>1 DEF TypeOK, Rows
    <2> QED
      BY <1>1, <1>2, <1>3, <2>1 DEF RowsAreKnown, Known
  <1>7. TasksHoldRows' /\ RespondersHoldRows'
    BY <1>1, <1>2, <1>3 DEF TasksHoldRows, RespondersHoldRows
  <1>8. \A r \in Requests : Reused(r)' <=> Reused(r)
    BY <1>2, <1>3 DEF Reused
  <1>9. AnswersWereGiven' /\ OpenRequestIsAnswerable'
    <2>1. \A r \in Requests : Responders(r)' = Responders(r)
      BY <1>2 DEF Responders
    <2>2. AnswersWereGiven'
      BY <1>1, <1>2, <1>3, <1>8, <2>1 DEF AnswersWereGiven
    <2>3. OpenRequestIsAnswerable'
      BY <1>1, <1>2, <1>3, <1>8 DEF OpenRequestIsAnswerable, FreshRow
    <2> QED
      BY <2>2, <2>3
  <1>10. CardsWereRedrawn'
    <2>1. \A t \in Tasks : pc[t] = "done" => pc'[t] = "done"
      BY <1>2
    <2> QED
      BY <1>1, <1>2, <2>1 DEF CardsWereRedrawn, Responders
  <1>11. StoredResponseWasSent'
    BY <1>1, <1>2 DEF StoredResponseWasSent, Responders
  <1>12. SingleAnswerIsStored'
    BY <1>4 DEF SingleAnswerIsStored
  <1> QED
    BY <1>4, <1>5, <1>6, <1>7, <1>9, <1>10, <1>11, <1>12 DEF IInv

LEMMA StutterKeepsIInv ==
  ASSUME IInv, UNCHANGED vars
  PROVE  IInv'
  <1>1. /\ TypeOK' /\ NumbersLast' /\ RowsAreKnown' /\ TasksHoldRows' /\ RespondersHoldRows'
    BY DEF IInv, vars, codexVars, taskVars, TypeOK, NumbersLast, RowsAreKnown, Known,
           TasksHoldRows, RespondersHoldRows
  <1>2. AnswersWereGiven' /\ CardsWereRedrawn' /\ StoredResponseWasSent'
    BY DEF IInv, vars, codexVars, taskVars, AnswersWereGiven, CardsWereRedrawn,
           StoredResponseWasSent, Responders, Reused
  <1>3. OpenRequestIsAnswerable' /\ SingleAnswerIsStored'
    BY DEF IInv, vars, codexVars, taskVars, OpenRequestIsAnswerable, SingleAnswerIsStored,
           Responders, Reused, Agreed
  <1> QED
    BY <1>1, <1>2, <1>3 DEF IInv

LEMMA NextKeepsIInv == IInv /\ [Next]_vars => IInv'
  <1> SUFFICES ASSUME IInv, [Next]_vars
               PROVE  IInv'
    OBVIOUS
  <1>1. ASSUME NEW r \in Requests, HandleServerRequest(r)
        PROVE  IInv'
    BY <1>1, RequestKeepsIInv
  <1>2. ASSUME NEW t \in Tasks, NEW r \in Requests, NEW d \in Decisions, Click(t, r, d)
        PROVE  IInv'
    BY <1>2, ClickKeepsIInv
  <1>3. ASSUME NEW t \in Tasks, NEW i \in Ids, NEW d \in Decisions, Command(t, i, d)
        PROVE  IInv'
    BY <1>3, CommandKeepsIInv
  <1>4. ASSUME NEW t \in Tasks, Respond(t) \/ Persist(t) \/ FinalizeClick(t)
        PROVE  IInv'
    BY <1>4, RespondKeepsIInv, PersistKeepsIInv, FinalizeKeepsIInv
  <1>5. CASE CodexRestarts
    BY <1>5, CodexRestartKeepsIInv
  <1>6. CASE Restart
    BY <1>6, RestartKeepsIInv
  <1>7. CASE UNCHANGED vars
    BY <1>7, StutterKeepsIInv
  <1> QED
    BY <1>1, <1>2, <1>3, <1>4, <1>5, <1>6, <1>7 DEF Next

-----------------------------------------------------------------------------
(* The inductive invariant holds in every state the service reaches, with  *)
(* any number of requests, tasks, failures and restarts.                   *)
THEOREM Invariance == Spec => []IInv
  BY InitEstablishes, NextKeepsIInv, PTL DEF Spec

(* Rows, cards and tasks hold values of their types; the rows' numbers     *)
(* stay within those Codex gives out, however often it starts again.       *)
THEOREM TypeCorrect == Spec => []TypeOK
  <1>1. IInv => TypeOK
    BY DEF IInv
  <1> QED
    BY <1>1, Invariance, PTL

(* No response is stored that was not sent to Codex before.                *)
THEOREM StoredAfterSending == Spec => []StoredResponseWasSent
  <1>1. IInv => StoredResponseWasSent
    BY DEF IInv
  <1> QED
    BY <1>1, Invariance, PTL

(* While Codex waits, the row is there and still takes an answer: no task, *)
(* failure or restart closes it, unless the number is used again.          *)
THEOREM WaitingIsAnswerable == Spec => []OpenRequestIsAnswerable
  <1>1. IInv => OpenRequestIsAnswerable
    BY DEF IInv
  <1> QED
    BY <1>1, Invariance, PTL

(* After a single answer, and with nothing failing, Codex, the table and   *)
(* the card show the same decision.                                        *)
THEOREM OneAnswerEverywhere == Spec => []SingleAnswerAgrees
  <1>1. IInv => SingleAnswerAgrees
    <2> SUFFICES ASSUME IInv, NEW r \in Requests, NEW t \in Tasks,
                        Responders(r) = {t}, Idle(r), ~Reused(r), failures = 0, restarts = 0
                 PROVE  /\ actions[id[r]].request = r
                        /\ actions[id[r]].status = StatusOf(r, Payload(r, job[t].decision))
                        /\ prompts[r].shown = Payload(r, job[t].decision)
                        /\ answer[r] \in {Payload(r, job[t].decision), None}
      BY DEF SingleAnswerAgrees
    <2>1. RespondersHoldRows /\ SingleAnswerIsStored /\ AnswersWereGiven
      BY DEF IInv
    <2>2. pc[t] = "done"
      <3>1. <<t, r>> \in responses
        BY DEF Responders
      <3> QED
        BY <2>1, <3>1 DEF RespondersHoldRows, Idle
    <2>3. Agreed(r, Payload(r, job[t].decision)) /\ prompts[r].shown = Payload(r, job[t].decision)
      BY <2>1, <2>2 DEF SingleAnswerIsStored
    <2>4. answer[r] # None => answer[r] = Payload(r, job[t].decision)
      BY <2>1 DEF AnswersWereGiven
    <2> QED
      BY <2>3, <2>4 DEF Agreed
  <1> QED
    BY <1>1, Invariance, PTL

=============================================================================
