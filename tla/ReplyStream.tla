---------------------------- MODULE ReplyStream ----------------------------
(***************************************************************************)
(* The Feishu reply of one Codex turn (ReplyService, from start_turn on):  *)
(* cards updated at intervals by a flush task, replaced when a follow-up   *)
(* reply begins after an approval, and finalized when the turn ends.       *)
(*                                                                         *)
(* Feishu calls are synchronous, and no section that holds state.lock      *)
(* awaits, so the lock is never waited for.  What suspends is the flush    *)
(* task's sleep, and the await on a flush task that a finalization or a    *)
(* follow-up has just cancelled: whatever else the loop runs meanwhile     *)
(* sees, and changes, the same state.                                      *)
(*                                                                         *)
(* Output is numbered pieces, of agent messages or commands, laid out by   *)
(* ReplyText; 0 is the text of an error.  Codex may tell a piece more than *)
(* once: a whole message after its deltas, a command again.  A follow-up   *)
(* makes the stream forget what it has been told, so that it then shows it *)
(* again.  A call to Feishu may fail.  Feishu refuses a card update whose  *)
(* sequence number is not above the last one it accepted for that card.    *)
(***************************************************************************)
EXTENDS Integers, Sequences, FiniteSets

CONSTANTS
  MaxOutput,    \* bound on pieces of output, less what is told again, withdrawn or fails
  Followups,    \* follow-up tasks: one per approval response
  MaxFailures   \* bound on failing Feishu calls

ASSUME ReplyStreamAssumption ==
  MaxOutput \in Nat /\ MaxFailures \in Nat /\ IsFiniteSet(Followups)

Finalizers == {"receive loop", "shutdown"}
Outcomes == {"completed", "failed"}
ErrorText == 0

VARIABLES
  state,      \* the turn's _ReplyStreamState
  cards,      \* Feishu's cards and the reply_messages row of each, in order
  typing,     \* Feishu: whether the source message has the typing reaction
  failures,   \* Feishu calls that failed
  refused,    \* Feishu: whether it refused an update for its sequence number
  sleepers,   \* flush tasks asleep; state.flushTask says if one is the state's
  finalizer,  \* what each caller of _finalize_state is at
  followup,   \* what each follow-up task is at, and what it read first
  turn,       \* Codex: how the turn stands
  produced,   \* Codex: pieces of output so far
  message,    \* Codex: those of the message it is producing
  commands,   \* Codex: those that are commands
  withdrawn,  \* Codex: those a whole message has left out
  resumed,    \* history: pieces produced when a follow-up last began
  retold      \* history: those of them that Codex told again after that

feishuVars == <<cards, typing, failures, refused>>
codexVars == <<produced, message, commands, withdrawn, retold>>
vars == <<state, feishuVars, sleepers, finalizer, followup, turn, codexVars, resumed>>

NoCard == 0

(* What start_turn leaves; adding the reaction may have failed.  The text  *)
(* is that of the display blocks; known is aggregated_text, the active     *)
(* message as far as it has been rendered, and seen the commands.          *)
FreshState(reaction) ==
  [card |-> NoCard, text |-> {}, known |-> {}, seen |-> {}, lastSent |-> {}, nextSequence |-> 0,
   dirty |-> FALSE, flushTask |-> FALSE, status |-> "streaming", closed |-> FALSE,
   reaction |-> reaction]

Init ==
  /\ typing \in BOOLEAN
  /\ failures = IF typing THEN 0 ELSE 1
  /\ failures <= MaxFailures
  /\ state = FreshState(typing)
  /\ cards = <<>> /\ refused = FALSE /\ sleepers = 0
  /\ finalizer = [p \in Finalizers |-> [at |-> "idle", outcome |-> "completed"]]
  /\ followup = [f \in Followups |-> [at |-> "idle", card |-> NoCard, reaction |-> FALSE]]
  /\ turn = "running" /\ produced = 0 /\ resumed = 0
  /\ message = {} /\ commands = {} /\ withdrawn = {} /\ retold = {}

-----------------------------------------------------------------------------
(* The code between two suspensions makes several Feishu calls.  A world   *)
(* is the state and Feishu together; an operator below gives the worlds    *)
(* one of the code's methods may lead to, one per outcome of its calls.    *)
World == [s |-> state, cards |-> cards, typing |-> typing, failures |-> failures,
          refused |-> refused]

Become(worlds) == \E w \in worlds :
  /\ state' = w.s /\ cards' = w.cards /\ typing' = w.typing
  /\ failures' = w.failures /\ refused' = w.refused

Failing(w) ==
  IF w.failures < MaxFailures /\ produced + w.failures < MaxOutput
  THEN {[w EXCEPT !.failures = @ + 1]} ELSE {}

Accepts(w, sequence) == sequence > w.cards[w.s.card].sequence

(* The world with another card in a place, and with another stream.        *)
Redraw(w, i, card) == [w EXCEPT !.cards[i] = card]
Holding(w, s) == [w EXCEPT !.s = s]

(* reply_streaming_card and create_reply; enabling streaming took number 1.*)
CreateCard(w) ==
  LET failed == {[x EXCEPT !.s.dirty = TRUE] : x \in Failing(w)}
      created ==
        [w EXCEPT
          !.cards = Append(@, [shown |-> w.s.text, status |-> w.s.status, streaming |-> TRUE,
                               sequence |-> 1, record |-> w.s.status, noted |-> w.s.reaction]),
          !.s.card = Len(w.cards) + 1, !.s.lastSent = w.s.text,
          !.s.nextSequence = 2, !.s.dirty = FALSE]
  IN  {created} \cup failed

(* update_streaming_card: the content under one number, then the status    *)
(* under the next; either call may be the one that fails.                  *)
Stored(w, card) == [card EXCEPT !.record = w.s.status, !.noted = w.s.reaction]

ConsumedOne == 1  \* mutant
Consumed == 2

UpdateCard(w) ==
  LET card == w.cards[w.s.card]
      n == w.s.nextSequence
      content == [card EXCEPT !.shown = w.s.text, !.sequence = n]
      both == [content EXCEPT !.status = w.s.status, !.sequence = n + 1]
      sent == [w.s EXCEPT !.lastSent = w.s.text, !.nextSequence = n + Consumed, !.dirty = FALSE]
      failed == Failing(w) \cup Failing(Redraw(w, w.s.card, content))
  IN  IF Accepts(w, n)
      THEN {Holding(Redraw(w, w.s.card, Stored(w, both)), sent)} \cup {[x EXCEPT !.s.dirty = TRUE] : x \in failed}
      ELSE {[w EXCEPT !.refused = TRUE, !.s.dirty = TRUE]}

(* _flush_state.                                                           *)
FlushIfChanged(w, force) ==  \* mutant: the dirty flag alone decides
  LET x == [w EXCEPT !.s.flushTask = FALSE]
  IN  IF w.s.closed THEN {x}
      ELSE IF w.s.card = NoCard THEN IF w.s.text = {} THEN {x} ELSE CreateCard(x)
      ELSE IF w.s.text = w.s.lastSent THEN {x}
      ELSE UpdateCard(x)

FlushKeepingTask(w, force) ==  \* mutant: state.flush_task is not reset
  IF w.s.closed THEN {w}
  ELSE IF w.s.card = NoCard THEN IF w.s.text = {} THEN {w} ELSE CreateCard(w)
  ELSE IF ~force /\ (~w.s.dirty \/ w.s.text = w.s.lastSent) THEN {w}
  ELSE UpdateCard(w)

Flush(w, force) ==
  LET x == [w EXCEPT !.s.flushTask = FALSE]
  IN  IF w.s.closed THEN {x}
      ELSE IF w.s.card = NoCard THEN IF w.s.text = {} THEN {x} ELSE CreateCard(x)
      ELSE IF ~force /\ (~w.s.dirty \/ w.s.text = w.s.lastSent) THEN {x}
      ELSE UpdateCard(x)

(* _close_streaming_card.                                                  *)
CloseStreaming(w) ==
  LET n == w.s.nextSequence
      still == [w.cards[w.s.card] EXCEPT !.streaming = FALSE, !.sequence = n]
      done == Holding(Redraw(w, w.s.card, still), [w.s EXCEPT !.nextSequence = n + 1])
  IN  IF w.s.closed \/ w.s.card = NoCard \/ n <= 0 THEN {w}
      ELSE IF Accepts(w, n) THEN {done} \cup Failing(w)
      ELSE {[w EXCEPT !.refused = TRUE]}

FlushAndClose(w) == UNION {CloseStreaming(x) : x \in Flush(w, TRUE)}

-----------------------------------------------------------------------------
(* A flush task is scheduled unless the flush is due now: there is no card *)
(* yet, or nothing to say.                                                 *)
FlushIsDueWhenIdle(s) == ~s.dirty  \* mutant

FlushIsDue(s) == s.card = NoCard \/ ~s.dirty

Schedule(s) ==
  IF s.flushTask THEN Become({[World EXCEPT !.s = s]}) /\ UNCHANGED sleepers
  ELSE IF FlushIsDue(s)
  THEN Become(Flush([World EXCEPT !.s = s], FALSE)) /\ UNCHANGED sleepers
  ELSE /\ Become({[World EXCEPT !.s = [s EXCEPT !.flushTask = TRUE]]})
       /\ sleepers' = sleepers + 1

(* The text of a message begins with another: pieces come in their order.  *)
IsBeginning(kept, whole) ==
  kept \subseteq whole /\ \A p \in kept, q \in whole : q <= p => q \in kept

(* What the stream knows of the message that an event is about: nothing    *)
(* when it is a new one, or when a follow-up has made it forget.           *)
Known(s, told) == s.known \cap told

NextPiece == produced + 1

(* _append_text.                                                           *)
AppendText(s, told) ==
  [s EXCEPT !.text = @ \cup {NextPiece}, !.known = Known(s, told) \cup {NextPiece}, !.dirty = TRUE]

(* _replace_text: a whole message is appended where it goes on from what is*)
(* known, ignored if it only repeats a beginning of that, and otherwise    *)
(* put in the place of what is known of it.                                *)
ReplaceText(s, told, whole) ==
  LET known == Known(s, told)
  IN  IF whole = {} THEN s
      ELSE IF IsBeginning(known, whole)
      THEN [s EXCEPT !.text = @ \cup (whole \ known), !.known = whole, !.dirty = @ \/ whole # known]
      ELSE IF IsBeginning(whole, known) THEN s
      ELSE [s EXCEPT !.text = (@ \ known) \cup whole, !.known = whole, !.dirty = TRUE]

(* What Codex tells in one notification, and what it leaves out of what it *)
(* has told.                                                               *)
Tells(pieces, left) ==
  /\ produced' = IF NextPiece \in pieces THEN NextPiece ELSE produced
  /\ retold' = retold \cup {p \in pieces : p <= resumed}
  /\ withdrawn' = withdrawn \cup left
  /\ produced' + Cardinality(retold' \cup withdrawn') <= MaxOutput
  /\ produced' + failures <= MaxOutput

(* The receive loop is busy while it finalizes.                            *)
Listening == turn = "running" /\ ~state.closed /\ finalizer["receive loop"].at # "awaiting"

(* A delta, of the message begun or of a new one, of which nothing was told*)
HandleDelta(told) ==
  /\ Listening /\ produced < MaxOutput
  /\ Tells({NextPiece}, {}) /\ message' = told \cup {NextPiece}
  /\ Schedule(AppendText(state, told))
  /\ UNCHANGED <<commands, resumed, finalizer, followup, turn>>

(* A whole message: what its deltas told, more or less than that, or       *)
(* another text from some place on.  If it leaves anything out, it is the  *)
(* last of the message.                                                    *)
HandleMessage(told, whole) ==
  /\ Listening /\ whole \subseteq 1..MaxOutput
  /\ whole \subseteq told \cup {NextPiece} /\ IsBeginning(whole \cap told, told)
  /\ Tells(whole, told \ whole) /\ message' = IF told \subseteq whole THEN whole ELSE {}
  /\ Schedule(ReplaceText(state, told, whole))
  /\ UNCHANGED <<commands, resumed, finalizer, followup, turn>>

(* The start of a command, perhaps told again; nothing happens if the      *)
(* stream has seen it.                                                     *)
HandleCommand(c) ==
  /\ Listening /\ c \in commands \cup {NextPiece} /\ c <= MaxOutput /\ c \notin state.seen
  /\ Tells({c}, {}) /\ commands' = commands \cup {c}
  /\ Schedule([state EXCEPT !.text = @ \cup {c}, !.seen = @ \cup {c}, !.dirty = TRUE])
  /\ UNCHANGED <<message, resumed, finalizer, followup, turn>>

(* _flush_after_delay wakes up; a closed stream is no longer registered.   *)
TimerFires ==
  /\ sleepers > 0
  /\ sleepers' = sleepers - 1
  /\ Become(IF state.closed THEN {World} ELSE Flush(World, FALSE))
  /\ UNCHANGED <<finalizer, followup, turn, codexVars, resumed>>

-----------------------------------------------------------------------------
(* _finalize_state after the await: whether the stream is still open is    *)
(* not asked again.                                                        *)
SendFailureCard(w) ==
  LET failed == Failing(w)
      card == [shown |-> {ErrorText}, status |-> "failed", streaming |-> FALSE, sequence |-> 0,
               record |-> "failed", noted |-> w.s.reaction]
      sent == [w EXCEPT !.cards = Append(@, card)]
  IN  failed \cup
      {IF w.s.closed THEN sent
       ELSE [sent EXCEPT !.s.card = Len(w.cards) + 1, !.s.nextSequence = 0, !.s.dirty = FALSE,
                         !.s.lastSent = {ErrorText}, !.s.known = {ErrorText}]}

RemoveReaction(w) ==
  IF w.s.reaction THEN {[w EXCEPT !.typing = FALSE]} \cup Failing(w) ELSE {w}

CloseUnlessFailed(w, outcome) ==  \* mutant: an exception of Feishu ends the finalization
  IF w.failures > 0 THEN w ELSE [w EXCEPT !.s.closed = TRUE]

CloseStream(w, outcome) ==
  LET card == [w.cards[w.s.card] EXCEPT !.record = outcome, !.noted = FALSE]
      closed == [w.s EXCEPT !.closed = TRUE]
  IN  IF w.s.card = NoCard THEN Holding(w, closed)
      ELSE Holding(Redraw(w, w.s.card, card), closed)

FinalizedByFlush(w, outcome) ==  \* mutant: no failure card when there is no reply yet
  {CloseStream(x, outcome) : x \in UNION {RemoveReaction(y) : y \in FlushAndClose(w)}}

Finalized(w, outcome) ==
  LET shown == IF outcome = "failed" /\ w.s.card = NoCard
               THEN UNION {CloseStreaming(x) : x \in SendFailureCard(w)}
               ELSE FlushAndClose(w)
  IN  {CloseStream(x, outcome) : x \in UNION {RemoveReaction(y) : y \in shown}}

(* _finalize_state up to the await on the flush task it cancels, which it  *)
(* goes straight past when there is none.                                  *)
Finalizing(outcome) ==
  LET explain == outcome = "failed" /\ state.known = {} /\ state.card # NoCard
  IN  [state EXCEPT !.status = outcome, !.flushTask = FALSE, !.dirty = TRUE,
                    !.known = IF explain THEN {ErrorText} ELSE @,
                    !.text = IF explain THEN @ \cup {ErrorText} ELSE @]

Finalize(p, outcome) ==
  /\ ~state.closed /\ finalizer[p].at = "idle"
  /\ LET w == [World EXCEPT !.s = Finalizing(outcome)]
     IN  \/ /\ state.flushTask
            /\ sleepers' = sleepers - 1
            /\ finalizer' = [finalizer EXCEPT ![p] = [at |-> "awaiting", outcome |-> outcome]]
            /\ Become({w})
         \/ /\ ~state.flushTask
            /\ finalizer' = [finalizer EXCEPT ![p] = [at |-> "done", outcome |-> outcome]]
            /\ Become(Finalized(w, outcome))
            /\ UNCHANGED sleepers
  /\ UNCHANGED <<followup, codexVars, resumed>>

(* turn/completed, with or without an error.                               *)
TurnEnds(outcome) ==
  /\ turn = "running"
  /\ turn' = outcome
  /\ Finalize("receive loop", outcome)

(* ReplyService.close, at shutdown, fails every turn.                      *)
Shutdown == Finalize("shutdown", "failed") /\ UNCHANGED turn

ResumeFinalize(p) ==
  /\ finalizer[p].at = "awaiting"
  /\ finalizer' = [finalizer EXCEPT ![p].at = "done"]
  /\ Become(Finalized(World, finalizer[p].outcome))
  /\ UNCHANGED <<sleepers, followup, turn, codexVars, resumed>>

-----------------------------------------------------------------------------
(* start_followup_turn after the await: the current card is completed and  *)
(* closed, the record of the card read first is superseded, and the stream *)
(* starts again without a card.                                            *)
CompleteUnflushed(w) ==  \* mutant
  IF w.s.closed \/ w.s.card = NoCard THEN {w} ELSE CloseStreaming(w)

CompleteCurrentCard(w) ==
  IF w.s.closed \/ w.s.card = NoCard THEN {w}
  ELSE FlushAndClose([w EXCEPT !.s.status = "completed", !.s.dirty = TRUE])

Supersede(w, read) ==
  Redraw(w, read.card, [w.cards[read.card] EXCEPT !.record = "superseded", !.noted = read.reaction])

ResetCardOnly(w) ==  \* mutant: the text is kept for the next card
  IF w.s.closed THEN w
  ELSE [w EXCEPT !.s = [FreshState(w.s.reaction) EXCEPT !.flushTask = w.s.flushTask,
                          !.text = w.s.text, !.known = w.s.known, !.seen = w.s.seen]]

ResetTextOnly(w) ==  \* mutant: the next text goes to the completed card
  IF w.s.closed THEN w ELSE [w EXCEPT !.s.text = {}, !.s.known = {}, !.s.seen = {}]

Reset(w) ==
  IF w.s.closed THEN w
  ELSE [w EXCEPT !.s = [FreshState(w.s.reaction) EXCEPT !.flushTask = w.s.flushTask]]

FollowedUp(w, read) ==
  {Reset(x) : x \in IF read.card = NoCard THEN {w}
                    ELSE {Supersede(y, read) : y \in CompleteCurrentCard(w)}}

Resumed == IF state.closed THEN resumed ELSE produced

StartFollowup(f) ==
  /\ followup[f].at = "idle" /\ ~state.closed
  /\ LET read == [at |-> "done", card |-> state.card, reaction |-> state.reaction]
         w == [World EXCEPT !.s.flushTask = FALSE]
     IN  \/ /\ state.flushTask
            /\ sleepers' = sleepers - 1
            /\ followup' = [followup EXCEPT ![f] = [read EXCEPT !.at = "awaiting"]]
            /\ Become({w})
            /\ UNCHANGED resumed
         \/ /\ ~state.flushTask
            /\ followup' = [followup EXCEPT ![f] = read]
            /\ Become(FollowedUp(w, read))
            /\ resumed' = Resumed
            /\ UNCHANGED sleepers
  /\ UNCHANGED <<finalizer, turn, codexVars>>

ResumeFollowup(f) ==
  /\ followup[f].at = "awaiting"
  /\ followup' = [followup EXCEPT ![f].at = "done"]
  /\ Become(FollowedUp(World, followup[f]))
  /\ resumed' = Resumed
  /\ UNCHANGED <<sleepers, finalizer, turn, codexVars>>

Next ==
  \/ \E told \in {message, {}} :
       HandleDelta(told) \/ \E whole \in SUBSET (told \cup {NextPiece}) : HandleMessage(told, whole)
  \/ \E c \in commands \cup {NextPiece} : HandleCommand(c)
  \/ TimerFires
  \/ \E outcome \in Outcomes : TurnEnds(outcome)
  \/ Shutdown
  \/ \E p \in Finalizers : ResumeFinalize(p)
  \/ \E f \in Followups : StartFollowup(f) \/ ResumeFollowup(f)

Spec == Init /\ [][Next]_vars

(* Sleeps end and cancelled tasks finish; Codex owes nothing.              *)
FairSpec ==
  /\ Spec
  /\ WF_vars(TimerFires)
  /\ \A p \in Finalizers : WF_vars(ResumeFinalize(p))
  /\ \A f \in Followups : WF_vars(ResumeFollowup(f))

-----------------------------------------------------------------------------
Pieces == 0..MaxOutput
Cards == [shown : SUBSET Pieces, status : {"streaming"} \cup Outcomes, streaming : BOOLEAN,
          sequence : Nat, record : {"streaming", "superseded"} \cup Outcomes, noted : BOOLEAN]
Phases == {"idle", "awaiting", "done"}

Streams == [card : Nat, text : SUBSET Pieces, known : SUBSET Pieces, seen : SUBSET Pieces,
            lastSent : SUBSET Pieces, nextSequence : Nat, dirty : BOOLEAN, flushTask : BOOLEAN,
            status : {"streaming"} \cup Outcomes, closed : BOOLEAN, reaction : BOOLEAN]

(* The stream refers to a card that exists, and to a flush task that sleeps*)
(* only while there is a card to flush to.                                 *)
TypeOK ==
  /\ cards \in Seq(Cards) /\ state \in Streams /\ state.card \in 0..Len(cards)
  /\ state.flushTask => sleepers > 0 /\ state.card # NoCard
  /\ typing \in BOOLEAN /\ failures \in 0..MaxFailures /\ refused \in BOOLEAN /\ sleepers \in Nat
  /\ finalizer \in [Finalizers -> [at : Phases, outcome : Outcomes]]
  /\ followup \in [Followups -> [at : Phases, card : 0..Len(cards), reaction : BOOLEAN]]
  /\ turn \in {"running"} \cup Outcomes /\ produced \in 0..MaxOutput /\ resumed \in 0..produced
  /\ message \cup commands \cup withdrawn \subseteq 1..produced /\ retold \subseteq 1..resumed

Shown(n) == \E i \in DOMAIN cards : n \in cards[i].shown

IsSettled(card) == ~card.streaming /\ card.status # "streaming" /\ card.record # "streaming"

(* Unless a call to Feishu fails, every update carries a sequence number   *)
(* Feishu accepts, although flushes, follow-ups and finalizations share    *)
(* the counter and each new card starts it again.                          *)
SequencesAreAccepted == failures = 0 => ~refused

(* When the stream is closed and Feishu did not fail, every piece of output*)
(* that Codex has not withdrawn is on a card, whatever the follow-ups      *)
(* cleared.                                                                *)
AllOutputIsShown == state.closed /\ failures = 0 => \A n \in 1..produced \ withdrawn : Shown(n)

(* What is on two cards was told before a follow-up and told again after   *)
(* one: overlapping follow-ups, flushes and finalizations repeat nothing   *)
(* by themselves.  (The stream does not remember what earlier cards show,  *)
(* so what is told again may be shown again.)                              *)
OnlyRetoldIsRepeated ==
  \A i, j \in DOMAIN cards :
    i # j => cards[i].shown \cap cards[j].shown \subseteq retold \cup {ErrorText}

(* When the turn has ended and Feishu did not fail, no card looks as if it *)
(* went on, no record says so, and the typing reaction is gone.  (At       *)
(* shutdown it may: a follow-up can reset the status the finalization that *)
(* waits has set, and output can then open a card that stays streaming.)   *)
ClosedReplyIsSettled ==
  state.closed /\ failures = 0 /\ finalizer["shutdown"].at = "idle" =>
    ~typing /\ \A i \in DOMAIN cards : IsSettled(cards[i])

(* A turn that failed leaves a card that says so, even when a follow-up    *)
(* takes the current card away while the finalization waits.               *)
FailureIsVisible ==
  turn = "failed" /\ state.closed /\ failures = 0 => \E i \in DOMAIN cards : cards[i].status = "failed"

(* What the chat sees of the cards is a reply as ReplyCards promises it.   *)
Reply == INSTANCE ReplyCards WITH
  said <- produced, withdrawn <- withdrawn, retold <- retold,
  shown <- [i \in DOMAIN cards |-> cards[i].shown], over <- state.closed, faulty <- failures > 0

(* Flushes, follow-ups and finalizations of one stream write its cards     *)
(* from top to bottom: none takes back what Codex has not withdrawn, writes*)
(* to a card before the last, or shows there what was told before unless it*)
(* is told again, and a closed stream gets nothing but a failure card.     *)
WritesCardsInOrder == Reply!Spec

-----------------------------------------------------------------------------
(* The inductive invariant behind these properties.  All but the last part *)
(* speak of a world, as every method below an action keeps them.           *)
Worlds == [s : Streams, cards : Seq(Cards), typing : BOOLEAN, failures : 0..MaxFailures,
           refused : BOOLEAN]

WellFormed(w) ==
  /\ w \in Worlds /\ w.s.card \in 0..Len(w.cards)
  /\ w.s.flushTask => w.s.card # NoCard /\ ~w.s.closed

(* The counter is ahead of the current card, which is open.                *)
Ahead(w) ==
  w.failures = 0 =>
    /\ ~w.refused
    /\ ~w.s.closed /\ w.s.card # NoCard => Accepts(w, w.s.nextSequence)

(* What is told, and told again, so far.                                   *)
History == [said |-> produced, before |-> resumed, gone |-> withdrawn, again |-> retold]

(* Cards before the current one show what was told before the follow-up;   *)
(* the text and they have nothing in common but what was told again.       *)
Apart(w, h) ==
  /\ w.s.text \subseteq 0..h.said
  /\ \A i \in DOMAIN w.cards :
       /\ w.cards[i].shown \subseteq 0..h.said
       /\ i # w.s.card => w.cards[i].shown \subseteq 0..h.before
       /\ i # w.s.card => w.s.text \cap w.cards[i].shown \subseteq h.again \cup {ErrorText}
       /\ \A j \in DOMAIN w.cards :
            i # j => w.cards[i].shown \cap w.cards[j].shown \subseteq h.again \cup {ErrorText}

(* Between them they have every piece not withdrawn, and there is no text  *)
(* without a card.                                                         *)
Kept(w, h) ==
  w.failures = 0 =>
    /\ ~w.s.closed /\ w.s.card = NoCard => w.s.text = {}
    /\ \A n \in 1..h.said \ h.gone :
         \/ ~w.s.closed /\ n \in w.s.text
         \/ \E i \in DOMAIN w.cards : n \in w.cards[i].shown /\ (w.s.closed \/ i # w.s.card)

Sound(w, h) == WellFormed(w) /\ Ahead(w) /\ Apart(w, h) /\ Kept(w, h)

(* Cards before the current one, and all of a closed stream, are settled.  *)
Tidy(w) ==
  w.failures = 0 =>
    /\ w.typing => w.s.reaction /\ ~w.s.closed
    /\ \A i \in DOMAIN w.cards : i # w.s.card \/ w.s.closed => IsSettled(w.cards[i])

(* What a finalization that waits has set is still there, unless a follow- *)
(* up took the card away, for which there is no more text.                 *)
Over(w) == w.failures = 0 /\ ~w.s.closed /\ w.s.card # NoCard => w.s.status # "streaming"

SaysFailed(w) ==
  w.failures = 0 =>
    IF w.s.closed THEN \E i \in DOMAIN w.cards : w.cards[i].status = "failed"
    ELSE w.s.card # NoCard => w.s.status = "failed"

TasksAgree ==
  /\ finalizer["receive loop"].at = "idle" <=> turn = "running"
  /\ turn # "running" => finalizer["receive loop"].outcome = turn
  /\ finalizer["shutdown"].at # "idle" => finalizer["shutdown"].outcome = "failed"
  /\ \A p \in Finalizers : finalizer[p].at = "done" => state.closed
  /\ \A f \in Followups : followup[f].at = "awaiting" => followup[f].card # NoCard

IInv ==
  /\ TypeOK /\ TasksAgree
  /\ Sound(World, History)
  /\ finalizer["shutdown"].at = "idle" => Tidy(World) /\ (turn # "running" => Over(World))
  /\ turn = "failed" => SaysFailed(World)

-----------------------------------------------------------------------------
(* A turn that has ended closes its stream, and so frees its session,      *)
(* whatever Feishu calls fail.                                             *)
EndedTurnIsClosed == turn # "running" ~> state.closed

(* Output is shown in the end, without waiting for the turn to end, unless *)
(* Codex withdraws it or Feishu fails.                                     *)
OutputIsShownInTime ==
  \A n \in 1..MaxOutput : produced >= n ~> Shown(n) \/ n \in withdrawn \/ failures > 0
=============================================================================
