# codex-feishu-bot in TLA+

TLA+ models of `src/feishu_codex_bot`, the bridge between Feishu (chats, cards)
and a Codex app server (JSON-RPC over one websocket): model-checked with TLC on
small instances, and the safety properties of every component, with the
refinements of two abstract specifications, proved with TLAPS for all sizes.
File names below are relative to `src/src/feishu_codex_bot/`.

## The system

| part | state | operations | talks to |
|---|---|---|---|
| runtime (`runtime.py`) | loop, turn contexts | message, bot-added, card and command handlers, shutdown | everything; Feishu's thread schedules its coroutines |
| session executor (`workers/session_executor.py`) | lock table with reference counts, active turns | `run`, `activate_turn`, `complete_turn`, `get_active_turn` | called by conversation and reply services |
| conversation service | none of its own | `handle_message`, `handle_bot_added` | executor, client, tables |
| Codex client (`adapters/codex_client.py`) | websocket, pending futures, handlers | connect, close, request, respond, receive loop | Codex; calls the runtime's handlers one by one |
| reply service | a stream per turn: text, card, flush task | start, notification, follow-up, finalize, close | Feishu adapter, executor, reply table |
| approval service | none of its own | server request, approval and input responses | client, Feishu adapter, action table |
| security service | rows of alerts, which nobody else reads | whitelist check, record an attempt, alert the owner | Feishu adapter; called before everything else for each message and click |
| output classifier | none | turns notifications into text, commands or nothing | called by the reply service |
| tables (`persistence/`) | sessions, processed messages, replies, pending actions, alerts | inserts and updates, each atomic | SQLite |
| Feishu adapter, media, configuration | none | calls and conversions | Feishu |

All handlers are coroutines of one event loop; Feishu and SQLite calls are
synchronous. So tasks interleave only where they really suspend: the session's
lock, a Codex response, the flush task's sleep, an await on a cancelled task,
the websocket, a full send buffer, a handler of the receive loop. What is hard: state read before such a point and used after it;
responses that only complete a future, while the receive loop goes on to the
next message; duplicate deliveries; reconnection and crashes; the numbering
of card updates; the reuse of JSON-RPC ids. `PROJECT.json` lists these hazards
at their lines.

## Modules

| module | models | state and actions against the code |
|---|---|---|
| `SessionQueue` | what `SessionExecutor.run` promises | a first-come-first-served queue and one server per key |
| `SessionExecutor` | `run`, `_retain_entry`, `_release_entry`, asyncio.Lock | `entries`, `refCount`, lock state; `Run` (to the first suspension), `Enter` (a woken waiter resumes), `Leave` (finally block) |
| `TurnDispatch` | runtime message handlers, conversation service, sessions and processed_messages, active turns, streams registry, the receive loop | each delivery is a task; a message that is not for the bot is dropped, one of an outsider goes to `SecurityAlerts`, the rest are handled: `HandleMessage` is everything up to its first suspension (gate, insert, slot, first request), `EnterSlot` and `Continue` the stretches after the slot and after a response; `EndEarly` is a dispatch that ends before any request (rejected, or with an exception of a download or of the rejection's reply); `Receive` handles one message of Codex |
| `SecurityAlerts` | the security service and its table | `alerts` is the table, `told` what reached the owner; record, send, mark, and the end of the process in between |
| `CodexClient` | the whole of `adapters/codex_client.py` | the two locks as queues, `_pending_requests`, futures, numbered connections, a receive loop per connection; actions are the stretches of a caller, a loop or `close` between suspensions, and what Codex and the network do |
| `ReplyText` | the output classifier and the layout of a reply: deltas, whole messages, commands | `blocks`, rendered length; one action per kind of event, with the Codex side that produces them |
| `ReplyCards` | what the reply to a turn promises the chat | cards that grow from top to bottom, each with what came later or was told again, complete but for what was withdrawn when the reply is over |
| `ReplyStream` | one turn's cards: flush task, follow-ups, finalization, shutdown | `state` is `_ReplyStreamState`; `HandleDelta`, `HandleMessage` and `HandleCommand` are the notifications of output, compared with what the stream remembers (`known`, `seen`); the operators on worlds give the outcomes of each method with its failing calls; actions are stretches between suspensions |
| `ApprovalBridge` | server requests (commands, files, permissions, which may be none, and input), clicks, commands, the action table, cards | a task per click or command: read, respond, persist, update the card; a response is a payload (a decision, the granted permissions, or an input), and the table's status is computed from it |
| `SessionExecutorProofs`, `TurnDispatchProofs`, `CodexClientProofs`, `ReplyStreamProofs`, `ApprovalBridgeProofs`, `ReplyTextProofs` | theorems and their proofs | one lemma for each action of the module they extend |
| `ReplyCardsProofs` | the proof that `ReplyStream` implements `ReplyCards` | extends `ReplyStreamProofs`; one lemma per method and action |
| `SequenceFacts` | lemmas about flattened sequences | what `ReplyTextProofs` needs to reason about display blocks |
| `MC*` | instances for TLC | constants only |

`TurnDispatch` instantiates `SessionQueue` for the executor instead of the lock
table; that this is sound is the refinement `ServesInArrivalOrder` of
`SessionExecutor`, which TLC checks and `ImplementsQueue` proves. It also instantiates `SecurityAlerts`, with one
attempt per delivery; the steps of an outsider's attempt may interleave with
other tasks there although the handler does not suspend, which changes nothing,
because they share no state with them (the end of the process in between is
what matters). Its link to Codex (up, closing, down) is what a single user sees
of `CodexClient`: up is a connection whose loop reads, closing one that has
ended with messages left to read, down a cleared websocket; `CodexClient` has what this
hides, several callers at the locks, several connections, slow sends and
`close`. `ReplyStream` takes a piece of text as a number;
`ReplyText` is about what a piece does to the text. A message is the set of its
pieces, and a whole message may repeat, go on from, or contradict what its deltas
told; a follow-up clears what the stream remembers of that, so that what is told
again later (`retold`) is shown again. `ReplyStream` implements
`ReplyCards` (`WritesCardsInOrder`): what Codex has said is `produced`, what it has
replaced by something else is `withdrawn`, what is shown is the
`shown` of each card, the reply is over when the stream is closed, and Feishu is
faulty once a call has failed. The session and reply
machines meet in `TurnDispatch`'s `streams` and `activeTurn`.

Definitions whose comment says "mutant" are plausible mistakes in the code;
nothing in a specification refers to them. Each passing property is broken by
one of them (`PROJECT.json`, "mutants").

## What is checked

| run | instance | shows |
|---|---|---|
| executor | 3 calls, 2 keys | mutual exclusion per session, arrival order (refinement of `SessionQueue`), no leaked or vanished entry, no lost wake-up |
| dispatch | 3 deliveries of any of 3 messages (two texts of a direct chat sent further apart than the expiry, a `/clear` in a group), one bot-added event of the group, one fault (lost connection or restart) | a message is forwarded at most once; accepted means in progress; a turn starts on the session's current thread; streams and active turns agree; no rotation of a session's thread is lost |
| dispatch_live | 2 deliveries of 5 messages: a text, a `/clear`, an unsupported command, one not for the bot, one of an outsider; two faults | an accepted message gets a final status; an outsider's message reaches neither the table nor Codex, and its row tells what became of the alert |
| client | 3 callers (the first is the runtime's `initialize`), 2 connections, one message of Codex's own (an event, a request nobody handles, or one that makes the loop fail), sends of a caller and of a loop that find the buffer full, `close` at any time | the connection in use has a loop that reads it and no older loop can clear it; everybody gets the answer to its own request, once; who waits can still be answered or failed; `close` leaves nothing of earlier connections waiting and ends; every request ends |
| reply_text | 2 messages of up to 4 characters, 3 commands (one with two parts, one with nothing to show), one correction per message, items of other kinds | nothing lost, repeated or reordered; corrections replace, and nothing else takes back what a reader has seen; what is known of a message is what Codex said of it; commands appear once, in order, one line per part |
| reply_stream | 3 pieces of output, 2 follow-ups, 1 failing call; a failing call, and a piece that is told again or withdrawn, each take the place of a piece | numbering accepted, all output that is not withdrawn is shown, in time, and on two cards only if it was told again; everything settled at the end; cards are written from top to bottom and only what Codex withdraws is taken back (refinement of `ReplyCards`); the stream always closes |
| approvals | a request for permissions and one for secret input (kept open for a private answer when it comes from a group), 3 clicks or commands, one restart of each side, one failing call | nothing stored that was not sent; an open request stays answerable, also while somebody is answering it; a single answer agrees everywhere |

Why the bounds are enough: three calls are the smallest number at which a new
caller arrives while a woken waiter has yet to run; three deliveries give a
running turn, a waiter and a late or duplicate message; two follow-ups overlap
each other and a finalization; three pieces on one card open it, are held back
for a first flush task and need a second one, and two, with one of them told again, fill two cards that
share a piece; three tasks and two requests give an answer, a second one and
a stale one. In the client, two connections are the least at which a loop may
outlive its websocket, and a third caller is needed to reconnect while a second
one waits for a lock; responses to Codex's requests (`Responders`) take the path of requests
without a future, so only the `reconnection` instance has one. A crash makes the connection new, so the long run takes one fault of either
kind and the small one two. Bounds on faults, restarts and failures say how
often the environment misbehaves.

No run checks for deadlock: every instance has finitely many deliveries,
outputs or requests, and rightly stops when they are used up.

Fairness is that of the event loop: a task whose future is done is resumed, a
sleep ends, the receive loop reads what has arrived; in the client, handshakes
and sends end (both have time limits or end with the connection) and handlers
return. An outsider's attempt is reported to its end. Users, Codex, Feishu and
failures get none; `EveryCallIsServed` and `AcceptedIsSettled` state as
premises that operations end and that Codex answers. `dispatch_live` has lost
connections and restarts too. Two cases are outside what it shows, and the
property names them: a message accepted before a restart keeps that status
(redelivery finds it a duplicate), and when the server closes the connection
properly, the receive loop ends without an exception and fails nothing, so an
open request, its session's slot and the messages behind it stay as they are
(`stranded`; TLC finds this when the exemption is dropped).

### What the code does not do

Five runs end in a counterexample to something the repository says:

- `two_turns`: a message that waited for the slot is dispatched although a
  turn of its session is active (`runtime.py:218` is not looked at again);
- `early_completion`: `turn/completed` handled before the stream is registered
  leaves the session busy until the next restart;
- `loss_while_replying`: a lost connection ends no reply;
- `reconnection`: a request makes a new connection by itself, and nobody sends
  `initialize` on it;
- `old_card`: after a restart of Codex, a click on an old card answers a new
  request with the same number.

Further limits met while modelling, stated as premises of the properties or
left out of them:

- with a shutdown while a follow-up waits, a card may be left streaming
  (`ClosedReplyIsSettled` is about turns that end by themselves);
- after a card update of which only the second call fails, later updates reuse
  a number and Feishu refuses them (`SequencesAreAccepted` and the output
  properties assume that no call fails). That Feishu refuses them is an
  assumption about its API, external to this repository;
- a redelivered message whose turn is running is told that the session is busy
  before it is found to be a duplicate (`runtime.py:218`);
- a delta of white space alone never shows, not even after the whole message
  (`NothingLostOrRepeated` is about visible characters);
- a request left open on a connection that Codex closed properly stays open
  until `close` (`LeftOver` in `RequestsSettle`, `stranded` in `TurnDispatch`);
- in a group any mention, of whomever, addresses the bot
  (`_is_group_addressed`), where requirements.md:117 and 223 ask for a mention
  of the bot; the model has the outcome as the kind of the message;
- a follow-up makes the stream forget what earlier cards show
  (`reply_service.py:237-257`: collected text, rendered length, active message,
  seen commands). A whole message or a command that Codex tells again after that
  is shown again, on the follow-up's card (`reply_service.py:399-405`, `432-436`,
  `639-658`); a whole message whose deltas came partly before and partly after it
  is taken for a correction of the later part, and shown in full.
  `OnlyRetoldIsRepeated` and `WritesCardsInOrder` exempt exactly what is told again;
- a correction takes back what the current card shows of a message, by design;
  what an earlier card shows of it stays there (`withdrawn` in `ReplyCards`);
- `ReplyStream` says on which card a piece is, not where on it: the order inside
  a card is that of `ReplyText`, which has no follow-up;
- two answers to one request can leave the table and card with another decision
  than the one Codex took (`SingleAnswerAgrees`).

## What is proved

Every safety invariant and action property that a run checks, and both
refinements, are theorems for all values of the constants. The argument is the same for each component: an
inductive `IInv`, stated in the module itself, or in `ReplyTextProofs` for
`ReplyText`; one lemma per action that keeps it, which
has a step for each conjunct the action can disturb; `Spec => []IInv`
(`Invariance`), and each property from it. The assumptions are those of the
modules and nothing else: constants are sets of any size, finite where things
are counted; bounds are natural numbers; `None` is not one of the values it
stands beside. TLC evaluates them in every run. It was also given each
`IInv` as an invariant of the passing runs before that was proved; the runs
keep only the properties it serves.

**SessionExecutor**: `TypeOK`, `OneOperationPerSession`, `EntriesTrackUsers`,
`ServesInArrivalOrder`. Mutual exclusion is not inductive: it depends on the
lock of a key not being replaced while somebody uses it. `IInv` adds that calls
of a key share the table's entry (`UsersShareEntry`), that its count is the
number of those calls (`CountsUsers`, with the cardinality theorems), that a
lock has no trace before its creator calls `run` (`IdleCreatedNothing`), that a
running task holds its lock alone (`LockHeldWhileRunning`), and that a woken
waiter finds the lock free (`WokenWhileFree`). `ImplementsQueue` then maps each
step to one of `SessionQueue`: a call arrives and is served at once when the
entry is free or new, otherwise it joins the queue; the waiter that resumes is the
queue's head, because the lock wakes waiters from the front.

**TurnDispatch**: `TypeOK`, `ForwardedAtMostOnce`, `AcceptedIsInProgress`,
`TurnOnSessionThread`, `OneStreamPerSession`, `OutsidersAreReported`,
`RotationsAreSerial`. Two facts carry the proof. A message that somebody took is
marked in `processed_messages`, by one task alone (`EachMessageHasOneTaker`), so
that no redelivery passes the insert, before or after a restart. A task in
flight has its session's slot alone (`SlotIsHeld`, `QueuedTasksWait`), so that
the record it read is still in the table when it writes (`SlotKeepsRecord`),
however many awaits lie between; that gives the thread a turn starts on and
that no rotation is lost. `AlertsAdvance` ties an alert's row to its steps.

**CodexClient**: `TypeOK`, `UsedConnectionIsRead`, `OwnAnswer`,
`WaitingIsWatched`, `CloseSettlesEarlier`, `SetOnce`. Numbers of requests are
given to one request each (`RequestsAreNumbered`), a request is registered
exactly until its future is done (`RequestsAdvance`), and an answer on the way
is the only one for a request that has not been answered (`AnswersAreExpected`):
hence nobody gets another's answer, and no future is set twice. For connections,
the heads of both locks' queues are their holders (`ConnectLockIsHeld`,
`SendLockIsHeld`), so that a loop is alive only for the connection in use or for
the one `close` took over (`OneLoopLives`); hence an old loop never clears a
newer websocket, and what waits can be settled (`SentIsWatched`,
`ClosedIsSettled`).

**ApprovalBridge**: `TypeOK`, `StoredResponseWasSent`,
`OpenRequestIsAnswerable`, `SingleAnswerAgrees`. A task holds the row it read
while the table may move on; `TasksHoldRows` and `RespondersHoldRows` say what
remains true of it: the row is that of a request Codex made under this number,
its response is what the user decided, and once that is sent Codex no longer
waits. `OpenRequestIsAnswerable` needs no assumption that the request is idle:
until Codex has a response, no task has written to its row. `SingleAnswerAgrees` is the end of a
chain that begins when the response is stored (`SingleAnswerIsStored`).

**ReplyStream**: `TypeOK`, `SequencesAreAccepted`, `AllOutputIsShown`,
`OnlyRetoldIsRepeated`, `ClosedReplyIsSettled`, `FailureIsVisible`. The code
between two suspensions calls several methods, and each method leads from one
world (state and cards together) to several. The invariant is therefore one of worlds: `WellFormed`;
`Ahead`, the next number is above that of the current card; `Apart`, earlier
cards show only what was told before the last follow-up, and text and cards have
in common only what was told again; `Kept`, between them they have everything that
is not withdrawn (both relate a world to the `History` of what Codex told);
`Tidy`, what is closed is settled; `Over` and `SaysFailed`, the status a
finalization has set survives its wait, unless a follow-up took the card away,
and then there is no text left to show as if the turn went on. A lemma per
method carries each part from world to world, and a lemma per action composes
them. All parts except `WellFormed` and `Apart` speak of worlds in which no call
has failed; a failing call is still a step that keeps the other two. A notification is first
reduced to what it adds to the text and what it leaves out of it (`Hears`):
what it adds has just been told, and counts as told again if it is older than the last
follow-up; what it leaves out is withdrawn. That is where the forgetting of
a follow-up enters the proof. The proofs
allow any number of follow-ups, failures and pieces of output, told again and
withdrawn at will.

`ImplementsReplyCards` (in `ReplyCardsProofs`) says that every stretch of the
code between two suspensions is one step of `ReplyCards`, or none. `Puts` is
what the calls on the current card may do to what is shown: nothing, the whole
text on that card, or the text on a new card. That this takes back only what is
withdrawn needs an invariant beside `IInv`, `InOrder`: while the stream is open, the current card
is the last one, the text has everything that card shows and Codex has not
withdrawn, and comes, apart from what was told again, after everything on the
cards before it. Each method `Continues` from a world of this kind to another, with at
most one step of `ReplyCards` between them, although a finalization may both
flush and redraw (`PutsTwice`: writing the same text again shows no more). A reply
that ends is complete because `IInv` says so in the state after the step
(`ClosedHasAll`). One thing may still appear on a closed reply: a second end of
the turn, when a shutdown meets a finalization that waits, reports its error on
a card of its own (`Report`). A call that fails
leaves the order of what is shown as it is: only completeness is given up (`faulty`).

**ReplyText**: `TypeOK`, `MessageIsKnown`, `NothingLostOrRepeated`,
`CurrentMessageIsShown`, `CommandsInOrder`, `OnlyCorrectionsTakeBack`.
`IInv` has three parts. `KnownInv` is what the decisions of `_replace_text` rest on: a whole message
is compared with the deltas that came before it, all of which count as rendered. `LayoutInv`
is about blocks: the one that may grow belongs to the active message, no block belongs to a
later one (`ItemsUpTo`, so that a new message begins with nothing shown), and
the blocks of the active message show the visible part of its text. `ShownInv`
relates the whole reply to what Codex produced: all visible marks until the
first correction, and the command lines even after it. A correction removes blocks anywhere
in the reply, and keeps the command lines, because it removes only text, and a
command's line is one mark that is not a character (an assumption of the module about how text is
represented, not about Codex). `OnlyCorrectionsTakeBack` follows from the same steps: every other
event extends the last block or appends one.

**SequenceFacts**: blocks are filtered and flattened, which the community
modules define by recursion on a length. The library's induction theorems take
an operator and cannot be used, but induction over sets of numbers, as a statement about a
set, follows from the facts about finite sets (`SetInduction`), and from it the
same for sets of sequences (`SeqInduction`). With it, flattening is proved to exist, to be
unique, and to distribute over concatenation (`FlattenConcat`);
`ReplyTextProofs` reduces filtering to it.

What stays with TLC, and why:

- liveness (`EveryCallIsServed`, `AcceptedIsSettled`, `RequestsSettle`,
  `CloseEnds`, `EndedTurnIsClosed`, `OutputIsShownInTime`): fairness is outside
  the reach of this prover;
- the five counterexamples of the runs above.

## Not modelled

Wiring, configuration, logging, command line, SQLite itself,
decoding of events and wording of prompts and cards. Media downloads are synchronous
calls that write a file and share no state. In the modelled parts:
the 2.8 s limit of a card callback, which changes a toast only;
`archive_session`, which nothing calls; `list_recent_alerts`, which only reads; the three
outcomes of an elicitation, taken as one; the private chat in which a secret
input is answered (a status no command looks at); failures of SQLite;
cancellation of tasks when the loop itself stops. A click of an outsider takes
the steps of `SecurityAlerts` before anything of `ApprovalBridge` and is not a
task there.

## Plan

1. What a component promises, as a specification of its own that the detailed
   one is proved to implement, as `SessionQueue` is for the executor and
   `ReplyCards` for a reply: for the client, calls that end once, each in its
   own answer or in a failure; for approvals, a request that is open, answered,
   stored.
2. `ReplyText` as what fills the pieces of `ReplyStream`, whose order
   `ReplyCards` already has; the outcome of the turn on its last card; a
   message's final status is final.
3. Shutdown of the runtime: `ReplyStream`'s close, then the client's, while
   Feishu's thread still schedules messages (`close` of `CodexClient` already
   allows callers at any time; a later connection is the one nobody closes).
4. `ApprovalBridge` and `ReplyStream` composed: a response begins a follow-up;
   liveness of approvals.
