------------------------- MODULE ReplyStreamProofs -------------------------
(* Proofs about ReplyStream for any amount of output, any follow-ups and   *)
(* any number of failing calls.                                            *)
EXTENDS ReplyStream, TLAPS

-----------------------------------------------------------------------------
(* What a call on the current card changes in a world: nothing, or a new   *)
(* card, or the current card drawn again.                                  *)
Leaves(w, x) ==
  /\ x \in Worlds /\ x.s.text = w.s.text /\ x.s.status = w.s.status /\ x.s.closed = w.s.closed
  /\ x.s.reaction = w.s.reaction /\ x.typing = w.typing
  /\ x.failures = 0 => w.failures = 0
  /\ x.s.flushTask => w.s.flushTask

Stays(w, x) ==
  /\ x.cards = w.cards /\ x.s.card = w.s.card /\ x.s.nextSequence = w.s.nextSequence
  /\ x.refused = w.refused \/ (w.s.card # NoCard /\ ~w.s.closed /\ ~Accepts(w, w.s.nextSequence))

Creates(w, x, k) ==
  /\ ~w.s.closed /\ w.s.card = NoCard /\ w.s.text # {} /\ k \in Cards
  /\ x.s.card = Len(w.cards) + 1 /\ x.cards = Append(w.cards, k) /\ x.refused = w.refused
  /\ k.shown = w.s.text /\ k.status = w.s.status /\ k.record = w.s.status
  /\ k.sequence < x.s.nextSequence

Redraws(w, x, k) ==
  /\ ~w.s.closed /\ w.s.card # NoCard /\ k \in Cards
  /\ x.s.card = w.s.card /\ x.cards = [w.cards EXCEPT ![w.s.card] = k] /\ x.refused = w.refused
  /\ k.shown = w.s.text \/ k.shown = w.cards[w.s.card].shown
  /\ x.failures = 0 => k.sequence < x.s.nextSequence

Moves(w, x) ==
  Leaves(w, x) /\ (Stays(w, x) \/ (\E k \in Cards : Creates(w, x, k)) \/ (\E k \in Cards : Redraws(w, x, k)))

LEMMA WorldTypes ==
  ASSUME NEW w, WellFormed(w)
  PROVE  /\ w \in Worlds /\ w.s \in Streams /\ w.cards \in Seq(Cards) /\ w.s.card \in 0..Len(w.cards)
         /\ w.failures \in Nat /\ w.refused \in BOOLEAN /\ w.typing \in BOOLEAN
         /\ \A i \in 1..Len(w.cards) : w.cards[i] \in Cards
         /\ w.s.card # NoCard => w.s.card \in 1..Len(w.cards)
         /\ w.s.text \subseteq Pieces /\ w.s.nextSequence \in Nat
         /\ w.s.status \in {"streaming"} \cup Outcomes /\ w.s.reaction \in BOOLEAN
  <1>1. /\ w \in Worlds /\ w.s \in Streams /\ w.cards \in Seq(Cards) /\ w.s.card \in 0..Len(w.cards)
        /\ w.failures \in 0..MaxFailures /\ w.refused \in BOOLEAN /\ w.typing \in BOOLEAN
    BY DEF WellFormed, Worlds
  <1>2. \A i \in 1..Len(w.cards) : w.cards[i] \in Cards
    BY <1>1
  <1>3. /\ w.s.text \subseteq Pieces /\ w.s.nextSequence \in Nat
        /\ w.s.status \in {"streaming"} \cup Outcomes /\ w.s.reaction \in BOOLEAN
    BY <1>1 DEF Streams
  <1> QED
    BY <1>1, <1>2, <1>3 DEF NoCard

(* The fields of a stream that calls change keep their types.              *)
Updated(s, card, last, next, dirty) ==
  [s EXCEPT !.card = card, !.lastSent = last, !.nextSequence = next, !.dirty = dirty]

LEMMA StreamUpdates ==
  ASSUME NEW s \in Streams, NEW card \in Nat, NEW last \in SUBSET Pieces, NEW next \in Nat,
         NEW dirty \in BOOLEAN
  PROVE  Updated(s, card, last, next, dirty) \in Streams
  BY DEF Streams, Updated

LEMMA Redrawn ==
  ASSUME NEW w \in Worlds, NEW i \in 1..Len(w.cards), NEW k \in Cards
  PROVE  LET x == Redraw(w, i, k)
         IN  /\ x \in Worlds /\ x.s = w.s /\ x.cards = [w.cards EXCEPT ![i] = k] /\ x.typing = w.typing
             /\ x.failures = w.failures /\ x.refused = w.refused
             /\ Len(x.cards) = Len(w.cards) /\ x.cards[i] = k
  <1>1. w.cards \in Seq(Cards)
    BY DEF Worlds
  <1>2. /\ [w.cards EXCEPT ![i] = k] \in Seq(Cards) /\ Len([w.cards EXCEPT ![i] = k]) = Len(w.cards)
        /\ [w.cards EXCEPT ![i] = k][i] = k
    BY <1>1
  <1>3. Redraw(w, i, k) = [w EXCEPT !.cards = [w.cards EXCEPT ![i] = k]]
    BY DEF Redraw
  <1> QED
    BY <1>2, <1>3 DEF Worlds

LEMMA Held ==
  ASSUME NEW w \in Worlds, NEW s \in Streams
  PROVE  LET x == Holding(w, s)
         IN  /\ x \in Worlds /\ x.s = s /\ x.cards = w.cards /\ x.typing = w.typing
             /\ x.failures = w.failures /\ x.refused = w.refused
  BY DEF Worlds, Holding

LEMMA RedrawnAndHeld ==
  ASSUME NEW w \in Worlds, NEW i \in 1..Len(w.cards), NEW k \in Cards, NEW s \in Streams,
         NEW x, x = Holding(Redraw(w, i, k), s)
  PROVE  /\ x \in Worlds /\ x.s = s /\ x.cards = [w.cards EXCEPT ![i] = k] /\ x.typing = w.typing
         /\ x.failures = w.failures /\ x.refused = w.refused /\ x.cards[i] = k
  <1> PICK y : y = Redraw(w, i, k)
    OBVIOUS
  <1>1. /\ y \in Worlds /\ y.cards = [w.cards EXCEPT ![i] = k] /\ y.typing = w.typing
        /\ y.failures = w.failures /\ y.refused = w.refused /\ y.cards[i] = k
    BY Redrawn
  <1>2. x = Holding(y, s) /\ y \in Worlds
    BY <1>1
  <1>3. /\ x \in Worlds /\ x.s = s /\ x.cards = y.cards /\ x.typing = y.typing
        /\ x.failures = y.failures /\ x.refused = y.refused
    BY <1>2, Held
  <1> QED
    BY <1>1, <1>3

(* The current card shows what the stream holds.                           *)
IsCurrent(x) ==
  x.s.card # NoCard =>
    LET card == x.cards[x.s.card]
    IN  card.shown = x.s.text /\ card.status = x.s.status /\ card.record = x.s.status

(* The same for a card: its content, its status, its row.                  *)
WithContent(card, text, n) == [card EXCEPT !.shown = text, !.sequence = n]
WithStatus(card, status, n) == [card EXCEPT !.status = status, !.sequence = n]
WithRow(card, record, noted) == [card EXCEPT !.record = record, !.noted = noted]
Ended(card, n) == [card EXCEPT !.streaming = FALSE, !.sequence = n]

LEMMA ContentUpdates ==
  ASSUME NEW card \in Cards, NEW n \in Nat, NEW text \in SUBSET Pieces
  PROVE  /\ WithContent(card, text, n) \in Cards
         /\ WithContent(card, text, n).shown = text
  BY DEF Cards, WithContent

LEMMA StatusUpdates ==
  ASSUME NEW card \in Cards, NEW n \in Nat, NEW status \in {"streaming"} \cup Outcomes
  PROVE  /\ WithStatus(card, status, n) \in Cards
         /\ WithStatus(card, status, n).shown = card.shown
         /\ WithStatus(card, status, n).sequence = n
         /\ WithStatus(card, status, n).status = status
  BY DEF Cards, WithStatus

LEMMA RowUpdates ==
  ASSUME NEW card \in Cards, NEW record \in {"streaming", "superseded"} \cup Outcomes,
         NEW noted \in BOOLEAN
  PROVE  /\ WithRow(card, record, noted) \in Cards
         /\ WithRow(card, record, noted).shown = card.shown
         /\ WithRow(card, record, noted).sequence = card.sequence
         /\ WithRow(card, record, noted).status = card.status
         /\ WithRow(card, record, noted).streaming = card.streaming
         /\ WithRow(card, record, noted).record = record
  BY DEF Cards, WithRow

(* The three of them in turn, as update_streaming_card makes them.         *)
LEMMA CardUpdates ==
  ASSUME NEW card \in Cards, NEW n \in Nat, NEW m \in Nat, NEW text \in SUBSET Pieces,
         NEW status \in {"streaming"} \cup Outcomes, NEW noted \in BOOLEAN, NEW k,
         k = WithRow(WithStatus(WithContent(card, text, n), status, m), status, noted)
  PROVE  /\ k \in Cards /\ k.shown = text /\ k.status = status
         /\ k.sequence = m /\ k.record = status
  <1> PICK k1 : k1 = WithContent(card, text, n)
    OBVIOUS
  <1>1. k1 \in Cards /\ k1.shown = text
    BY ContentUpdates
  <1> PICK k2 : k2 = WithStatus(k1, status, m)
    OBVIOUS
  <1>2. k2 \in Cards /\ k2.shown = text /\ k2.sequence = m /\ k2.status = status
    BY <1>1, StatusUpdates
  <1>3. status \in {"streaming", "superseded"} \cup Outcomes /\ k = WithRow(k2, status, noted)
    OBVIOUS
  <1> QED
    BY <1>2, <1>3, RowUpdates

LEMMA StreamingUpdates ==
  ASSUME NEW card \in Cards, NEW n \in Nat
  PROVE  /\ Ended(card, n) \in Cards /\ Ended(card, n).shown = card.shown
         /\ Ended(card, n).sequence = n /\ Ended(card, n).status = card.status
         /\ Ended(card, n).record = card.record /\ ~Ended(card, n).streaming
  BY DEF Cards, Ended

(* The same for a stream.                                                  *)
Sent(s, last, next) == [s EXCEPT !.lastSent = last, !.nextSequence = next, !.dirty = FALSE]
Dirty(s) == [s EXCEPT !.dirty = TRUE]
Counted(s, next) == [s EXCEPT !.nextSequence = next]

SameButNumber(s, x) ==
  /\ x.card = s.card /\ x.text = s.text /\ x.status = s.status
  /\ x.closed = s.closed /\ x.reaction = s.reaction /\ x.flushTask = s.flushTask

LEMMA SentUpdates ==
  ASSUME NEW s \in Streams, NEW last \in SUBSET Pieces, NEW next \in Nat
  PROVE  /\ Sent(s, last, next) \in Streams /\ SameButNumber(s, Sent(s, last, next))
         /\ Sent(s, last, next).nextSequence = next
         /\ Counted(s, next) \in Streams /\ SameButNumber(s, Counted(s, next))
         /\ Counted(s, next).nextSequence = next
  <1>1. /\ Sent(s, last, next) \in Streams /\ SameButNumber(s, Sent(s, last, next))
        /\ Sent(s, last, next).nextSequence = next
    BY DEF Streams, SameButNumber, Sent
  <1>2. /\ Counted(s, next) \in Streams /\ SameButNumber(s, Counted(s, next))
        /\ Counted(s, next).nextSequence = next
    BY DEF Streams, SameButNumber, Counted
  <1> QED
    BY <1>1, <1>2

LEMMA DirtyUpdates ==
  ASSUME NEW s \in Streams
  PROVE  /\ Dirty(s) \in Streams /\ SameButNumber(s, Dirty(s))
         /\ Dirty(s).nextSequence = s.nextSequence
  BY DEF Streams, SameButNumber, Dirty

LEMMA FailingCall ==
  ASSUME NEW w \in Worlds, NEW x \in Failing(w)
  PROVE  /\ x \in Worlds /\ x.s = w.s /\ x.cards = w.cards /\ x.typing = w.typing
         /\ x.refused = w.refused /\ x.failures # 0
  <1>1. x = [w EXCEPT !.failures = w.failures + 1] /\ w.failures < MaxFailures
    BY DEF Failing
  <1>2. w.failures + 1 \in 0..MaxFailures /\ w.failures + 1 # 0
    BY <1>1, ReplyStreamAssumption DEF Worlds
  <1> QED
    BY <1>1, <1>2 DEF Worlds

LEMMA Dirtied ==
  ASSUME NEW w \in Worlds
  PROVE  LET x == [w EXCEPT !.s.dirty = TRUE]
         IN  /\ x \in Worlds /\ x.s = Dirty(w.s) /\ x.cards = w.cards
             /\ x.typing = w.typing /\ x.refused = w.refused /\ x.failures = w.failures
  <1>1. Dirty(w.s) \in Streams
    BY DirtyUpdates DEF Worlds
  <1>2. [w EXCEPT !.s.dirty = TRUE] = [w EXCEPT !.s = Dirty(w.s)]
    BY DEF Dirty
  <1> QED
    BY <1>1, <1>2 DEF Worlds

(* reply_streaming_card and update_streaming_card.                         *)
LEMMA CreateCardMoves ==
  ASSUME NEW w, WellFormed(w), ~w.s.closed, w.s.card = NoCard, w.s.text # {}, NEW x \in CreateCard(w)
  PROVE  /\ Moves(w, x)
         /\ x.failures = 0 => IsCurrent(x) /\ x.s.card # NoCard
  <1>1. /\ w \in Worlds /\ w.s \in Streams /\ w.cards \in Seq(Cards)
        /\ w.failures \in Nat
    BY WorldTypes
  <1>2. CASE x \in {[y EXCEPT !.s.dirty = TRUE] : y \in Failing(w)}
    <2>1. PICK y \in Failing(w) : x = [y EXCEPT !.s.dirty = TRUE]
      BY <1>2
    <2>2. /\ y \in Worlds /\ y.s = w.s /\ y.cards = w.cards /\ y.typing = w.typing
          /\ y.refused = w.refused /\ y.failures # 0
      BY <1>1, FailingCall
    <2>3. /\ x \in Worlds /\ x.s = Dirty(w.s) /\ x.cards = w.cards
          /\ x.typing = w.typing /\ x.refused = w.refused /\ x.failures # 0
      BY <2>1, <2>2, Dirtied
    <2>4. SameButNumber(w.s, x.s) /\ x.s.nextSequence = w.s.nextSequence
      BY <1>1, <2>3, DirtyUpdates
    <2> QED
      BY <2>3, <2>4 DEF Moves, Leaves, Stays, SameButNumber
  <1>3. CASE x \notin {[y EXCEPT !.s.dirty = TRUE] : y \in Failing(w)}
    <2> PICK k : k = [shown |-> w.s.text, status |-> w.s.status, streaming |-> TRUE,
                      sequence |-> 1, record |-> w.s.status, noted |-> w.s.reaction]
      OBVIOUS
    <2>1. /\ k \in Cards /\ k.shown = w.s.text /\ k.status = w.s.status /\ k.record = w.s.status
          /\ k.sequence = 1
      BY <1>1 DEF Cards, Streams
    <2>2. x = [w EXCEPT
                !.cards = Append(@, k),
                !.s.card = Len(w.cards) + 1, !.s.lastSent = w.s.text,
                !.s.nextSequence = 2, !.s.dirty = FALSE]
      BY <1>3 DEF CreateCard
    <2>3. /\ x.cards = Append(w.cards, k) /\ x.typing = w.typing /\ x.failures = w.failures
          /\ x.refused = w.refused
          /\ x.s = [w.s EXCEPT !.card = Len(w.cards) + 1, !.lastSent = w.s.text,
                               !.nextSequence = 2, !.dirty = FALSE]
      BY <1>1, <2>2 DEF Worlds
    <2>4. /\ x.s.card = Len(w.cards) + 1 /\ x.s.nextSequence = 2
          /\ x.s.text = w.s.text /\ x.s.status = w.s.status /\ x.s.closed = w.s.closed
          /\ x.s.reaction = w.s.reaction /\ x.s.flushTask = w.s.flushTask
      BY <1>1, <2>3 DEF Streams
    <2>5. x.s \in Streams
      <3>1. Len(w.cards) + 1 \in Nat /\ w.s.text \in SUBSET Pieces
        BY <1>1 DEF Streams
      <3>2. x.s = Updated(w.s, Len(w.cards) + 1, w.s.text, 2, FALSE)
        BY <2>3 DEF Updated
      <3>3. 2 \in Nat /\ FALSE \in BOOLEAN
        OBVIOUS
      <3> QED
        BY <1>1, <3>1, <3>2, <3>3, StreamUpdates
    <2>6. x \in Worlds
      <3>1. Append(w.cards, k) \in Seq(Cards)
        BY <1>1, <2>1
      <3>2. x = [w EXCEPT !.cards = x.cards, !.s = x.s]
        BY <1>1, <2>2 DEF Worlds
      <3> QED
        BY <1>1, <2>3, <2>5, <3>1, <3>2 DEF Worlds
    <2>7. Creates(w, x, k) /\ Leaves(w, x)
      BY <2>1, <2>3, <2>4, <2>6 DEF Creates, Leaves
    <2>8. IsCurrent(x)
      BY <1>1, <2>1, <2>3, <2>4 DEF IsCurrent
    <2>9. x.s.card # NoCard
      BY <1>1, <2>4 DEF NoCard
    <2> QED
      BY <2>1, <2>7, <2>8, <2>9 DEF Moves
  <1> QED
    BY <1>2, <1>3

(* The outcomes of update_streaming_card: both calls succeed, or one of    *)
(* them fails, or the number is refused.                                   *)
LEMMA RedrawMoves ==
  ASSUME NEW w \in Worlds, ~w.s.closed, w.s.card # NoCard, w.s.nextSequence \in Nat, NEW k \in Cards,
         k.shown = w.s.text, k.status = w.s.status, k.record = w.s.status,
         k.sequence = w.s.nextSequence + 1,
         NEW x \in Worlds, SameButNumber(w.s, x.s), x.s.nextSequence = w.s.nextSequence + 2,
         x.cards = [w.cards EXCEPT ![w.s.card] = k], x.cards[w.s.card] = k,
         x.typing = w.typing, x.failures = w.failures, x.refused = w.refused
  PROVE  Moves(w, x) /\ IsCurrent(x)
  <1>1. /\ x.s.card = w.s.card /\ x.s.text = w.s.text /\ x.s.status = w.s.status
        /\ x.s.closed = w.s.closed /\ x.s.reaction = w.s.reaction /\ x.s.flushTask = w.s.flushTask
    BY Zenon DEF SameButNumber
  <1>2. Leaves(w, x)
    BY <1>1, Zenon DEF Leaves
  <1>3. k.sequence < x.s.nextSequence
    <2> PICK n \in Nat : n = w.s.nextSequence
      OBVIOUS
    <2>1. n + 1 < n + 2
      OBVIOUS
    <2> QED
      BY <2>1, Zenon
  <1>4. Redraws(w, x, k)
    BY <1>1, <1>3, Zenon DEF Redraws
  <1>5. IsCurrent(x)
    BY <1>1, Zenon DEF IsCurrent
  <1> QED
    BY <1>2, <1>4, <1>5, Zenon DEF Moves

(* The card, the stream and the world that a successful update leaves.     *)
Updates(w, k, s, x) ==
  /\ k = WithRow(WithStatus(WithContent(w.cards[w.s.card], w.s.text, w.s.nextSequence),
                            w.s.status, w.s.nextSequence + 1), w.s.status, w.s.reaction)
  /\ s = Sent(w.s, w.s.text, w.s.nextSequence + 2)
  /\ x = Holding(Redraw(w, w.s.card, k), s)

LEMMA UpdateSucceeds ==
  ASSUME NEW w, WellFormed(w), ~w.s.closed, w.s.card # NoCard, NEW s, NEW k, NEW x, Updates(w, k, s, x)
  PROVE  Moves(w, x) /\ IsCurrent(x)
  <1>1. /\ w \in Worlds /\ w.s \in Streams /\ w.s.card \in 1..Len(w.cards)
        /\ w.cards[w.s.card] \in Cards
    BY WorldTypes
  <1>2. /\ w.s.nextSequence \in Nat /\ w.s.nextSequence + 1 \in Nat /\ w.s.nextSequence + 2 \in Nat
        /\ w.s.text \in SUBSET Pieces /\ w.s.status \in {"streaming"} \cup Outcomes
        /\ w.s.reaction \in BOOLEAN
    BY WorldTypes
  <1>3. /\ k \in Cards /\ k.shown = w.s.text /\ k.status = w.s.status
        /\ k.sequence = w.s.nextSequence + 1 /\ k.record = w.s.status
    <2>1. PICK card \in Cards, n \in Nat, m \in Nat, text \in SUBSET Pieces,
               status \in {"streaming"} \cup Outcomes, noted \in BOOLEAN :
            /\ card = w.cards[w.s.card] /\ n = w.s.nextSequence /\ m = w.s.nextSequence + 1
            /\ text = w.s.text /\ status = w.s.status /\ noted = w.s.reaction
      BY <1>1, <1>2, Zenon
    <2>2. k = WithRow(WithStatus(WithContent(card, text, n), status, m), status, noted)
      BY <2>1, Zenon DEF Updates
    <2>3. /\ k \in Cards /\ k.shown = text /\ k.status = status /\ k.sequence = m
          /\ k.record = status
      BY <2>2, CardUpdates
    <2> QED
      BY <2>1, <2>3, Zenon
  <1>4. s \in Streams /\ SameButNumber(w.s, s) /\ s.nextSequence = w.s.nextSequence + 2
    <2>1. s = Sent(w.s, w.s.text, w.s.nextSequence + 2)
      BY Zenon DEF Updates
    <2> QED
      BY <1>1, <1>2, <2>1, SentUpdates
  <1>5. /\ x \in Worlds /\ x.s = s /\ x.cards = [w.cards EXCEPT ![w.s.card] = k]
        /\ x.typing = w.typing /\ x.failures = w.failures /\ x.refused = w.refused
        /\ x.cards[w.s.card] = k
    <2>1. x = Holding(Redraw(w, w.s.card, k), s)
      BY Zenon DEF Updates
    <2> QED
      BY <1>1, <1>3, <1>4, <2>1, RedrawnAndHeld
  <1>6. SameButNumber(w.s, x.s) /\ x.s.nextSequence = w.s.nextSequence + 2
    BY <1>4, <1>5, Zenon
  <1> QED
    BY <1>1, <1>2, <1>3, <1>5, <1>6, RedrawMoves, Zenon

LEMMA UpdateFails ==
  ASSUME NEW w, WellFormed(w), ~w.s.closed, w.s.card # NoCard, NEW v, NEW k,
         k = WithContent(w.cards[w.s.card], w.s.text, w.s.nextSequence),
         v = w \/ v = Redraw(w, w.s.card, k), NEW y \in Failing(v), NEW x, x = [y EXCEPT !.s.dirty = TRUE]
  PROVE  Moves(w, x) /\ x.failures # 0
  <1>1. /\ w \in Worlds /\ w.s \in Streams /\ w.s.card \in 1..Len(w.cards)
        /\ w.cards[w.s.card] \in Cards /\ w.s.nextSequence \in Nat /\ w.s.text \in SUBSET Pieces
    BY WorldTypes
  <1>2. k \in Cards /\ k.shown = w.s.text
    BY <1>1, ContentUpdates
  <1>3. /\ v \in Worlds /\ v.s = w.s /\ v.typing = w.typing /\ v.refused = w.refused
        /\ v.cards = w.cards \/ v.cards = [w.cards EXCEPT ![w.s.card] = k]
    BY <1>1, <1>2, Redrawn
  <1>4. /\ y \in Worlds /\ y.s = w.s /\ y.typing = w.typing /\ y.refused = w.refused /\ y.failures # 0
        /\ y.cards = w.cards \/ y.cards = [w.cards EXCEPT ![w.s.card] = k]
    BY <1>3, FailingCall
  <1>5. /\ x \in Worlds /\ x.s = Dirty(w.s) /\ x.typing = w.typing
        /\ x.refused = w.refused /\ x.failures # 0
        /\ x.cards = w.cards \/ x.cards = [w.cards EXCEPT ![w.s.card] = k]
    BY <1>4, Dirtied
  <1>6. SameButNumber(w.s, x.s) /\ x.s.nextSequence = w.s.nextSequence
    BY <1>1, <1>5, DirtyUpdates
  <1>7. Leaves(w, x)
    BY <1>5, <1>6 DEF Leaves, SameButNumber
  <1>8. CASE x.cards = w.cards
    BY <1>5, <1>6, <1>7, <1>8 DEF Moves, Stays, SameButNumber
  <1>9. CASE x.cards = [w.cards EXCEPT ![w.s.card] = k]
    <2>1. Redraws(w, x, k)
      BY <1>2, <1>5, <1>6, <1>9 DEF Redraws, SameButNumber
    <2> QED
      BY <1>2, <1>5, <1>7, <2>1 DEF Moves
  <1> QED
    BY <1>5, <1>8, <1>9

LEMMA UpdateRefused ==
  ASSUME NEW w, WellFormed(w), ~w.s.closed, w.s.card # NoCard, ~Accepts(w, w.s.nextSequence),
         NEW x, x = [w EXCEPT !.refused = TRUE, !.s.dirty = TRUE]
  PROVE  Moves(w, x) /\ (Ahead(w) => x.failures # 0)
  <1>1. w \in Worlds /\ w.s \in Streams
    BY WorldTypes
  <1> PICK y : y = [w EXCEPT !.refused = TRUE]
    OBVIOUS
  <1>2. /\ y \in Worlds /\ y.s = w.s /\ y.cards = w.cards /\ y.typing = w.typing
        /\ y.failures = w.failures
    BY <1>1 DEF Worlds
  <1>3. x = [y EXCEPT !.s.dirty = TRUE]
    OBVIOUS
  <1>4. /\ x \in Worlds /\ x.s = Dirty(w.s) /\ x.cards = w.cards
        /\ x.typing = w.typing /\ x.failures = w.failures
    BY <1>2, <1>3, Dirtied
  <1>5. SameButNumber(w.s, x.s) /\ x.s.nextSequence = w.s.nextSequence
    BY <1>1, <1>4, DirtyUpdates
  <1>6. Leaves(w, x) /\ Stays(w, x)
    BY <1>4, <1>5 DEF Leaves, Stays, SameButNumber
  <1>7. Ahead(w) => w.failures # 0
    BY DEF Ahead
  <1> QED
    BY <1>4, <1>6, <1>7 DEF Moves

LEMMA UpdateCardMoves ==
  ASSUME NEW w, WellFormed(w), ~w.s.closed, w.s.card # NoCard, NEW x \in UpdateCard(w)
  PROVE  /\ Moves(w, x)
         /\ Ahead(w) /\ x.failures = 0 => IsCurrent(x)
  <1> DEFINE card == w.cards[w.s.card]
             n == w.s.nextSequence
             k1 == WithContent(card, w.s.text, n)
             k2 == WithStatus(k1, w.s.status, n + 1)
             s == Sent(w.s, w.s.text, n + 2)
  <1>1. \/ x = Holding(Redraw(w, w.s.card, WithRow(k2, w.s.status, w.s.reaction)), s)
        \/ \E y \in Failing(w) \cup Failing(Redraw(w, w.s.card, k1)) : x = [y EXCEPT !.s.dirty = TRUE]
        \/ x = [w EXCEPT !.refused = TRUE, !.s.dirty = TRUE] /\ ~Accepts(w, n)
    BY DEF UpdateCard, Stored, Consumed, WithContent, WithStatus, WithRow, Sent
  <1>2. CASE x = Holding(Redraw(w, w.s.card, WithRow(k2, w.s.status, w.s.reaction)), s)
    BY <1>2, UpdateSucceeds, Zenon DEF Updates
  <1>3. CASE \E y \in Failing(w) \cup Failing(Redraw(w, w.s.card, k1)) : x = [y EXCEPT !.s.dirty = TRUE]
    BY <1>3, UpdateFails
  <1>4. CASE x = [w EXCEPT !.refused = TRUE, !.s.dirty = TRUE] /\ ~Accepts(w, n)
    BY <1>4, UpdateRefused
  <1> QED
    BY <1>1, <1>2, <1>3, <1>4

(* _close_streaming_card.                                                  *)
LEMMA CloseStreamingMoves ==
  ASSUME NEW w, WellFormed(w), NEW x \in CloseStreaming(w)
  PROVE  /\ Moves(w, x)
         /\ Ahead(w) /\ x.failures = 0 /\ ~w.s.closed =>
              /\ IsCurrent(w) => IsCurrent(x)
              /\ x.s.card # NoCard => ~x.cards[x.s.card].streaming
  <1>1. /\ w \in Worlds /\ w.s \in Streams /\ w.s.nextSequence \in Nat /\ w.failures \in Nat
        /\ w.s.card # NoCard => w.s.card \in 1..Len(w.cards) /\ w.cards[w.s.card] \in Cards
    BY WorldTypes
  <1> DEFINE n == w.s.nextSequence
             still == Ended(w.cards[w.s.card], n)
             done == Holding(Redraw(w, w.s.card, still), Counted(w.s, n + 1))
  <1>2. \/ x = w /\ (w.s.closed \/ w.s.card = NoCard \/ n <= 0)
        \/ ~w.s.closed /\ w.s.card # NoCard /\ Accepts(w, n) /\ x = done
        \/ ~w.s.closed /\ w.s.card # NoCard /\ x \in Failing(w)
        \/ ~w.s.closed /\ w.s.card # NoCard /\ ~Accepts(w, n) /\ x = [w EXCEPT !.refused = TRUE]
    BY DEF CloseStreaming, Ended, Counted
  <1> HIDE DEF still, done
  <1>3. CASE x = w /\ (w.s.closed \/ w.s.card = NoCard \/ n <= 0)
    <2>1. Moves(w, x)
      BY <1>1, <1>3, Zenon DEF Moves, Leaves, Stays
    <2>2. Ahead(w) /\ w.failures = 0 /\ ~w.s.closed => w.s.card = NoCard
      <3>1. SUFFICES ASSUME Ahead(w), w.failures = 0, ~w.s.closed, w.s.card # NoCard
                     PROVE  FALSE
        OBVIOUS
      <3>2. n > w.cards[w.s.card].sequence /\ w.cards[w.s.card].sequence \in Nat
        BY <1>1, <3>1 DEF Ahead, Accepts, Cards
      <3> QED
        BY <1>1, <1>3, <3>1, <3>2
    <2> QED
      BY <1>3, <2>1, <2>2, Zenon
  <1>4. CASE ~w.s.closed /\ w.s.card # NoCard /\ Accepts(w, n) /\ x = done
    <2>1. n + 1 \in Nat /\ n < n + 1
      BY <1>1
    <2>2. /\ still \in Cards /\ still.shown = w.cards[w.s.card].shown /\ still.sequence = n
          /\ still.status = w.cards[w.s.card].status /\ still.record = w.cards[w.s.card].record
          /\ ~still.streaming
      BY <1>1, <1>4, StreamingUpdates DEF still
    <2> PICK s, y : s = Counted(w.s, n + 1) /\ y = Redraw(w, w.s.card, still)
      OBVIOUS
    <2>3. s \in Streams /\ SameButNumber(w.s, s) /\ s.nextSequence = n + 1
      <3>1. w.s.text \in SUBSET Pieces
        BY WorldTypes
      <3> QED
        BY <1>1, <2>1, <3>1, SentUpdates
    <2>4. /\ y \in Worlds /\ y.cards = [w.cards EXCEPT ![w.s.card] = still] /\ y.typing = w.typing
          /\ y.failures = w.failures /\ y.refused = w.refused /\ y.cards[w.s.card] = still
      BY <1>1, <1>4, <2>2, Redrawn
    <2>5. /\ x \in Worlds /\ x.s = s /\ x.cards = y.cards /\ x.typing = w.typing
          /\ x.failures = w.failures /\ x.refused = w.refused
      <3>1. x = Holding(y, s)
        BY <1>4 DEF done
      <3> QED
        BY <2>3, <2>4, <3>1, Held
    <2>6. /\ SameButNumber(w.s, x.s) /\ x.s.nextSequence = n + 1
          /\ x.s.card = w.s.card /\ x.s.text = w.s.text /\ x.s.status = w.s.status
      BY <2>3, <2>5 DEF SameButNumber
    <2>7. Leaves(w, x)
      BY <2>5, <2>6, Zenon DEF Leaves, SameButNumber
    <2>8. Redraws(w, x, still)
      <3>1. still.sequence < x.s.nextSequence
        BY <2>1, <2>2, <2>6
      <3>2. x.cards = [w.cards EXCEPT ![w.s.card] = still] /\ x.refused = w.refused
        BY <2>4, <2>5
      <3> QED
        BY <1>4, <2>2, <2>6, <3>1, <3>2, Zenon DEF Redraws
    <2>9. x.cards[x.s.card] = still
      BY <2>4, <2>5, <2>6
    <2>10. IsCurrent(w) => IsCurrent(x)
      BY <2>2, <2>6, <2>9, Zenon DEF IsCurrent
    <2> QED
      BY <2>2, <2>7, <2>8, <2>9, <2>10, Zenon DEF Moves
  <1>5. CASE ~w.s.closed /\ w.s.card # NoCard /\ x \in Failing(w)
    <2>1. /\ x \in Worlds /\ x.s = w.s /\ x.cards = w.cards /\ x.typing = w.typing
          /\ x.refused = w.refused /\ x.failures # 0
      BY <1>1, <1>5, FailingCall
    <2> QED
      BY <2>1, Zenon DEF Moves, Leaves, Stays
  <1>6. CASE ~w.s.closed /\ w.s.card # NoCard /\ ~Accepts(w, n) /\ x = [w EXCEPT !.refused = TRUE]
    <2>1. /\ x \in Worlds /\ x.s = w.s /\ x.cards = w.cards /\ x.typing = w.typing
          /\ x.failures = w.failures
      BY <1>1, <1>6 DEF Worlds
    <2>2. Moves(w, x)
      BY <1>6, <2>1, Zenon DEF Moves, Leaves, Stays
    <2>3. Ahead(w) => x.failures # 0
      BY <1>6, <2>1, Zenon DEF Ahead
    <2> QED
      BY <2>2, <2>3
  <1> QED
    BY <1>2, <1>3, <1>4, <1>5, <1>6

(* _flush_state.                                                           *)
LEMMA FlushMoves ==
  ASSUME NEW w, WellFormed(w), NEW force \in BOOLEAN, NEW x \in Flush(w, force)
  PROVE  /\ Moves(w, x) /\ ~x.s.flushTask
         /\ ~w.s.closed /\ x.failures = 0 =>
              /\ x.s.card = NoCard => x.s.text = {}
              /\ force /\ Ahead(w) => IsCurrent(x)
  <1> PICK v : v = [w EXCEPT !.s.flushTask = FALSE]
    OBVIOUS
  <1>1. w \in Worlds /\ w.s \in Streams /\ w.failures \in Nat
    BY WorldTypes
  <1>2. [w.s EXCEPT !.flushTask = FALSE] \in Streams
    BY <1>1 DEF Streams
  <1>3. /\ v \in Worlds /\ v.s = [w.s EXCEPT !.flushTask = FALSE] /\ v.cards = w.cards
        /\ v.typing = w.typing /\ v.refused = w.refused /\ v.failures = w.failures
    BY <1>1, <1>2 DEF Worlds
  <1>4. /\ v.s.card = w.s.card /\ v.s.text = w.s.text /\ v.s.status = w.s.status
        /\ v.s.closed = w.s.closed /\ v.s.reaction = w.s.reaction /\ v.s.flushTask = FALSE
        /\ v.s.nextSequence = w.s.nextSequence /\ v.s.dirty = w.s.dirty
        /\ v.s.lastSent = w.s.lastSent
    BY <1>1, <1>3 DEF Streams
  <1>5. WellFormed(v)
    BY <1>3, <1>4 DEF WellFormed
  <1>6. Ahead(w) => Ahead(v)
    BY <1>3, <1>4, Zenon DEF Ahead, Accepts
  <1>7. ASSUME Moves(v, x)
        PROVE  Moves(w, x) /\ ~x.s.flushTask
    <2>1. Leaves(w, x) /\ ~x.s.flushTask
      BY <1>3, <1>4, <1>7, Zenon DEF Moves, Leaves
    <2>2. Stays(v, x) => Stays(w, x)
      BY <1>3, <1>4, Zenon DEF Stays, Accepts
    <2>3. \A k : Creates(v, x, k) => Creates(w, x, k)
      BY <1>3, <1>4, Zenon DEF Creates
    <2>4. \A k : Redraws(v, x, k) => Redraws(w, x, k)
      BY <1>3, <1>4, Zenon DEF Redraws
    <2> QED
      BY <1>7, <2>1, <2>2, <2>3, <2>4, Zenon DEF Moves
  <1>8. CASE x = v /\ (w.s.closed \/ (w.s.card = NoCard /\ w.s.text = {}) \/ (~force /\ w.s.card # NoCard))
    <2>1. Moves(v, x)
      BY <1>3, <1>8, Zenon DEF Moves, Leaves, Stays
    <2>2. w.s.card = NoCard => IsCurrent(x)
      BY <1>4, <1>8, Zenon DEF IsCurrent
    <2> QED
      BY <1>4, <1>7, <1>8, <2>1, <2>2, Zenon
  <1>9. CASE ~w.s.closed /\ w.s.card = NoCard /\ w.s.text # {} /\ x \in CreateCard(v)
    <2>1. Moves(v, x) /\ (x.failures = 0 => IsCurrent(x))
      BY <1>4, <1>5, <1>9, CreateCardMoves
    <2>2. x.failures = 0 => x.s.card # NoCard
      BY <1>4, <1>5, <1>9, CreateCardMoves
    <2> QED
      BY <1>7, <2>1, <2>2, Zenon
  <1>10. CASE ~w.s.closed /\ w.s.card # NoCard /\ x \in UpdateCard(v)
    <2>1. Moves(v, x) /\ (Ahead(v) /\ x.failures = 0 => IsCurrent(x))
      BY <1>4, <1>5, <1>10, UpdateCardMoves
    <2>2. x.s.card # NoCard
      BY <1>4, <1>10, <2>1, Zenon DEF Moves, Stays, Creates, Redraws
    <2> QED
      BY <1>6, <1>7, <2>1, <2>2, Zenon
  <1>11. \/ x = v /\ (w.s.closed \/ (w.s.card = NoCard /\ w.s.text = {}) \/ (~force /\ w.s.card # NoCard))
         \/ ~w.s.closed /\ w.s.card = NoCard /\ w.s.text # {} /\ x \in CreateCard(v)
         \/ ~w.s.closed /\ w.s.card # NoCard /\ x \in UpdateCard(v)
    BY DEF Flush
  <1> QED
    BY <1>8, <1>9, <1>10, <1>11

-----------------------------------------------------------------------------
(* What such a call keeps.  Quiet and Everywhere are the parts of Kept; a  *)
(* stream with output for its first card is not yet Quiet.                 *)
Quiet(w) == w.failures = 0 /\ ~w.s.closed /\ w.s.card = NoCard => w.s.text = {}

Everywhere(w, h) ==
  w.failures = 0 =>
    \A n \in 1..h.said \ h.gone :
      \/ ~w.s.closed /\ n \in w.s.text
      \/ \E i \in DOMAIN w.cards : n \in w.cards[i].shown /\ (w.s.closed \/ i # w.s.card)

Histories == [said : Nat, before : Nat, gone : SUBSET Nat, again : SUBSET Nat]

LEMMA KeptParts ==
  ASSUME NEW w, NEW h
  PROVE  Kept(w, h) <=> Quiet(w) /\ Everywhere(w, h)
  BY DEF Kept, Quiet, Everywhere

(* The cards of the world before the call, where they are afterwards.      *)
LEMMA MovedCards ==
  ASSUME NEW w, WellFormed(w), NEW x, Moves(w, x)
  PROVE  /\ WellFormed(x) /\ 1..Len(w.cards) = DOMAIN w.cards /\ 1..Len(x.cards) = DOMAIN x.cards
         /\ DOMAIN w.cards \subseteq DOMAIN x.cards
         /\ \A i \in DOMAIN w.cards : i # w.s.card => i # x.s.card /\ x.cards[i] = w.cards[i]
         /\ \A i \in DOMAIN x.cards : i # x.s.card => i \in DOMAIN w.cards /\ i # w.s.card
         /\ w.s.closed => x.cards = w.cards
         /\ w.s.card # NoCard => x.s.card = w.s.card
         /\ x.s.card # NoCard => x.s.card \in DOMAIN x.cards
  <1>1. /\ w.cards \in Seq(Cards) /\ w.s.card \in 0..Len(w.cards)
        /\ w.s.card # NoCard => w.s.card \in 1..Len(w.cards)
    BY WorldTypes
  <1>2. x \in Worlds /\ x.s.closed = w.s.closed /\ (x.s.flushTask => w.s.flushTask) /\ x.cards \in Seq(Cards)
    BY DEF Moves, Leaves, Worlds
  <1>3. w.s.flushTask => w.s.card # NoCard /\ ~w.s.closed
    BY DEF WellFormed
  <1>4. /\ 1..Len(w.cards) = DOMAIN w.cards /\ 1..Len(x.cards) = DOMAIN x.cards
        /\ Len(w.cards) \in Nat
    BY <1>1, <1>2
  <1>5. CASE Stays(w, x)
    <2>1. x.cards = w.cards /\ x.s.card = w.s.card
      BY <1>5 DEF Stays
    <2>2. WellFormed(x)
      BY <1>1, <1>2, <1>3, <2>1, Zenon DEF WellFormed
    <2> QED
      BY <1>1, <1>4, <2>1, <2>2, Zenon
  <1>6. CASE \E k \in Cards : Creates(w, x, k)
    <2>1. PICK k \in Cards : Creates(w, x, k)
      BY <1>6
    <2>2. /\ x.s.card = Len(w.cards) + 1 /\ x.cards = Append(w.cards, k) /\ w.s.card = NoCard
          /\ ~w.s.closed
      BY <2>1 DEF Creates
    <2>3. /\ Len(x.cards) = Len(w.cards) + 1
          /\ \A i \in 1..Len(w.cards) : x.cards[i] = w.cards[i]
      BY <1>1, <2>2
    <2>4. x.s.card \in 1..Len(x.cards) /\ x.s.card \in 0..Len(x.cards) /\ x.s.card # NoCard
      BY <1>4, <2>2, <2>3 DEF NoCard
    <2>5. \A i \in 1..Len(x.cards) : i # x.s.card => i \in 1..Len(w.cards)
      BY <1>4, <2>2, <2>3
    <2>6. 1..Len(w.cards) \subseteq 1..Len(x.cards)
      BY <1>4, <2>3
    <2>7. WellFormed(x)
      BY <1>2, <1>3, <2>2, <2>4, Zenon DEF WellFormed
    <2>8. \A i \in 1..Len(w.cards) : i # x.s.card /\ i # NoCard
      BY <1>4, <2>2 DEF NoCard
    <2> QED
      BY <1>4, <2>2, <2>3, <2>4, <2>5, <2>6, <2>7, <2>8, Zenon
  <1>7. CASE \E k \in Cards : Redraws(w, x, k)
    <2>1. PICK k \in Cards : Redraws(w, x, k)
      BY <1>7
    <2>2. /\ x.s.card = w.s.card /\ x.cards = [w.cards EXCEPT ![w.s.card] = k] /\ w.s.card # NoCard
          /\ ~w.s.closed
      BY <2>1 DEF Redraws
    <2>3. /\ Len(x.cards) = Len(w.cards)
          /\ \A i \in 1..Len(w.cards) : i # w.s.card => x.cards[i] = w.cards[i]
      BY <1>1, <2>2
    <2>4. WellFormed(x)
      BY <1>1, <1>2, <1>3, <2>2, <2>3, Zenon DEF WellFormed
    <2> QED
      BY <1>1, <1>4, <2>2, <2>3, <2>4, Zenon
  <1> QED
    BY <1>5, <1>6, <1>7 DEF Moves

(* What the current card shows: the text, or what it showed before.        *)
LEMMA MovedCard ==
  ASSUME NEW w, WellFormed(w), NEW x, Moves(w, x), x.s.card # NoCard
  PROVE  \/ x.cards[x.s.card].shown = w.s.text
         \/ w.s.card # NoCard /\ x.cards[x.s.card].shown = w.cards[w.s.card].shown
  <1>1. /\ w.cards \in Seq(Cards)
        /\ w.s.card # NoCard => w.s.card \in 1..Len(w.cards)
    BY WorldTypes
  <1>2. CASE Stays(w, x)
    BY <1>2 DEF Stays
  <1>3. ASSUME NEW k \in Cards, Creates(w, x, k)
        PROVE  x.cards[x.s.card].shown = w.s.text
    BY <1>1, <1>3 DEF Creates
  <1>4. ASSUME NEW k \in Cards, Redraws(w, x, k)
        PROVE  \/ x.cards[x.s.card].shown = w.s.text
               \/ w.s.card # NoCard /\ x.cards[x.s.card].shown = w.cards[w.s.card].shown
    BY <1>1, <1>4 DEF Redraws
  <1> QED
    BY <1>2, <1>3, <1>4 DEF Moves

LEMMA MovesKeepAhead ==
  ASSUME NEW w, WellFormed(w), NEW x, Moves(w, x), Ahead(w)
  PROVE  Ahead(x)
  <1> SUFFICES ASSUME x.failures = 0
               PROVE  /\ ~x.refused
                      /\ ~x.s.closed /\ x.s.card # NoCard => Accepts(x, x.s.nextSequence)
    BY DEF Ahead
  <1>1. w.failures = 0 /\ x.s.closed = w.s.closed
    BY DEF Moves, Leaves
  <1>2. ~w.refused /\ (~w.s.closed /\ w.s.card # NoCard => Accepts(w, w.s.nextSequence))
    BY <1>1 DEF Ahead
  <1>3. /\ w.cards \in Seq(Cards) /\ Len(w.cards) \in Nat
        /\ w.s.card # NoCard => w.s.card \in 1..Len(w.cards)
    BY WorldTypes
  <1>4. CASE Stays(w, x)
    BY <1>1, <1>2, <1>4, Zenon DEF Stays, Accepts
  <1>5. ASSUME NEW k \in Cards, Creates(w, x, k)
        PROVE  ~x.refused /\ Accepts(x, x.s.nextSequence)
    <2>1. x.cards[x.s.card] = k /\ k.sequence < x.s.nextSequence /\ x.refused = w.refused
      BY <1>3, <1>5 DEF Creates
    <2> QED
      BY <1>2, <2>1 DEF Accepts
  <1>6. ASSUME NEW k \in Cards, Redraws(w, x, k)
        PROVE  ~x.refused /\ Accepts(x, x.s.nextSequence)
    <2>1. x.cards[x.s.card] = k /\ k.sequence < x.s.nextSequence /\ x.refused = w.refused
      BY <1>3, <1>6 DEF Redraws
    <2> QED
      BY <1>2, <2>1 DEF Accepts
  <1> QED
    BY <1>4, <1>5, <1>6 DEF Moves

LEMMA MovesKeepApart ==
  ASSUME NEW w, WellFormed(w), NEW x, Moves(w, x), NEW h, Apart(w, h)
  PROVE  Apart(x, h)
  <1> DEFINE Before(i) == w.cards[i].shown
             After(i) == x.cards[i].shown
  <1>1. \A i \in DOMAIN x.cards : i # x.s.card =>
          i \in DOMAIN w.cards /\ i # w.s.card /\ After(i) = Before(i)
    BY MovedCards
  <1>2. x.s.text = w.s.text /\ w.s.text \subseteq 0..h.said
    BY DEF Moves, Leaves, Apart
  <1>3. w.s.card # NoCard => w.s.card \in DOMAIN w.cards
    BY WorldTypes
  <1>4. x.s.card \in DOMAIN x.cards =>
          \/ After(x.s.card) = w.s.text
          \/ w.s.card \in DOMAIN w.cards /\ After(x.s.card) = Before(w.s.card)
    <2>1. NoCard \notin DOMAIN x.cards
      BY MovedCards DEF NoCard
    <2> QED
      BY <1>3, <2>1, MovedCard
  <1>5. /\ \A i \in DOMAIN w.cards : Before(i) \subseteq 0..h.said
        /\ \A i \in DOMAIN w.cards : i # w.s.card => Before(i) \subseteq 0..h.before
        /\ \A i \in DOMAIN w.cards : i # w.s.card => w.s.text \cap Before(i) \subseteq h.again \cup {ErrorText}
        /\ \A i, j \in DOMAIN w.cards : i # j => Before(i) \cap Before(j) \subseteq h.again \cup {ErrorText}
    BY DEF Apart
  <1> HIDE DEF Before, After
  <1>6. ASSUME NEW i \in DOMAIN x.cards
        PROVE  /\ After(i) \subseteq 0..h.said
               /\ i # x.s.card => After(i) \subseteq 0..h.before
               /\ i # x.s.card => w.s.text \cap After(i) \subseteq h.again \cup {ErrorText}
    BY <1>1, <1>2, <1>4, <1>5
  <1>7. ASSUME NEW i \in DOMAIN x.cards, NEW j \in DOMAIN x.cards, i # j
        PROVE  After(i) \cap After(j) \subseteq h.again \cup {ErrorText}
    <2>1. CASE i # x.s.card /\ j # x.s.card
      BY <1>1, <1>5, <1>7, <2>1
    <2>2. CASE i = x.s.card
      <3>1. j \in DOMAIN w.cards /\ j # w.s.card /\ After(j) = Before(j)
        BY <1>1, <1>7, <2>2
      <3> QED
        BY <1>4, <1>5, <2>2, <3>1
    <2>3. CASE j = x.s.card
      <3>1. i \in DOMAIN w.cards /\ i # w.s.card /\ After(i) = Before(i)
        BY <1>1, <1>7, <2>3
      <3> QED
        BY <1>4, <1>5, <2>3, <3>1
    <2> QED
      BY <2>1, <2>2, <2>3
  <1> QED
    BY <1>2, <1>6, <1>7 DEF Apart, After

LEMMA MovesKeepEverywhere ==
  ASSUME NEW w, WellFormed(w), NEW x, Moves(w, x), NEW h, Everywhere(w, h)
  PROVE  Everywhere(x, h)
  <1> SUFFICES ASSUME x.failures = 0, NEW n \in 1..h.said \ h.gone
               PROVE  \/ ~x.s.closed /\ n \in x.s.text
                      \/ \E i \in DOMAIN x.cards : n \in x.cards[i].shown /\ (x.s.closed \/ i # x.s.card)
    BY DEF Everywhere
  <1>1. w.failures = 0 /\ x.s.closed = w.s.closed /\ x.s.text = w.s.text
    BY DEF Moves, Leaves
  <1>2. /\ DOMAIN w.cards \subseteq DOMAIN x.cards
        /\ \A i \in DOMAIN w.cards : i # w.s.card => i # x.s.card /\ x.cards[i] = w.cards[i]
        /\ w.s.closed => x.cards = w.cards
    BY MovedCards
  <1>3. CASE ~w.s.closed /\ n \in w.s.text
    BY <1>1, <1>3
  <1>4. CASE \E i \in DOMAIN w.cards : n \in w.cards[i].shown /\ (w.s.closed \/ i # w.s.card)
    <2>1. PICK i \in DOMAIN w.cards : n \in w.cards[i].shown /\ (w.s.closed \/ i # w.s.card)
      BY <1>4
    <2>2. i \in DOMAIN x.cards /\ n \in x.cards[i].shown /\ (x.s.closed \/ i # x.s.card)
      BY <1>1, <1>2, <2>1
    <2> QED
      BY <2>2
  <1> QED
    BY <1>1, <1>3, <1>4 DEF Everywhere

LEMMA MovesKeepQuiet ==
  ASSUME NEW w, WellFormed(w), NEW x, Moves(w, x), Quiet(w)
  PROVE  Quiet(x)
  <1>1. /\ x.failures = 0 => w.failures = 0
        /\ x.s.closed = w.s.closed /\ x.s.text = w.s.text
    BY DEF Moves, Leaves
  <1>2. x.s.card = NoCard => w.s.card = NoCard
    BY MovedCards
  <1> QED
    BY <1>1, <1>2 DEF Quiet

LEMMA MovesKeepTidy ==
  ASSUME NEW w, WellFormed(w), NEW x, Moves(w, x), Tidy(w)
  PROVE  Tidy(x)
  <1> SUFFICES ASSUME x.failures = 0
               PROVE  /\ x.typing => x.s.reaction /\ ~x.s.closed
                      /\ \A i \in DOMAIN x.cards : i # x.s.card \/ x.s.closed => IsSettled(x.cards[i])
    BY DEF Tidy
  <1>1. /\ w.failures = 0 /\ x.s.closed = w.s.closed /\ x.s.reaction = w.s.reaction
        /\ x.typing = w.typing
    BY DEF Moves, Leaves
  <1>2. \A i \in DOMAIN x.cards : i # x.s.card =>
          i \in DOMAIN w.cards /\ i # w.s.card /\ x.cards[i] = w.cards[i]
    BY MovedCards
  <1>3. w.s.closed => x.cards = w.cards
    BY MovedCards
  <1> QED
    BY <1>1, <1>2, <1>3 DEF Tidy

(* A stream that is over, or has failed, opens no card any more.           *)
LEMMA MovesKeepOver ==
  ASSUME NEW w, WellFormed(w), NEW x, Moves(w, x), Quiet(w)
  PROVE  /\ Over(w) => Over(x)
         /\ SaysFailed(w) => SaysFailed(x)
  <1>1. /\ x.failures = 0 => w.failures = 0
        /\ x.s.closed = w.s.closed /\ x.s.text = w.s.text /\ x.s.status = w.s.status
    BY DEF Moves, Leaves
  <1>2. x.failures = 0 /\ ~w.s.closed => x.s.card = w.s.card
    <2>1. ASSUME NEW k, Creates(w, x, k), x.failures = 0
          PROVE  FALSE
      BY <1>1, <2>1 DEF Creates, Quiet
    <2> QED
      BY <2>1 DEF Moves, Stays, Redraws
  <1>3. w.s.closed => x.cards = w.cards
    BY MovedCards
  <1> QED
    BY <1>1, <1>2, <1>3 DEF Over, SaysFailed

LEMMA MovesKeepSound ==
  ASSUME NEW w, NEW x, Moves(w, x), NEW h, Sound(w, h)
  PROVE  Sound(x, h) /\ (Tidy(w) => Tidy(x)) /\ (Over(w) => Over(x)) /\ (SaysFailed(w) => SaysFailed(x))
  <1>1. WellFormed(w) /\ Ahead(w) /\ Apart(w, h) /\ Quiet(w) /\ Everywhere(w, h)
    BY KeptParts DEF Sound
  <1>2. WellFormed(x)
    BY <1>1, MovedCards
  <1>3. Ahead(x) /\ Apart(x, h) /\ Quiet(x) /\ Everywhere(x, h)
    BY <1>1, MovesKeepAhead, MovesKeepApart, MovesKeepQuiet, MovesKeepEverywhere
  <1> QED
    BY <1>1, <1>2, <1>3, KeptParts, MovesKeepTidy, MovesKeepOver DEF Sound

(* The current card is as it stays: nothing is held back from it.          *)
Shut(x) ==
  x.failures = 0 /\ ~x.s.closed => IsCurrent(x) /\ (x.s.card # NoCard => ~x.cards[x.s.card].streaming)

Same(w, x) ==
  /\ x.s.text = w.s.text /\ x.s.status = w.s.status /\ x.s.closed = w.s.closed
  /\ x.s.reaction = w.s.reaction /\ x.typing = w.typing /\ (x.failures = 0 => w.failures = 0)
  /\ w.s.card # NoCard => x.s.card = w.s.card
  /\ Len(w.cards) <= Len(x.cards)

LEMMA MovesSame ==
  ASSUME NEW w, WellFormed(w), NEW x, Moves(w, x)
  PROVE  Same(w, x)
  <1>1. /\ DOMAIN w.cards \subseteq DOMAIN x.cards /\ (w.s.card # NoCard => x.s.card = w.s.card)
        /\ 1..Len(w.cards) = DOMAIN w.cards /\ 1..Len(x.cards) = DOMAIN x.cards /\ WellFormed(x)
    BY MovedCards
  <1>2. Len(w.cards) \in Nat /\ Len(x.cards) \in Nat
    <2>1. w.cards \in Seq(Cards) /\ x.cards \in Seq(Cards)
      BY <1>1, WorldTypes
    <2> QED
      BY <2>1
  <1>3. Len(w.cards) <= Len(x.cards)
    <2>1. \A m, n \in Nat : 1..m \subseteq 1..n => m <= n
      OBVIOUS
    <2> QED
      BY <1>1, <1>2, <2>1
  <1> QED
    BY <1>1, <1>3 DEF Same, Moves, Leaves

LEMMA SameTwice ==
  ASSUME NEW w, NEW x, NEW y, Same(w, x), Same(x, y),
         Len(w.cards) \in Nat, Len(x.cards) \in Nat, Len(y.cards) \in Nat
  PROVE  Same(w, y)
  BY DEF Same

LEMMA FlushAndCloseKeeps ==
  ASSUME NEW w, NEW h, Sound(w, h), NEW x \in FlushAndClose(w)
  PROVE  /\ Sound(x, h) /\ Same(w, x) /\ ~x.s.flushTask /\ Shut(x)
         /\ (Tidy(w) => Tidy(x)) /\ (Over(w) => Over(x)) /\ (SaysFailed(w) => SaysFailed(x))
  <1>1. PICK y \in Flush(w, TRUE) : x \in CloseStreaming(y)
    BY DEF FlushAndClose
  <1>2. WellFormed(w) /\ Ahead(w)
    BY DEF Sound
  <1>3. /\ Moves(w, y) /\ ~y.s.flushTask
        /\ ~w.s.closed /\ y.failures = 0 => IsCurrent(y)
    BY <1>2, FlushMoves
  <1>4. /\ Sound(y, h) /\ (Tidy(w) => Tidy(y)) /\ (Over(w) => Over(y)) /\ (SaysFailed(w) => SaysFailed(y))
        /\ Same(w, y)
    BY <1>2, <1>3, MovesKeepSound, MovesSame
  <1>5. WellFormed(y) /\ Ahead(y)
    BY <1>4 DEF Sound
  <1>6. /\ Moves(y, x)
        /\ x.failures = 0 /\ ~y.s.closed =>
             /\ IsCurrent(y) => IsCurrent(x)
             /\ x.s.card # NoCard => ~x.cards[x.s.card].streaming
    BY <1>1, <1>5, CloseStreamingMoves
  <1>7. /\ Sound(x, h) /\ (Tidy(y) => Tidy(x)) /\ (Over(y) => Over(x)) /\ (SaysFailed(y) => SaysFailed(x))
        /\ Same(y, x)
    BY <1>4, <1>5, <1>6, MovesKeepSound, MovesSame
  <1>8. Same(w, x)
    <2>1. WellFormed(x)
      BY <1>7 DEF Sound
    <2>2. w.cards \in Seq(Cards) /\ x.cards \in Seq(Cards) /\ y.cards \in Seq(Cards)
      BY <1>2, <1>5, <2>1, WorldTypes
    <2>3. Len(w.cards) \in Nat /\ Len(x.cards) \in Nat /\ Len(y.cards) \in Nat
      BY <2>2
    <2> QED
      BY <1>4, <1>7, <2>3, SameTwice
  <1>9. ~x.s.flushTask
    BY <1>3, <1>6 DEF Moves, Leaves
  <1>10. Shut(x)
    BY <1>3, <1>4, <1>6, <1>7, Zenon DEF Shut, Same
  <1> QED
    BY <1>4, <1>7, <1>8, <1>9, <1>10

-----------------------------------------------------------------------------
(* _finalize_state: what a world must have before the h two steps, the  *)
(* end of the reaction and of the stream.                                  *)
AllShown(y, h) ==
  y.failures = 0 => \A n \in 1..h.said \ h.gone : \E i \in DOMAIN y.cards : n \in y.cards[i].shown

AllSettled(y) ==
  y.failures = 0 => (y.typing => y.s.reaction) /\ \A i \in DOMAIN y.cards : IsSettled(y.cards[i])

HasFailed(y) == y.failures = 0 => \E i \in DOMAIN y.cards : y.cards[i].status = "failed"

Closable(y, h) ==
  /\ y \in Worlds /\ y.s.card \in 0..Len(y.cards) /\ ~y.s.flushTask
  /\ y.failures = 0 => ~y.refused
  /\ Apart(y, h) /\ AllShown(y, h)

LEMMA RemovedReaction ==
  ASSUME NEW y \in Worlds, NEW z \in RemoveReaction(y)
  PROVE  /\ z \in Worlds /\ z.s = y.s /\ z.cards = y.cards /\ z.refused = y.refused
         /\ z.failures = 0 => y.failures = 0 /\ (y.s.reaction => ~z.typing) /\ (~y.s.reaction => z.typing = y.typing)
  <1>1. y.s.reaction \in BOOLEAN
    BY DEF Worlds, Streams
  <1>2. CASE z = y /\ ~y.s.reaction
    BY <1>2
  <1>3. CASE z = [y EXCEPT !.typing = FALSE] /\ y.s.reaction
    BY <1>3 DEF Worlds
  <1>4. CASE z \in Failing(y)
    BY <1>4, FailingCall
  <1> QED
    BY <1>1, <1>2, <1>3, <1>4 DEF RemoveReaction

ClosedAs(s) == [s EXCEPT !.closed = TRUE]

(* What closing leaves of a world.                                         *)
ClosedOff(z, x, outcome) ==
  /\ x \in Worlds /\ x.s.closed /\ x.s.card = z.s.card /\ x.s.flushTask = z.s.flushTask
  /\ x.s.text = z.s.text /\ x.typing = z.typing /\ x.failures = z.failures /\ x.refused = z.refused
  /\ DOMAIN x.cards = DOMAIN z.cards /\ Len(x.cards) = Len(z.cards)
  /\ \A i \in DOMAIN z.cards :
       /\ x.cards[i].shown = z.cards[i].shown /\ x.cards[i].status = z.cards[i].status
       /\ x.cards[i].streaming = z.cards[i].streaming
       /\ x.cards[i].record = z.cards[i].record \/ x.cards[i].record = outcome

LEMMA ClosedStream ==
  ASSUME NEW z, z \in Worlds, z.s.card \in 0..Len(z.cards), NEW outcome, outcome \in Outcomes
  PROVE  ClosedOff(z, CloseStream(z, outcome), outcome)
  <1> PICK x : x = CloseStream(z, outcome)
    OBVIOUS
  <1> PICK s : s = ClosedAs(z.s)
    OBVIOUS
  <1>1. z.s \in Streams /\ z.cards \in Seq(Cards)
    BY DEF Worlds
  <1>2. /\ s \in Streams /\ s.closed /\ s.card = z.s.card /\ s.flushTask = z.s.flushTask
        /\ s.text = z.s.text
    BY <1>1 DEF Streams, ClosedAs
  <1>3. CASE z.s.card = NoCard
    <2>1. x = Holding(z, s)
      BY <1>3 DEF CloseStream, ClosedAs
    <2>2. /\ x \in Worlds /\ x.s = s /\ x.cards = z.cards /\ x.typing = z.typing
          /\ x.failures = z.failures /\ x.refused = z.refused
      BY <1>2, <2>1, Held
    <2> QED
      BY <1>2, <2>2, Zenon DEF ClosedOff
  <1>4. CASE z.s.card # NoCard
    <2> PICK noted \in BOOLEAN : noted = FALSE
      OBVIOUS
    <2> PICK k : k = WithRow(z.cards[z.s.card], outcome, noted)
      OBVIOUS
    <2> PICK y : y = Redraw(z, z.s.card, k)
      OBVIOUS
    <2>1. x = Holding(y, s)
      BY <1>4 DEF CloseStream, ClosedAs, WithRow
    <2>2. z.s.card \in 1..Len(z.cards) /\ z.cards[z.s.card] \in Cards
      BY <1>1, <1>4 DEF NoCard
    <2>3. /\ k \in Cards /\ k.shown = z.cards[z.s.card].shown /\ k.status = z.cards[z.s.card].status
          /\ k.streaming = z.cards[z.s.card].streaming /\ k.record = outcome
      <3>1. outcome \in {"streaming", "superseded"} \cup Outcomes /\ FALSE \in BOOLEAN
        OBVIOUS
      <3> QED
        BY <2>2, <3>1, RowUpdates
    <2>4. /\ y \in Worlds /\ y.cards = [z.cards EXCEPT ![z.s.card] = k] /\ y.typing = z.typing
          /\ y.failures = z.failures /\ y.refused = z.refused /\ y.cards[z.s.card] = k
      <3>1. z \in Worlds /\ z.s.card \in 1..Len(z.cards) /\ k \in Cards
        BY <2>2, <2>3
      <3> QED
        BY <3>1, Redrawn
    <2>5. /\ x \in Worlds /\ x.s = s /\ x.cards = y.cards /\ x.typing = z.typing
          /\ x.failures = z.failures /\ x.refused = z.refused
      <3>1. y \in Worlds /\ s \in Streams
        BY <1>2, <2>4
      <3>2. LET held == Holding(y, s)
            IN  /\ held \in Worlds /\ held.s = s /\ held.cards = y.cards /\ held.typing = y.typing
                /\ held.failures = y.failures /\ held.refused = y.refused
        BY ONLY <3>1, Held
      <3>3. /\ x \in Worlds /\ x.s = s /\ x.cards = y.cards /\ x.typing = y.typing
            /\ x.failures = y.failures /\ x.refused = y.refused
        BY ONLY <2>1, <3>2
      <3> QED
        BY <2>4, <3>3, Zenon
    <2>6. /\ DOMAIN x.cards = DOMAIN z.cards /\ x.cards[z.s.card] = k
          /\ \A i \in DOMAIN z.cards : i # z.s.card => x.cards[i] = z.cards[i]
      <3>1. x.cards = [z.cards EXCEPT ![z.s.card] = k] /\ x.cards[z.s.card] = k
        BY <2>4, <2>5
      <3> QED
        BY <3>1
    <2>7. \A i \in DOMAIN z.cards :
            /\ x.cards[i].shown = z.cards[i].shown /\ x.cards[i].status = z.cards[i].status
            /\ x.cards[i].streaming = z.cards[i].streaming
            /\ x.cards[i].record = z.cards[i].record \/ x.cards[i].record = outcome
      BY <2>3, <2>6, Zenon
    <2>8. Len(x.cards) = Len(z.cards)
      BY <1>1, <2>4, <2>5
    <2>9. /\ x \in Worlds /\ x.s.closed /\ x.s.card = z.s.card /\ x.s.flushTask = z.s.flushTask
          /\ x.s.text = z.s.text /\ x.typing = z.typing /\ x.failures = z.failures /\ x.refused = z.refused
      BY <1>2, <2>5
    <2> QED
      BY <2>6, <2>7, <2>8, <2>9, Zenon DEF ClosedOff
  <1> QED
    BY <1>3, <1>4

LEMMA ClosingKeeps ==
  ASSUME NEW y, NEW h, Closable(y, h), NEW outcome \in Outcomes, NEW z \in RemoveReaction(y),
         NEW x, x = CloseStream(z, outcome)
  PROVE  /\ Sound(x, h) /\ x.s.closed /\ Len(x.cards) = Len(y.cards)
         /\ AllSettled(y) => Tidy(x)
         /\ HasFailed(y) => SaysFailed(x)
  <1>1. /\ z \in Worlds /\ z.s = y.s /\ z.cards = y.cards /\ z.refused = y.refused
        /\ z.failures = 0 => y.failures = 0 /\ (y.s.reaction => ~z.typing) /\ (~y.s.reaction => z.typing = y.typing)
    BY RemovedReaction DEF Closable
  <1>2. ClosedOff(z, x, outcome)
    <2>1. z.s.card \in 0..Len(z.cards)
      BY <1>1 DEF Closable
    <2> QED
      BY <1>1, <2>1, ClosedStream
  <1>3. /\ x \in Worlds /\ x.s.closed /\ x.s.card = y.s.card /\ x.s.flushTask = y.s.flushTask
        /\ x.s.text = y.s.text /\ x.typing = z.typing /\ x.failures = z.failures /\ x.refused = y.refused
        /\ DOMAIN x.cards = DOMAIN y.cards /\ Len(x.cards) = Len(y.cards)
        /\ \A i \in DOMAIN x.cards :
             /\ x.cards[i].shown = y.cards[i].shown /\ x.cards[i].status = y.cards[i].status
             /\ x.cards[i].streaming = y.cards[i].streaming
             /\ x.cards[i].record = y.cards[i].record \/ x.cards[i].record = outcome
    BY <1>1, <1>2 DEF ClosedOff
  <1>4. WellFormed(x)
    BY <1>3 DEF WellFormed, Closable
  <1>5. Ahead(x)
    BY <1>1, <1>3 DEF Ahead, Closable
  <1>6. Apart(x, h)
    BY <1>3 DEF Apart, Closable
  <1>7. Kept(x, h)
    <2>1. Quiet(x)
      BY <1>3 DEF Quiet
    <2>2. Everywhere(x, h)
      BY <1>1, <1>3 DEF Everywhere, Closable, AllShown
    <2> QED
      BY <2>1, <2>2, KeptParts
  <1>8. AllSettled(y) => Tidy(x)
    BY <1>1, <1>3 DEF AllSettled, Tidy, IsSettled, Outcomes
  <1>9. HasFailed(y) => SaysFailed(x)
    BY <1>1, <1>3 DEF HasFailed, SaysFailed
  <1> QED
    BY <1>3, <1>4, <1>5, <1>6, <1>7, <1>8, <1>9 DEF Sound

(* The card that says an error ended the turn, when there was no reply.    *)
Told(s, n) ==
  [s EXCEPT !.card = n, !.nextSequence = 0, !.dirty = FALSE, !.lastSent = {ErrorText},
            !.known = {ErrorText}]

Reports(w, x, k) ==
  /\ x \in Worlds /\ x.s.text = w.s.text /\ x.s.flushTask = w.s.flushTask
  /\ x.s.reaction = w.s.reaction /\ x.typing = w.typing /\ x.refused = w.refused
  /\ x.failures = 0 => w.failures = 0 /\ x.cards = Append(w.cards, k)
  /\ \/ x.cards = w.cards /\ x.s.card = NoCard
     \/ x.cards = Append(w.cards, k) /\ x.s.card \in {NoCard, Len(w.cards) + 1}

LEMMA ToldStream ==
  ASSUME NEW s \in Streams, NEW n \in Nat
  PROVE  /\ Told(s, n) \in Streams /\ Told(s, n).card = n /\ Told(s, n).text = s.text
         /\ Told(s, n).flushTask = s.flushTask /\ Told(s, n).reaction = s.reaction
         /\ Told(s, n).nextSequence = 0
  <1>1. {ErrorText} \in SUBSET Pieces
    BY ReplyStreamAssumption DEF Pieces, ErrorText
  <1> QED
    BY <1>1 DEF Streams, Told

LEMMA FailureReported ==
  ASSUME NEW w, WellFormed(w), w.s.card = NoCard, NEW z \in SendFailureCard(w), NEW x \in CloseStreaming(z)
  PROVE  \E k \in Cards :
           k.shown = {ErrorText} /\ k.status = "failed" /\ IsSettled(k) /\ Reports(w, x, k)
  <1>1. w \in Worlds /\ w.s \in Streams /\ w.cards \in Seq(Cards) /\ w.s.reaction \in BOOLEAN
    BY WorldTypes
  <1>2. PICK k : k = [shown |-> {ErrorText}, status |-> "failed", streaming |-> FALSE, sequence |-> 0,
                         record |-> "failed", noted |-> w.s.reaction]
    OBVIOUS
  <1>3. k \in Cards /\ k.shown = {ErrorText} /\ k.status = "failed" /\ IsSettled(k)
    <2>1. {ErrorText} \in SUBSET Pieces
      BY ReplyStreamAssumption DEF Pieces, ErrorText
    <2> QED
      BY <1>1, <1>2, <2>1 DEF Cards, Outcomes, IsSettled
  <1>4. PICK v : v = [w EXCEPT !.cards = Append(w.cards, k)]
    OBVIOUS
  <1>5. /\ v \in Worlds /\ v.s = w.s /\ v.cards = Append(w.cards, k) /\ v.typing = w.typing
        /\ v.refused = w.refused /\ v.failures = w.failures
    <2>1. Append(w.cards, k) \in Seq(Cards)
      BY <1>1, <1>3
    <2> QED
      BY <1>1, <1>4, <2>1 DEF Worlds
  <1>6. \/ z \in Failing(w)
        \/ z = v
        \/ z = [v EXCEPT !.s.card = Len(w.cards) + 1, !.s.nextSequence = 0, !.s.dirty = FALSE,
                         !.s.lastSent = {ErrorText}, !.s.known = {ErrorText}]
    BY <1>2, <1>4 DEF SendFailureCard
  <1>7. Reports(w, z, k) /\ (z.s.card = NoCard \/ z.s.nextSequence <= 0)
    <2>1. CASE z \in Failing(w)
      <3>1. /\ z \in Worlds /\ z.s = w.s /\ z.cards = w.cards /\ z.typing = w.typing
            /\ z.refused = w.refused /\ z.failures # 0
        BY <1>1, <2>1, FailingCall
      <3> QED
        BY <3>1, Zenon DEF Reports
    <2>2. CASE z = v
      <3>1. z.s.card \in {NoCard, Len(w.cards) + 1}
        BY <1>5, <2>2
      <3> QED
        BY <1>5, <2>2, <3>1, Zenon DEF Reports
    <2>3. CASE z = [v EXCEPT !.s.card = Len(w.cards) + 1, !.s.nextSequence = 0, !.s.dirty = FALSE,
                             !.s.lastSent = {ErrorText}, !.s.known = {ErrorText}]
      <3> PICK s : s = Told(w.s, Len(w.cards) + 1)
        OBVIOUS
      <3>1. Len(w.cards) + 1 \in Nat
        BY <1>1
      <3>2. /\ s \in Streams /\ s.card = Len(w.cards) + 1 /\ s.text = w.s.text
            /\ s.flushTask = w.s.flushTask /\ s.reaction = w.s.reaction /\ s.nextSequence = 0
        BY <1>1, <3>1, ToldStream
      <3>3. z = Holding(v, s)
        BY <1>5, <2>3 DEF Holding, Told
      <3>4. /\ z \in Worlds /\ z.s = s /\ z.cards = v.cards /\ z.typing = v.typing
            /\ z.failures = v.failures /\ z.refused = v.refused
        <4>1. v \in Worlds /\ s \in Streams
          BY <1>5, <3>2
        <4> QED
          BY <3>3, <4>1, Held
      <3>5. z.s.card \in {NoCard, Len(w.cards) + 1} /\ z.s.nextSequence <= 0
        BY <3>2, <3>4
      <3> QED
        BY <1>5, <3>2, <3>4, <3>5, Zenon DEF Reports
    <2> QED
      BY <1>6, <2>1, <2>2, <2>3
  <1>8. x = z
    BY <1>7 DEF CloseStreaming
  <1> QED
    BY <1>3, <1>7, <1>8

LEMMA FailureKeeps ==
  ASSUME NEW w, NEW h \in Histories, Sound(w, h), w.s.card = NoCard, NEW x, NEW k \in Cards,
         k.shown = {ErrorText}, k.status = "failed", IsSettled(k), Reports(w, x, k)
  PROVE  /\ Closable(x, h) /\ Len(w.cards) <= Len(x.cards) /\ HasFailed(x)
         /\ Tidy(w) => AllSettled(x)
  <1>1. WellFormed(w) /\ Ahead(w) /\ Apart(w, h) /\ Quiet(w) /\ Everywhere(w, h)
    BY KeptParts DEF Sound
  <1>2. w.cards \in Seq(Cards) /\ Len(w.cards) \in Nat /\ ~w.s.flushTask /\ NoCard \notin DOMAIN w.cards
    <2>1. w.cards \in Seq(Cards)
      BY <1>1, WorldTypes
    <2>2. ~w.s.flushTask
      BY <1>1 DEF WellFormed
    <2> QED
      BY <2>1, <2>2 DEF NoCard
  <1>3. /\ x \in Worlds /\ x.s.text = w.s.text /\ ~x.s.flushTask
        /\ x.s.reaction = w.s.reaction /\ x.typing = w.typing /\ x.refused = w.refused
        /\ x.failures = 0 => w.failures = 0 /\ x.cards = Append(w.cards, k)
        /\ \/ x.cards = w.cards /\ x.s.card = NoCard
           \/ x.cards = Append(w.cards, k) /\ x.s.card \in {NoCard, Len(w.cards) + 1}
    BY <1>2, Zenon DEF Reports
  <1>4. /\ x.s.card \in 0..Len(x.cards) /\ Len(w.cards) <= Len(x.cards)
        /\ \A i \in DOMAIN x.cards : IF i \in DOMAIN w.cards THEN x.cards[i] = w.cards[i] ELSE x.cards[i] = k
        /\ \A i, j \in DOMAIN x.cards : i # j => i \in DOMAIN w.cards \/ j \in DOMAIN w.cards
        /\ DOMAIN w.cards \subseteq DOMAIN x.cards
        /\ x.cards = Append(w.cards, k) => Len(w.cards) + 1 \in DOMAIN x.cards /\ x.cards[Len(w.cards) + 1] = k
    <2>1. CASE x.cards = w.cards /\ x.s.card = NoCard
      <3>1. x.cards # Append(w.cards, k)
        BY <1>2, <2>1
      <3> QED
        BY <1>2, <2>1, <3>1 DEF NoCard
    <2>2. CASE x.cards = Append(w.cards, k) /\ x.s.card \in {NoCard, Len(w.cards) + 1}
      <3>1. /\ Len(x.cards) = Len(w.cards) + 1 /\ DOMAIN x.cards = 1..(Len(w.cards) + 1)
            /\ DOMAIN w.cards = 1..Len(w.cards)
            /\ \A i \in 1..Len(w.cards) : x.cards[i] = w.cards[i]
            /\ x.cards[Len(w.cards) + 1] = k
        BY <1>2, <2>2
      <3> QED
        BY <1>2, <2>2, <3>1 DEF NoCard
    <2> QED
      BY <1>3, <2>1, <2>2
  <1>5. Apart(x, h)
    <2>1. {ErrorText} \subseteq 0..h.said /\ {ErrorText} \subseteq 0..h.before
      BY DEF ErrorText, Histories
    <2>2. \A i \in DOMAIN x.cards :
            \/ i \in DOMAIN w.cards /\ i # w.s.card /\ x.cards[i].shown = w.cards[i].shown
            \/ i \notin DOMAIN w.cards /\ x.cards[i].shown = {ErrorText}
      BY <1>2, <1>4
    <2>3. /\ w.s.text \subseteq 0..h.said
          /\ \A i \in DOMAIN w.cards : w.cards[i].shown \subseteq 0..h.said
          /\ \A i \in DOMAIN w.cards : i # w.s.card => w.cards[i].shown \subseteq 0..h.before
          /\ \A i \in DOMAIN w.cards : i # w.s.card => w.s.text \cap w.cards[i].shown \subseteq h.again \cup {ErrorText}
          /\ \A i, j \in DOMAIN w.cards :
               i # j => w.cards[i].shown \cap w.cards[j].shown \subseteq h.again \cup {ErrorText}
      BY <1>1, Zenon DEF Apart
    <2>4. \A i \in DOMAIN x.cards :
            /\ x.cards[i].shown \subseteq 0..h.said /\ x.cards[i].shown \subseteq 0..h.before
            /\ x.s.text \cap x.cards[i].shown \subseteq h.again \cup {ErrorText}
      BY <1>3, <2>1, <2>2, <2>3
    <2>5. \A i, j \in DOMAIN x.cards :
            i # j => x.cards[i].shown \cap x.cards[j].shown \subseteq h.again \cup {ErrorText}
      BY <1>4, <2>2, <2>3
    <2> QED
      BY <1>3, <2>3, <2>4, <2>5, Zenon DEF Apart
  <1>6. AllShown(x, h)
    BY <1>1, <1>3, <1>4 DEF AllShown, Everywhere, Quiet
  <1>7. Tidy(w) => AllSettled(x)
    <2> SUFFICES ASSUME Tidy(w), x.failures = 0
                 PROVE  (x.typing => x.s.reaction) /\ \A i \in DOMAIN x.cards : IsSettled(x.cards[i])
      BY DEF AllSettled
    <2>1. /\ w.typing => w.s.reaction
          /\ \A i \in DOMAIN w.cards : IsSettled(w.cards[i])
      BY <1>2, <1>3 DEF Tidy
    <2> QED
      BY <1>3, <1>4, <2>1
  <1>8. HasFailed(x)
    BY <1>3, <1>4 DEF HasFailed
  <1>9. x.failures = 0 => ~x.refused
    BY <1>1, <1>3 DEF Ahead
  <1> QED
    BY <1>3, <1>4, <1>5, <1>6, <1>7, <1>8, <1>9, Zenon DEF Closable

(* Flushed and closed, the current card is ready for the end, and so is a  *)
(* stream without a card.                                                  *)
LEMMA ShutIsClosable ==
  ASSUME NEW w, NEW h \in Histories, Sound(w, h), NEW x \in FlushAndClose(w)
  PROVE  /\ Closable(x, h) /\ Len(w.cards) <= Len(x.cards) /\ x.s.closed = w.s.closed
         /\ Tidy(w) /\ Over(w) => AllSettled(x)
         /\ w.s.card # NoCard /\ SaysFailed(w) => HasFailed(x)
  <1>1. /\ Sound(x, h) /\ Same(w, x) /\ ~x.s.flushTask /\ Shut(x)
        /\ (Tidy(w) => Tidy(x)) /\ (Over(w) => Over(x)) /\ (SaysFailed(w) => SaysFailed(x))
    BY FlushAndCloseKeeps
  <1>2. WellFormed(x) /\ Ahead(x) /\ Apart(x, h) /\ Quiet(x) /\ Everywhere(x, h)
    BY <1>1, KeptParts DEF Sound
  <1>3. /\ x \in Worlds /\ x.s.card \in 0..Len(x.cards) /\ x.cards \in Seq(Cards)
        /\ x.s.card # NoCard => x.s.card \in 1..Len(x.cards)
    BY <1>2, WorldTypes
  <1>4. x.s.card # NoCard => x.s.card \in DOMAIN x.cards
    BY <1>3
  <1>5. AllShown(x, h)
    BY <1>1, <1>2, <1>4 DEF AllShown, Everywhere, Quiet, Shut, IsCurrent
  <1>6. Tidy(x) /\ Over(x) => AllSettled(x)
    <2> SUFFICES ASSUME Tidy(x), Over(x), x.failures = 0
                 PROVE  (x.typing => x.s.reaction) /\ \A i \in DOMAIN x.cards : IsSettled(x.cards[i])
      BY DEF AllSettled
    <2>1. /\ x.typing => x.s.reaction
          /\ \A i \in DOMAIN x.cards : i # x.s.card \/ x.s.closed => IsSettled(x.cards[i])
      BY DEF Tidy
    <2>2. ~x.s.closed /\ x.s.card # NoCard => IsSettled(x.cards[x.s.card])
      BY <1>1 DEF Shut, IsCurrent, Over, IsSettled
    <2>3. NoCard \notin DOMAIN x.cards
      BY <1>3 DEF NoCard
    <2> QED
      BY <2>1, <2>2, <2>3
  <1>7. x.s.card # NoCard /\ SaysFailed(x) => HasFailed(x)
    BY <1>1, <1>4 DEF SaysFailed, HasFailed, Shut, IsCurrent
  <1>8. x.failures = 0 => ~x.refused
    BY <1>2 DEF Ahead
  <1>9. Closable(x, h)
    BY <1>1, <1>2, <1>3, <1>5, <1>8, Zenon DEF Closable
  <1>10. w.s.card # NoCard => x.s.card # NoCard
    BY <1>1 DEF Same
  <1>11. Len(w.cards) <= Len(x.cards) /\ x.s.closed = w.s.closed
    BY <1>1 DEF Same
  <1> QED
    BY <1>1, <1>6, <1>7, <1>9, <1>10, <1>11, Zenon

LEMMA FinalizedKeeps ==
  ASSUME NEW w, NEW h \in Histories, Sound(w, h), NEW outcome \in Outcomes, NEW x \in Finalized(w, outcome)
  PROVE  /\ Sound(x, h) /\ x.s.closed /\ Len(w.cards) <= Len(x.cards)
         /\ Tidy(w) /\ Over(w) => Tidy(x)
         /\ outcome = "failed" /\ SaysFailed(w) => SaysFailed(x)
  <1> DEFINE Ends(y) == \E z \in RemoveReaction(y) : x = CloseStream(z, outcome)
  <1>1. \/ /\ outcome = "failed" /\ w.s.card = NoCard
           /\ \E v \in SendFailureCard(w) : \E y \in CloseStreaming(v) : Ends(y)
        \/ /\ ~(outcome = "failed" /\ w.s.card = NoCard)
           /\ \E y \in FlushAndClose(w) : Ends(y)
    BY DEF Finalized
  <1> HIDE DEF Ends
  <1>2. \E y : /\ Ends(y) /\ Closable(y, h) /\ Len(w.cards) <= Len(y.cards)
               /\ Tidy(w) /\ Over(w) => AllSettled(y)
               /\ outcome = "failed" /\ SaysFailed(w) => HasFailed(y)
    <2>1. CASE /\ w.s.card = NoCard
               /\ \E v \in SendFailureCard(w) : \E y \in CloseStreaming(v) : Ends(y)
      <3>1. PICK v \in SendFailureCard(w) : \E y \in CloseStreaming(v) : Ends(y)
        BY <2>1
      <3>2. PICK y \in CloseStreaming(v) : Ends(y)
        BY <3>1
      <3>3. WellFormed(w)
        BY DEF Sound
      <3>4. PICK k \in Cards :
              k.shown = {ErrorText} /\ k.status = "failed" /\ IsSettled(k) /\ Reports(w, y, k)
        BY <2>1, <3>3, FailureReported
      <3>5. /\ Closable(y, h) /\ Len(w.cards) <= Len(y.cards) /\ HasFailed(y)
            /\ Tidy(w) => AllSettled(y)
        BY <2>1, <3>4, FailureKeeps
      <3> QED
        BY <3>2, <3>5, Zenon
    <2>2. CASE /\ ~(outcome = "failed" /\ w.s.card = NoCard)
               /\ \E y \in FlushAndClose(w) : Ends(y)
      <3>1. PICK y \in FlushAndClose(w) : Ends(y)
        BY <2>2
      <3>2. /\ Closable(y, h) /\ Len(w.cards) <= Len(y.cards)
            /\ Tidy(w) /\ Over(w) => AllSettled(y)
            /\ w.s.card # NoCard /\ SaysFailed(w) => HasFailed(y)
        BY ShutIsClosable
      <3> QED
        BY <2>2, <3>1, <3>2, Zenon
    <2> QED
      BY <1>1, <2>1, <2>2
  <1>3. PICK y : /\ Ends(y) /\ Closable(y, h) /\ Len(w.cards) <= Len(y.cards)
                 /\ Tidy(w) /\ Over(w) => AllSettled(y)
                 /\ outcome = "failed" /\ SaysFailed(w) => HasFailed(y)
    BY <1>2
  <1>4. PICK z \in RemoveReaction(y) : x = CloseStream(z, outcome)
    BY <1>3 DEF Ends
  <1>5. /\ Sound(x, h) /\ x.s.closed /\ Len(x.cards) = Len(y.cards)
        /\ AllSettled(y) => Tidy(x)
        /\ HasFailed(y) => SaysFailed(x)
    BY <1>3, <1>4, ClosingKeeps
  <1> QED
    BY <1>3, <1>5

-----------------------------------------------------------------------------
(* start_followup_turn: the current card is completed and superseded, and  *)
(* the stream starts again.                                                *)
Relabelled(y, u) ==
  /\ u \in Worlds /\ u.s = y.s /\ u.typing = y.typing /\ u.failures = y.failures /\ u.refused = y.refused
  /\ DOMAIN u.cards = DOMAIN y.cards /\ Len(u.cards) = Len(y.cards)
  /\ \A i \in DOMAIN y.cards :
       /\ u.cards[i].shown = y.cards[i].shown /\ u.cards[i].status = y.cards[i].status
       /\ u.cards[i].streaming = y.cards[i].streaming /\ u.cards[i].sequence = y.cards[i].sequence
       /\ u.cards[i].record = y.cards[i].record \/ u.cards[i].record = "superseded"

LEMMA SupersededCard ==
  ASSUME NEW y, y \in Worlds, NEW read, read.card \in 1..Len(y.cards), read.reaction \in BOOLEAN
  PROVE  Relabelled(y, Supersede(y, read))
  <1> PICK k : k = WithRow(y.cards[read.card], "superseded", read.reaction)
    OBVIOUS
  <1> PICK u : u = Redraw(y, read.card, k)
    OBVIOUS
  <1>1. y.cards \in Seq(Cards) /\ y.cards[read.card] \in Cards
    BY DEF Worlds
  <1>2. /\ k \in Cards /\ k.shown = y.cards[read.card].shown /\ k.status = y.cards[read.card].status
        /\ k.sequence = y.cards[read.card].sequence
        /\ k.streaming = y.cards[read.card].streaming /\ k.record = "superseded"
    BY <1>1, RowUpdates
  <1>3. /\ u \in Worlds /\ u.cards = [y.cards EXCEPT ![read.card] = k] /\ u.typing = y.typing /\ u.s = y.s
        /\ u.failures = y.failures /\ u.refused = y.refused /\ u.cards[read.card] = k
        /\ Len(u.cards) = Len(y.cards)
    BY <1>2, Redrawn
  <1>4. /\ DOMAIN u.cards = DOMAIN y.cards
        /\ \A i \in DOMAIN y.cards : i # read.card => u.cards[i] = y.cards[i]
    BY <1>3
  <1>5. \A i \in DOMAIN y.cards :
          /\ u.cards[i].shown = y.cards[i].shown /\ u.cards[i].status = y.cards[i].status
          /\ u.cards[i].streaming = y.cards[i].streaming /\ u.cards[i].sequence = y.cards[i].sequence
          /\ u.cards[i].record = y.cards[i].record \/ u.cards[i].record = "superseded"
    BY <1>2, <1>3, <1>4, Zenon
  <1>6. Relabelled(y, u)
    BY <1>3, <1>4, <1>5, Zenon DEF Relabelled
  <1>7. u = Supersede(y, read)
    BY DEF Supersede, WithRow
  <1> QED
    BY <1>6, <1>7

(* A closed stream keeps everything.                                       *)
LEMMA RelabelledKeeps ==
  ASSUME NEW y, NEW h, NEW u, Relabelled(y, u)
  PROVE  /\ Sound(y, h) => Sound(u, h)
         /\ Tidy(y) => Tidy(u)
         /\ Over(y) => Over(u)
         /\ SaysFailed(y) => SaysFailed(u)
         /\ Closable(y, h) => Closable(u, h)
         /\ AllSettled(y) => AllSettled(u)
  <1>1. /\ u \in Worlds /\ u.s = y.s /\ u.typing = y.typing /\ u.failures = y.failures /\ u.refused = y.refused
        /\ DOMAIN u.cards = DOMAIN y.cards /\ Len(u.cards) = Len(y.cards)
    BY DEF Relabelled
  <1>2. \A i \in DOMAIN y.cards :
          /\ u.cards[i].shown = y.cards[i].shown /\ u.cards[i].status = y.cards[i].status
          /\ u.cards[i].streaming = y.cards[i].streaming /\ u.cards[i].sequence = y.cards[i].sequence
          /\ u.cards[i].record = y.cards[i].record \/ u.cards[i].record = "superseded"
    BY Zenon DEF Relabelled
  <1>3. \A i \in DOMAIN y.cards : IsSettled(y.cards[i]) => IsSettled(u.cards[i])
    BY <1>2 DEF IsSettled
  <1>4. Apart(y, h) => Apart(u, h)
    BY <1>1, <1>2 DEF Apart
  <1>5. WellFormed(y) => WellFormed(u)
    BY <1>1 DEF WellFormed
  <1>6. WellFormed(y) /\ Ahead(y) => Ahead(u)
    <2> SUFFICES ASSUME WellFormed(y), Ahead(y) PROVE Ahead(u)
      OBVIOUS
    <2>1. y.s.card # NoCard => y.s.card \in DOMAIN y.cards
      <3>1. y.cards \in Seq(Cards) /\ (y.s.card # NoCard => y.s.card \in 1..Len(y.cards))
        BY WorldTypes
      <3> QED
        BY <3>1
    <2> QED
      BY <1>1, <1>2, <2>1 DEF Ahead, Accepts
  <1>7. Kept(y, h) => Kept(u, h)
    BY <1>1, <1>2 DEF Kept
  <1>8. Tidy(y) => Tidy(u)
    BY <1>1, <1>3 DEF Tidy
  <1>9. (Over(y) => Over(u)) /\ (SaysFailed(y) => SaysFailed(u))
    BY <1>1, <1>2 DEF Over, SaysFailed
  <1>10. AllShown(y, h) => AllShown(u, h)
    BY <1>1, <1>2 DEF AllShown
  <1>11. Closable(y, h) => Closable(u, h)
    BY <1>1, <1>4, <1>10 DEF Closable
  <1>12. AllSettled(y) => AllSettled(u)
    BY <1>1, <1>3 DEF AllSettled
  <1> QED
    BY <1>4, <1>5, <1>6, <1>7, <1>8, <1>9, <1>11, <1>12, Zenon DEF Sound

AsCompleted(s) == [s EXCEPT !.status = "completed", !.dirty = TRUE]

LEMMA CompletingKeeps ==
  ASSUME NEW w, NEW h, Sound(w, h), NEW v, v = Holding(w, AsCompleted(w.s))
  PROVE  /\ Sound(v, h) /\ (Tidy(w) => Tidy(v)) /\ Over(v)
         /\ v.cards = w.cards /\ v.failures = w.failures /\ v.s.card = w.s.card
         /\ v.s.text = w.s.text /\ v.s.closed = w.s.closed
         /\ v = [w EXCEPT !.s.status = "completed", !.s.dirty = TRUE]
  <1>1. WellFormed(w) /\ Ahead(w) /\ Apart(w, h) /\ Quiet(w) /\ Everywhere(w, h)
    BY KeptParts DEF Sound
  <1>2. w \in Worlds /\ w.s \in Streams /\ w.s.card \in 0..Len(w.cards) /\ w.cards \in Seq(Cards)
    BY <1>1, WorldTypes
  <1> PICK s : s = AsCompleted(w.s)
    OBVIOUS
  <1>3. /\ s \in Streams /\ s.card = w.s.card /\ s.text = w.s.text /\ s.closed = w.s.closed
        /\ s.reaction = w.s.reaction /\ s.flushTask = w.s.flushTask /\ s.status = "completed"
        /\ s.nextSequence = w.s.nextSequence
    BY <1>2 DEF Streams, AsCompleted, Outcomes
  <1>4. /\ v \in Worlds /\ v.s = s /\ v.cards = w.cards /\ v.typing = w.typing
        /\ v.failures = w.failures /\ v.refused = w.refused
    BY <1>2, <1>3, Held
  <1>5. v = [w EXCEPT !.s.status = "completed", !.s.dirty = TRUE]
    BY <1>2 DEF Worlds, Holding, AsCompleted
  <1>6. WellFormed(v)
    <2>1. v.s.card \in 0..Len(v.cards)
      BY <1>2, <1>3, <1>4
    <2> QED
      BY <1>1, <1>3, <1>4, <2>1 DEF WellFormed
  <1>7. Ahead(v)
    BY <1>1, <1>3, <1>4 DEF Ahead, Accepts
  <1>8. Apart(v, h)
    BY <1>1, <1>3, <1>4 DEF Apart
  <1>9. Quiet(v) /\ Everywhere(v, h)
    BY <1>1, <1>3, <1>4 DEF Quiet, Everywhere
  <1>10. Sound(v, h)
    BY <1>6, <1>7, <1>8, <1>9, KeptParts DEF Sound
  <1>11. (Tidy(w) => Tidy(v)) /\ Over(v)
    BY <1>3, <1>4 DEF Tidy, Over
  <1> QED
    BY <1>3, <1>4, <1>5, <1>10, <1>11

LEMMA CompletedKeeps ==
  ASSUME NEW w, NEW h \in Histories, Sound(w, h), ~w.s.closed, NEW y \in CompleteCurrentCard(w)
  PROVE  /\ Closable(y, h) /\ Len(w.cards) <= Len(y.cards) /\ ~y.s.closed
         /\ Tidy(w) => AllSettled(y)
  <1>1. WellFormed(w) /\ Ahead(w) /\ Apart(w, h) /\ Quiet(w) /\ Everywhere(w, h)
    BY KeptParts DEF Sound
  <1>2. w \in Worlds /\ w.s \in Streams /\ w.s.card \in 0..Len(w.cards) /\ w.cards \in Seq(Cards)
    BY <1>1, WorldTypes
  <1>3. CASE w.s.card = NoCard
    <2>1. y = w
      BY <1>3 DEF CompleteCurrentCard
    <2>2. NoCard \notin DOMAIN w.cards /\ Len(w.cards) <= Len(w.cards)
      BY <1>2 DEF NoCard
    <2>3. ~w.s.flushTask /\ (w.failures = 0 => ~w.refused)
      BY <1>1, <1>3 DEF WellFormed, Ahead
    <2>4. AllShown(w, h)
      BY <1>1, <1>3 DEF AllShown, Everywhere, Quiet
    <2>5. Tidy(w) => AllSettled(w)
      BY <1>3, <2>2 DEF Tidy, AllSettled
    <2> QED
      BY <1>1, <1>2, <2>1, <2>2, <2>3, <2>4, <2>5, Zenon DEF Closable
  <1>4. CASE w.s.card # NoCard
    <2> PICK v : v = Holding(w, AsCompleted(w.s))
      OBVIOUS
    <2>1. /\ Sound(v, h) /\ (Tidy(w) => Tidy(v)) /\ Over(v)
          /\ v.cards = w.cards /\ v.s.closed = w.s.closed
          /\ v = [w EXCEPT !.s.status = "completed", !.s.dirty = TRUE]
      BY CompletingKeeps
    <2>2. y \in FlushAndClose(v)
      BY <1>4, <2>1, Zenon DEF CompleteCurrentCard
    <2>3. /\ Closable(y, h) /\ Len(v.cards) <= Len(y.cards) /\ y.s.closed = v.s.closed
          /\ Tidy(v) /\ Over(v) => AllSettled(y)
      BY <2>1, <2>2, ShutIsClosable
    <2> QED
      BY <2>1, <2>3
  <1> QED
    BY <1>3, <1>4

Restarted(s) == [FreshState(s.reaction) EXCEPT !.flushTask = s.flushTask]

LEMMA RestartedStream ==
  ASSUME NEW s \in Streams
  PROVE  /\ Restarted(s) \in Streams /\ Restarted(s).card = NoCard /\ Restarted(s).text = {}
         /\ ~Restarted(s).closed /\ Restarted(s).reaction = s.reaction
         /\ Restarted(s).flushTask = s.flushTask
  BY DEF Streams, Restarted, FreshState, NoCard

(* What has been told so far is then before the next card.                 *)
Restart(h, g) == g \in Histories /\ g.said = h.said /\ g.before = h.said /\ g.gone = h.gone /\ g.again = h.again

LEMMA ResetKeeps ==
  ASSUME NEW u, NEW h, Closable(u, h), ~u.s.closed, NEW x, x = Reset(u), NEW g, Restart(h, g)
  PROVE  /\ Sound(x, g) /\ ~x.s.closed /\ Len(x.cards) = Len(u.cards) /\ Over(x) /\ SaysFailed(x)
         /\ AllSettled(u) => Tidy(x)
         /\ ~x.s.flushTask
  <1> PICK s : s = Restarted(u.s)
    OBVIOUS
  <1>1. u \in Worlds /\ u.s \in Streams /\ u.cards \in Seq(Cards) /\ ~u.s.flushTask
    BY DEF Closable, Worlds
  <1>2. /\ s \in Streams /\ s.card = NoCard /\ s.text = {} /\ ~s.closed /\ s.reaction = u.s.reaction
        /\ ~s.flushTask
    BY <1>1, RestartedStream
  <1>3. /\ x \in Worlds /\ x.s = s /\ x.cards = u.cards /\ x.typing = u.typing
        /\ x.failures = u.failures /\ x.refused = u.refused
    <2>1. x = Holding(u, s)
      BY DEF Reset, Restarted, Holding
    <2> QED
      BY <1>1, <1>2, <2>1, Held
  <1>4. WellFormed(x)
    <2>1. NoCard \in 0..Len(x.cards)
      BY <1>1, <1>3 DEF NoCard
    <2> QED
      BY <1>2, <1>3, <2>1, Zenon DEF WellFormed
  <1>5. Ahead(x)
    BY <1>2, <1>3 DEF Ahead, Closable
  <1>6. Apart(x, g)
    BY <1>2, <1>3 DEF Apart, Closable, Restart
  <1>7. NoCard \notin DOMAIN x.cards
    BY <1>1, <1>3 DEF NoCard
  <1>8. Kept(x, g)
    <2>1. Everywhere(x, g)
      BY <1>2, <1>3, <1>7 DEF Everywhere, Closable, AllShown, Restart
    <2>2. Quiet(x)
      BY <1>2, <1>3 DEF Quiet
    <2> QED
      BY <2>1, <2>2, KeptParts
  <1>9. Over(x) /\ SaysFailed(x)
    BY <1>2, <1>3 DEF Over, SaysFailed
  <1>10. AllSettled(u) => Tidy(x)
    BY <1>2, <1>3 DEF AllSettled, Tidy
  <1> QED
    BY <1>2, <1>3, <1>4, <1>5, <1>6, <1>8, <1>9, <1>10 DEF Sound

LEMMA OpenOrClosed ==
  ASSUME NEW w, NEW x, NEW h, NEW g, Sound(w, h), Sound(x, g), ~w.s.closed, ~x.s.closed
  PROVE  x.s.closed = w.s.closed
  <1>1. w.s \in Streams /\ x.s \in Streams
    BY WorldTypes DEF Sound
  <1>2. w.s.closed \in BOOLEAN /\ x.s.closed \in BOOLEAN
    BY <1>1 DEF Streams
  <1> QED
    BY <1>2

LEMMA FollowedUpKeeps ==
  ASSUME NEW w, NEW h \in Histories, Sound(w, h),
         NEW read, read.card \in 0..Len(w.cards), read.reaction \in BOOLEAN,
         read.card = NoCard => w.s.card = NoCard /\ ~w.s.closed,
         NEW x \in FollowedUp(w, read), NEW g, IF w.s.closed THEN g = h ELSE Restart(h, g)
  PROVE  /\ Sound(x, g) /\ x.s.closed = w.s.closed /\ Len(w.cards) <= Len(x.cards)
         /\ Tidy(w) => Tidy(x)
         /\ Over(w) => Over(x)
         /\ SaysFailed(w) => SaysFailed(x)
         /\ ~x.s.flushTask
  <1>1. w \in Worlds /\ w.cards \in Seq(Cards) /\ Len(w.cards) \in Nat
    <2>1. w \in Worlds /\ w.cards \in Seq(Cards)
      BY WorldTypes DEF Sound
    <2> QED
      BY <2>1
  <1>2. CASE read.card = NoCard
    <2>1. x = Reset(w) /\ w \in CompleteCurrentCard(w)
      BY <1>2 DEF FollowedUp, CompleteCurrentCard
    <2>2. Closable(w, h) /\ (Tidy(w) => AllSettled(w))
      BY <1>2, <2>1, CompletedKeeps
    <2>3. /\ Sound(x, g) /\ ~x.s.closed /\ Len(x.cards) = Len(w.cards) /\ Over(x) /\ SaysFailed(x)
          /\ AllSettled(w) => Tidy(x)
          /\ ~x.s.flushTask
      BY <1>2, <2>1, <2>2, ResetKeeps
    <2>4. Len(w.cards) <= Len(x.cards)
      BY <1>1, <2>3
    <2>5. x.s.closed = w.s.closed
      BY <1>2, <2>3, OpenOrClosed
    <2> QED
      BY <2>2, <2>3, <2>4, <2>5
  <1>3. CASE read.card # NoCard
    <2>1. PICK y \in CompleteCurrentCard(w) : x = Reset(Supersede(y, read))
      BY <1>3 DEF FollowedUp
    <2> PICK u : u = Supersede(y, read)
      OBVIOUS
    <2>2. CASE w.s.closed
      <3>1. y = w
        BY <2>1, <2>2 DEF CompleteCurrentCard
      <3>2. read.card \in 1..Len(w.cards)
        BY <1>1, <1>3 DEF NoCard
      <3>3. Relabelled(w, u)
        BY <1>1, <3>1, <3>2, SupersededCard
      <3>4. x = u /\ u.s = w.s /\ Len(u.cards) = Len(w.cards)
        BY <2>1, <2>2, <3>3 DEF Reset, Relabelled
      <3>5. Len(w.cards) <= Len(u.cards)
        BY <1>1, <3>4
      <3>6. ~w.s.flushTask
        BY <2>2 DEF Sound, WellFormed
      <3>7. /\ Sound(u, h) /\ (Tidy(w) => Tidy(u)) /\ (Over(w) => Over(u))
            /\ SaysFailed(w) => SaysFailed(u)
        BY <3>3, RelabelledKeeps
      <3>8. g = h
        BY <2>2
      <3> QED
        BY <3>4, <3>5, <3>6, <3>7, <3>8
    <2>3. CASE ~w.s.closed
      <3>1. /\ Closable(y, h) /\ Len(w.cards) <= Len(y.cards) /\ ~y.s.closed
            /\ Tidy(w) => AllSettled(y)
        BY <2>1, <2>3, CompletedKeeps
      <3>2. y \in Worlds /\ y.cards \in Seq(Cards) /\ Len(y.cards) \in Nat
        <4>1. y \in Worlds
          BY <3>1 DEF Closable
        <4> QED
          BY <4>1 DEF Worlds
      <3>3. read.card \in 1..Len(y.cards)
        BY <1>1, <1>3, <3>1, <3>2 DEF NoCard
      <3>4. Relabelled(y, u)
        BY <3>2, <3>3, SupersededCard
      <3>5. Closable(u, h) /\ (AllSettled(y) => AllSettled(u))
        BY <3>1, <3>4, RelabelledKeeps
      <3>6. ~u.s.closed /\ Len(u.cards) = Len(y.cards) /\ x = Reset(u)
        BY <2>1, <3>1, <3>4 DEF Relabelled
      <3>7. /\ Sound(x, g) /\ ~x.s.closed /\ Len(x.cards) = Len(u.cards) /\ Over(x) /\ SaysFailed(x)
            /\ AllSettled(u) => Tidy(x)
            /\ ~x.s.flushTask
        <4>1. Restart(h, g)
          BY <2>3
        <4> QED
          BY <3>5, <3>6, <4>1, ResetKeeps
      <3>8. x.s.closed = w.s.closed
        BY <2>3, <3>7, OpenOrClosed
      <3>9. Len(w.cards) <= Len(x.cards)
        BY <3>1, <3>6, <3>7
      <3> QED
        BY <3>1, <3>5, <3>7, <3>8, <3>9
    <2> QED
      BY <2>2, <2>3
  <1> QED
    BY <1>2, <1>3

-----------------------------------------------------------------------------
(* What the handlers do to the stream before they call these methods.      *)
Heard(s, text, known, seen, dirty) ==
  [s EXCEPT !.text = text, !.known = known, !.seen = seen, !.dirty = dirty]
Unscheduled(s) == [s EXCEPT !.flushTask = FALSE]
Scheduled(s) == [s EXCEPT !.flushTask = TRUE]

(* The old text becomes the new one by what is told: the next piece, others*)
(* told since the follow-up, some told again; and what it leaves out is    *)
(* withdrawn.                                                              *)
Advances(h, g) ==
  /\ g \in Histories /\ g.before = h.before /\ h.gone \subseteq g.gone /\ h.again \subseteq g.again
  /\ g.said = h.said \/ g.said = h.said + 1

Retells(old, new, h, g) ==
  /\ new \subseteq 0..g.said
  /\ \A n \in new \ old : n \in 0..h.before => n \in g.again
  /\ old \ new \subseteq g.gone
  /\ g.said = h.said \/ g.said \in new

LEMMA Advanced ==
  ASSUME NEW h \in Histories, NEW g, Advances(h, g)
  PROVE  /\ 0..h.said \subseteq 0..g.said
         /\ \A n \in 1..g.said \ g.gone : n \in 1..h.said \ h.gone \/ (n = g.said /\ g.said # h.said)
  <1>1. h.said \in Nat /\ g.said \in Nat
    BY DEF Advances, Histories
  <1>2. (g.said = h.said \/ g.said = h.said + 1) /\ h.gone \subseteq g.gone
    BY DEF Advances
  <1>3. 0..h.said \subseteq 0..g.said /\ \A n \in 1..g.said : n \in 1..h.said \/ (n = g.said /\ g.said # h.said)
    BY <1>1, <1>2
  <1> QED
    BY <1>2, <1>3

(* Only what is told again can be on a card before, and so on two.         *)
LEMMA RetellingKeepsApart ==
  ASSUME NEW w, NEW h \in Histories, Apart(w, h), NEW g, Advances(h, g),
         NEW v, Retells(w.s.text, v.s.text, h, g), v.cards = w.cards, v.s.card = w.s.card
  PROVE  Apart(v, g)
  <1>1. /\ 0..h.said \subseteq 0..g.said /\ h.again \subseteq g.again /\ g.before = h.before
    BY Advanced DEF Advances
  <1>2. /\ w.s.text \subseteq 0..h.said
        /\ \A i \in DOMAIN w.cards :
             /\ w.cards[i].shown \subseteq 0..h.said
             /\ i # w.s.card => w.cards[i].shown \subseteq 0..h.before
             /\ i # w.s.card => w.s.text \cap w.cards[i].shown \subseteq h.again \cup {ErrorText}
             /\ \A j \in DOMAIN w.cards :
                  i # j => w.cards[i].shown \cap w.cards[j].shown \subseteq h.again \cup {ErrorText}
    BY Zenon DEF Apart
  <1>3. /\ v.s.text \subseteq 0..g.said
        /\ \A n \in v.s.text \ w.s.text : n \in 0..h.before => n \in g.again
    BY Zenon DEF Retells
  <1>4. ASSUME NEW i \in DOMAIN v.cards
        PROVE  /\ v.cards[i].shown \subseteq 0..g.said
               /\ i # v.s.card => v.cards[i].shown \subseteq 0..g.before
               /\ i # v.s.card => v.s.text \cap v.cards[i].shown \subseteq g.again \cup {ErrorText}
               /\ \A j \in DOMAIN v.cards :
                    i # j => v.cards[i].shown \cap v.cards[j].shown \subseteq g.again \cup {ErrorText}
    <2>1. v.cards[i].shown \subseteq 0..g.said /\ (i # v.s.card => v.cards[i].shown \subseteq 0..g.before)
      BY <1>1, <1>2
    <2>2. \A j \in DOMAIN v.cards :
            i # j => v.cards[i].shown \cap v.cards[j].shown \subseteq g.again \cup {ErrorText}
      BY <1>1, <1>2
    <2>3. ASSUME i # v.s.card, NEW n \in v.s.text \cap v.cards[i].shown
          PROVE  n \in g.again \cup {ErrorText}
      <3>1. n \in 0..h.before /\ (n \in w.s.text => n \in h.again \cup {ErrorText})
        BY <1>2, <2>3
      <3> QED
        BY <1>1, <1>3, <2>3, <3>1
    <2> QED
      BY <2>1, <2>2, <2>3
  <1> QED
    BY <1>3, <1>4, Zenon DEF Apart

LEMMA RetellingKeepsEverywhere ==
  ASSUME NEW w, NEW h \in Histories, Everywhere(w, h), NEW g, Advances(h, g),
         NEW v, Retells(w.s.text, v.s.text, h, g), v.cards = w.cards, v.s.card = w.s.card,
         ~w.s.closed, ~v.s.closed, v.failures = w.failures
  PROVE  Everywhere(v, g)
  <1> SUFFICES ASSUME v.failures = 0, NEW n \in 1..g.said \ g.gone
               PROVE  \/ ~v.s.closed /\ n \in v.s.text
                      \/ \E i \in DOMAIN v.cards : n \in v.cards[i].shown /\ (v.s.closed \/ i # v.s.card)
    BY DEF Everywhere
  <1>1. w.s.text \ v.s.text \subseteq g.gone /\ (g.said = h.said \/ g.said \in v.s.text)
    BY Zenon DEF Retells
  <1>2. n \in 1..h.said \ h.gone \/ (n = g.said /\ g.said # h.said)
    BY Advanced
  <1>3. CASE n \in 1..h.said \ h.gone
    <2>1. n \in w.s.text \/ \E i \in DOMAIN w.cards : n \in w.cards[i].shown /\ i # w.s.card
      BY <1>3 DEF Everywhere
    <2> QED
      BY <1>1, <2>1
  <1>4. CASE n = g.said /\ g.said # h.said
    BY <1>1, <1>4
  <1> QED
    BY <1>2, <1>3, <1>4

IsText(text) == text \in SUBSET Pieces

LEMMA RetellingKeeps ==
  ASSUME NEW w, NEW h \in Histories, Sound(w, h), ~w.s.closed, NEW g, Advances(h, g),
         NEW text, NEW known, NEW seen, NEW dirty, dirty \in BOOLEAN,
         IsText(text), IsText(known), IsText(seen), Retells(w.s.text, text, h, g),
         NEW v, v = Holding(w, Heard(w.s, text, known, seen, dirty))
  PROVE  /\ WellFormed(v) /\ Ahead(v) /\ Apart(v, g) /\ Everywhere(v, g)
         /\ ~v.s.closed /\ v.s.flushTask = w.s.flushTask /\ v.s.card = w.s.card /\ v.cards = w.cards
         /\ Tidy(w) => Tidy(v)
         /\ v.s = Heard(w.s, text, known, seen, dirty)
  <1> PICK s : s = Heard(w.s, text, known, seen, dirty)
    OBVIOUS
  <1>1. WellFormed(w) /\ Ahead(w) /\ Apart(w, h) /\ Everywhere(w, h)
    BY KeptParts DEF Sound
  <1>2. w \in Worlds /\ w.s \in Streams /\ w.s.card \in 0..Len(w.cards) /\ w.cards \in Seq(Cards)
    BY <1>1, WorldTypes
  <1>3. /\ s \in Streams /\ s.card = w.s.card /\ s.text = text /\ s.closed = w.s.closed
        /\ s.reaction = w.s.reaction /\ s.flushTask = w.s.flushTask /\ s.nextSequence = w.s.nextSequence
    BY <1>2 DEF Streams, Heard, IsText
  <1>4. /\ v \in Worlds /\ v.s = s /\ v.cards = w.cards /\ v.typing = w.typing
        /\ v.failures = w.failures /\ v.refused = w.refused
    BY <1>2, <1>3, Held
  <1>5. WellFormed(v)
    <2>1. v.s.card \in 0..Len(v.cards)
      BY <1>2, <1>3, <1>4
    <2> QED
      BY <1>1, <1>3, <1>4, <2>1 DEF WellFormed
  <1>6. Ahead(v)
    BY <1>1, <1>3, <1>4 DEF Ahead, Accepts
  <1>7. /\ Retells(w.s.text, v.s.text, h, g) /\ v.cards = w.cards /\ v.s.card = w.s.card
        /\ ~v.s.closed /\ v.failures = w.failures
    BY <1>3, <1>4
  <1>8. Apart(v, g)
    BY <1>1, <1>7, RetellingKeepsApart
  <1>9. Everywhere(v, g)
    BY <1>1, <1>7, RetellingKeepsEverywhere
  <1>10. Tidy(w) => Tidy(v)
    BY <1>3, <1>4 DEF Tidy
  <1> QED
    BY <1>3, <1>4, <1>5, <1>6, <1>8, <1>9, <1>10

LEMMA TaskKeeps ==
  ASSUME NEW w, NEW h, Sound(w, h), NEW v,
         \/ v = Holding(w, Unscheduled(w.s))
         \/ v = Holding(w, Scheduled(w.s)) /\ w.s.card # NoCard /\ ~w.s.closed
  PROVE  /\ Sound(v, h) /\ v.s.closed = w.s.closed /\ v.cards = w.cards /\ v.s.card = w.s.card
         /\ (Tidy(w) => Tidy(v)) /\ (Over(w) => Over(v)) /\ (SaysFailed(w) => SaysFailed(v))
         /\ v = Holding(w, Unscheduled(w.s)) => ~v.s.flushTask
  <1> PICK s : v = Holding(w, s) /\ \/ s = Unscheduled(w.s)
                                    \/ s = Scheduled(w.s) /\ w.s.card # NoCard /\ ~w.s.closed
    OBVIOUS
  <1>1. WellFormed(w) /\ Ahead(w) /\ Apart(w, h) /\ Kept(w, h)
    BY DEF Sound
  <1>2. w \in Worlds /\ w.s \in Streams /\ w.s.card \in 0..Len(w.cards) /\ w.cards \in Seq(Cards)
    BY <1>1, WorldTypes
  <1>3. /\ s \in Streams /\ s.card = w.s.card /\ s.text = w.s.text /\ s.closed = w.s.closed
        /\ s.reaction = w.s.reaction /\ s.nextSequence = w.s.nextSequence /\ s.status = w.s.status
        /\ s.flushTask => w.s.card # NoCard /\ ~w.s.closed
    <2>1. CASE s = Unscheduled(w.s)
      BY <1>2, <2>1 DEF Streams, Unscheduled
    <2>2. CASE s = Scheduled(w.s) /\ w.s.card # NoCard /\ ~w.s.closed
      BY <1>2, <2>2 DEF Streams, Scheduled
    <2> QED
      BY <2>1, <2>2
  <1>4. /\ v \in Worlds /\ v.s = s /\ v.cards = w.cards /\ v.typing = w.typing
        /\ v.failures = w.failures /\ v.refused = w.refused
    BY <1>2, <1>3, Held
  <1>5. WellFormed(v)
    <2>1. v.s.card \in 0..Len(v.cards)
      BY <1>2, <1>3, <1>4
    <2> QED
      BY <1>3, <1>4, <2>1 DEF WellFormed
  <1>6. Ahead(v)
    BY <1>1, <1>3, <1>4 DEF Ahead, Accepts
  <1>7. Apart(v, h)
    BY <1>1, <1>3, <1>4 DEF Apart
  <1>8. Kept(v, h)
    BY <1>1, <1>3, <1>4 DEF Kept
  <1>9. (Tidy(w) => Tidy(v)) /\ (Over(w) => Over(v)) /\ (SaysFailed(w) => SaysFailed(v))
    BY <1>3, <1>4 DEF Tidy, Over, SaysFailed
  <1>10. v = Holding(w, Unscheduled(w.s)) => ~v.s.flushTask
    <2>1. SUFFICES ASSUME v = Holding(w, Unscheduled(w.s)) PROVE ~v.s.flushTask
      OBVIOUS
    <2>2. Unscheduled(w.s) \in Streams /\ ~Unscheduled(w.s).flushTask
      BY <1>2 DEF Streams, Unscheduled
    <2>3. v.s = Unscheduled(w.s)
      BY <1>2, <2>1, <2>2, Held
    <2> QED
      BY <2>2, <2>3
  <1> QED
    BY <1>3, <1>4, <1>5, <1>6, <1>7, <1>8, <1>9, <1>10 DEF Sound

(* The flush a notification schedules, or makes at once.                   *)
LEMMA ScheduledKeeps ==
  ASSUME NEW v, NEW h, WellFormed(v), Ahead(v), Apart(v, h), Everywhere(v, h), ~v.s.closed,
         NEW x, \/ x = v /\ v.s.flushTask
                \/ x \in Flush(v, FALSE)
                \/ x = Holding(v, Scheduled(v.s)) /\ v.s.card # NoCard
  PROVE  /\ Sound(x, h) /\ Len(v.cards) <= Len(x.cards)
         /\ Tidy(v) => Tidy(x)
  <1>1. v.cards \in Seq(Cards) /\ Len(v.cards) \in Nat /\ Len(v.cards) <= Len(v.cards)
    <2>1. v.cards \in Seq(Cards)
      BY WorldTypes
    <2> QED
      BY <2>1
  <1>2. v.s.card # NoCard => Sound(v, h)
    BY KeptParts DEF Sound, Quiet
  <1>3. v.s.flushTask => v.s.card # NoCard
    BY DEF WellFormed
  <1>4. CASE x = v /\ v.s.flushTask
    BY <1>1, <1>2, <1>3, <1>4
  <1>5. CASE x = Holding(v, Scheduled(v.s)) /\ v.s.card # NoCard
    BY <1>1, <1>2, <1>5, TaskKeeps
  <1>6. CASE x \in Flush(v, FALSE)
    <2> PICK force \in BOOLEAN : force = FALSE
      OBVIOUS
    <2>1. x \in Flush(v, force)
      BY <1>6
    <2>2. Moves(v, x) /\ (x.failures = 0 => (x.s.card = NoCard => x.s.text = {}))
      BY <2>1, FlushMoves
    <2>3. WellFormed(x) /\ Ahead(x) /\ Apart(x, h) /\ Everywhere(x, h)
      BY <2>2, MovedCards, MovesKeepAhead, MovesKeepApart, MovesKeepEverywhere
    <2>4. Quiet(x)
      BY <2>2 DEF Quiet
    <2>5. Sound(x, h)
      BY <2>3, <2>4, KeptParts DEF Sound
    <2>6. Tidy(v) => Tidy(x)
      BY <2>2, MovesKeepTidy
    <2>7. Same(v, x)
      BY <2>2, MovesSame
    <2> QED
      BY <2>5, <2>6, <2>7 DEF Same
  <1> QED
    BY <1>4, <1>5, <1>6

LEMMA TimerKeeps ==
  ASSUME NEW w, NEW h, Sound(w, h), NEW x,
         \/ w.s.closed /\ x = w
         \/ ~w.s.closed /\ x \in Flush(w, FALSE)
  PROVE  /\ Sound(x, h) /\ ~x.s.flushTask /\ x.s.closed = w.s.closed /\ Len(w.cards) <= Len(x.cards)
         /\ (Tidy(w) => Tidy(x)) /\ (Over(w) => Over(x)) /\ (SaysFailed(w) => SaysFailed(x))
  <1>1. WellFormed(w)
    BY DEF Sound
  <1>2. CASE w.s.closed /\ x = w
    <2>1. w.cards \in Seq(Cards) /\ ~w.s.flushTask
      BY <1>1, <1>2, WorldTypes DEF WellFormed
    <2>2. Len(w.cards) <= Len(w.cards)
      BY <2>1
    <2> QED
      BY <1>2, <2>1, <2>2
  <1>3. CASE ~w.s.closed /\ x \in Flush(w, FALSE)
    <2> PICK force \in BOOLEAN : force = FALSE
      OBVIOUS
    <2>1. x \in Flush(w, force)
      BY <1>3
    <2>2. Moves(w, x) /\ ~x.s.flushTask
      BY <1>1, <2>1, FlushMoves
    <2>3. /\ Sound(x, h) /\ (Tidy(w) => Tidy(x)) /\ (Over(w) => Over(x))
          /\ (SaysFailed(w) => SaysFailed(x))
      BY <2>2, MovesKeepSound
    <2>4. Same(w, x)
      BY <1>1, <2>2, MovesSame
    <2> QED
      BY <2>2, <2>3, <2>4 DEF Same
  <1> QED
    BY <1>2, <1>3

(* _finalize_state gives the stream the outcome; the stream of a turn that *)
(* failed without a word explains itself.                                  *)
Concluding(s, outcome, known, text) ==
  [s EXCEPT !.status = outcome, !.flushTask = FALSE, !.dirty = TRUE, !.known = known, !.text = text]

MaySay(w, text) == text = w.s.text \/ (text = w.s.text \cup {ErrorText} /\ w.s.card # NoCard)

LEMMA ConcludingKeeps ==
  ASSUME NEW w, NEW h \in Histories, Sound(w, h), ~w.s.closed, NEW outcome \in Outcomes,
         NEW known, IsText(known), NEW text, MaySay(w, text),
         NEW v, v = Holding(w, Concluding(w.s, outcome, known, text))
  PROVE  /\ Sound(v, h) /\ ~v.s.closed /\ v.s.card = w.s.card /\ v.cards = w.cards /\ ~v.s.flushTask
         /\ Over(v)
         /\ Tidy(w) => Tidy(v)
         /\ outcome = "failed" => SaysFailed(v)
  <1> PICK s : s = Concluding(w.s, outcome, known, text)
    OBVIOUS
  <1>1. WellFormed(w) /\ Ahead(w) /\ Apart(w, h) /\ Quiet(w) /\ Everywhere(w, h)
    BY KeptParts DEF Sound
  <1>11. text = w.s.text \/ (text = w.s.text \cup {ErrorText} /\ w.s.card # NoCard)
    BY Zenon DEF MaySay
  <1>2. w \in Worlds /\ w.s \in Streams /\ w.s.card \in 0..Len(w.cards) /\ w.cards \in Seq(Cards)
    BY <1>1, WorldTypes
  <1>3. /\ s \in Streams /\ s.card = w.s.card /\ s.text = text /\ s.closed = w.s.closed
        /\ s.reaction = w.s.reaction /\ ~s.flushTask /\ s.nextSequence = w.s.nextSequence
        /\ s.status = outcome
    <2>1. ErrorText \in Pieces /\ w.s.text \subseteq Pieces
      BY <1>2, ReplyStreamAssumption DEF Pieces, ErrorText, Streams
    <2>2. text \in SUBSET Pieces
      BY <1>11, <2>1
    <2> QED
      BY <1>2, <2>2 DEF Streams, Concluding, Outcomes, IsText
  <1>4. /\ v \in Worlds /\ v.s = s /\ v.cards = w.cards /\ v.typing = w.typing
        /\ v.failures = w.failures /\ v.refused = w.refused
    BY <1>2, <1>3, Held
  <1>5. WellFormed(v)
    <2>1. v.s.card \in 0..Len(v.cards)
      BY <1>2, <1>3, <1>4
    <2> QED
      BY <1>3, <1>4, <2>1 DEF WellFormed
  <1>6. Ahead(v)
    BY <1>1, <1>3, <1>4 DEF Ahead, Accepts
  <1>7. Apart(v, h)
    <2>1. {ErrorText} \subseteq 0..h.said
      BY DEF ErrorText, Histories
    <2>2. w.s.text \subseteq text /\ text \subseteq w.s.text \cup {ErrorText}
      BY <1>11
    <2> QED
      BY <1>1, <1>3, <1>4, <2>1, <2>2 DEF Apart
  <1>8. Kept(v, h)
    <2>1. Quiet(v)
      BY <1>1, <1>3, <1>4, <1>11 DEF Quiet
    <2>2. Everywhere(v, h)
      <3>1. w.s.text \subseteq text
        BY <1>11
      <3> QED
        BY <1>1, <1>3, <1>4, <3>1 DEF Everywhere
    <2> QED
      BY <2>1, <2>2, KeptParts
  <1>9. Over(v) /\ (outcome = "failed" => SaysFailed(v))
    BY <1>3, <1>4 DEF Over, SaysFailed, Outcomes
  <1>10. Tidy(w) => Tidy(v)
    BY <1>3, <1>4 DEF Tidy
  <1> QED
    BY <1>3, <1>4, <1>5, <1>6, <1>7, <1>8, <1>9, <1>10 DEF Sound

-----------------------------------------------------------------------------
(* The world of a state with the invariant, and the state a world leads to.*)
Current(w) ==
  /\ w.s = state /\ w.cards = cards /\ w.typing = typing /\ w.failures = failures /\ w.refused = refused
  /\ Sound(w, History) /\ w \in Worlds /\ History \in Histories
  /\ finalizer["shutdown"].at = "idle" => Tidy(w) /\ (turn # "running" => Over(w))
  /\ turn = "failed" => SaysFailed(w)

(* What is told is numbered from 1, and told again only if it was told     *)
(* before the follow-up.                                                   *)
CodexTypes ==
  /\ produced \in 0..MaxOutput /\ resumed \in 0..produced
  /\ message \cup commands \cup withdrawn \subseteq 1..produced /\ retold \subseteq 1..resumed

HistoryTyped ==
  /\ History \in Histories /\ History.said = produced /\ History.before = resumed
  /\ History.gone = withdrawn /\ History.again = retold

LEMMA HistoryType ==
  CodexTypes => HistoryTyped
  <1> SUFFICES ASSUME CodexTypes PROVE HistoryTyped
    OBVIOUS
  <1>1. produced \in Nat /\ resumed \in Nat
    BY DEF CodexTypes
  <1>2. 1..produced \subseteq Nat /\ 1..resumed \subseteq Nat
    BY <1>1
  <1>3. withdrawn \in SUBSET Nat /\ retold \in SUBSET Nat
    BY <1>2 DEF CodexTypes
  <1> QED
    BY <1>1, <1>3 DEF History, Histories, HistoryTyped

LEMMA HistoryTypeNext ==
  CodexTypes' => HistoryTyped'
  BY HistoryType, PTL

LEMMA SameHistory ==
  ASSUME UNCHANGED <<codexVars, resumed>>
  PROVE  /\ History' = History /\ (CodexTypes => CodexTypes')
         /\ codexVars' = codexVars /\ resumed' = resumed
  BY DEF codexVars, History, CodexTypes

LEMMA CurrentWorld ==
  ASSUME IInv, NEW w, w = World
  PROVE  Current(w)
  <1>1. /\ w.s = state /\ w.cards = cards /\ w.typing = typing /\ w.failures = failures
        /\ w.refused = refused
    BY DEF World
  <1>2. Sound(w, History) /\ w \in Worlds /\ History \in Histories
    BY HistoryType DEF IInv, Sound, WellFormed, TypeOK, CodexTypes, HistoryTyped
  <1>3. /\ finalizer["shutdown"].at = "idle" => Tidy(w) /\ (turn # "running" => Over(w))
        /\ turn = "failed" => SaysFailed(w)
    BY DEF IInv
  <1> QED
    BY <1>1, <1>2, <1>3, Zenon DEF Current

Follows(n) == [Followups -> [at : Phases, card : 0..n, reaction : BOOLEAN]]

(* The variables that are not the world's, in the state x leads to.        *)
Others(x) ==
  /\ sleepers \in Nat /\ (x.s.flushTask => sleepers > 0)
  /\ finalizer \in [Finalizers -> [at : Phases, outcome : Outcomes]]
  /\ followup \in Follows(Len(x.cards))
  /\ turn \in {"running"} \cup Outcomes /\ CodexTypes

LEMMA ArrivedType ==
  ASSUME NEW x, x \in Worlds, x.s.card \in 0..Len(x.cards), x.s.flushTask => x.s.card # NoCard,
         state = x.s, cards = x.cards, typing = x.typing, failures = x.failures, refused = x.refused,
         Others(x)
  PROVE  TypeOK /\ World = x
  <1>1. /\ state \in Streams /\ cards \in Seq(Cards) /\ typing \in BOOLEAN
        /\ failures \in 0..MaxFailures /\ refused \in BOOLEAN
    BY DEF Worlds
  <1>2. World = x
    BY DEF World, Worlds
  <1>3. state.card \in 0..Len(cards) /\ (state.flushTask => sleepers > 0 /\ state.card # NoCard)
    BY DEF Others
  <1>4. followup \in [Followups -> [at : Phases, card : 0..Len(cards), reaction : BOOLEAN]]
    BY DEF Others, Follows
  <1>5. /\ sleepers \in Nat /\ finalizer \in [Finalizers -> [at : Phases, outcome : Outcomes]]
        /\ turn \in {"running"} \cup Outcomes
        /\ produced \in 0..MaxOutput /\ resumed \in 0..produced
        /\ message \cup commands \cup withdrawn \subseteq 1..produced /\ retold \subseteq 1..resumed
    BY DEF Others, CodexTypes
  <1> QED
    BY <1>1, <1>2, <1>3, <1>4, <1>5, Zenon DEF TypeOK

Arriving(x) ==
  /\ Sound(x, History)
  /\ state = x.s /\ cards = x.cards /\ typing = x.typing /\ failures = x.failures /\ refused = x.refused
  /\ Others(x) /\ TasksAgree
  /\ finalizer["shutdown"].at = "idle" => Tidy(x) /\ (turn # "running" => Over(x))
  /\ turn = "failed" => SaysFailed(x)

LEMMA ArrivedState ==
  ASSUME NEW CONSTANT x, Arriving(x)
  PROVE  IInv
  <1>1. WellFormed(x) /\ Others(x)
    BY DEF Arriving, Sound
  <1>2. TypeOK /\ World = x
    BY <1>1, ArrivedType, Zenon DEF Arriving, WellFormed
  <1> QED
    BY <1>2 DEF Arriving, IInv

LEMMA Arrived ==
  ASSUME NEW CONSTANT x
  PROVE  Arriving(x)' => IInv'
  <1>1. Arriving(x) => IInv
    BY ArrivedState
  <1> QED
    BY <1>1, PTL

(* The step to the world x.                                                *)
Leads(x) ==
  /\ state' = x.s /\ cards' = x.cards /\ typing' = x.typing
  /\ failures' = x.failures /\ refused' = x.refused

LEMMA FollowsGrow ==
  ASSUME NEW m \in Nat, NEW n \in Nat, m <= n
  PROVE  Follows(m) \subseteq Follows(n)
  <1>1. 0..m \subseteq 0..n
    OBVIOUS
  <1>2. [at : Phases, card : 0..m, reaction : BOOLEAN] \subseteq [at : Phases, card : 0..n, reaction : BOOLEAN]
    BY <1>1
  <1> QED
    BY <1>2 DEF Follows

LEMMA LengthTypes ==
  ASSUME NEW w, w \in Worlds
  PROVE  Len(w.cards) \in Nat
  <1>1. w.cards \in Seq(Cards)
    BY DEF Worlds
  <1> QED
    BY <1>1

(* The follow-ups' records stay in range as cards are added.               *)
LEMMA StillFollows ==
  ASSUME IInv, NEW w, Current(w), NEW x, x \in Worlds, Len(w.cards) <= Len(x.cards)
  PROVE  followup \in Follows(Len(x.cards))
  <1>1. Len(w.cards) \in Nat /\ Len(x.cards) \in Nat
    BY LengthTypes DEF Current
  <1>2. followup \in Follows(Len(cards)) /\ w.cards = cards
    BY DEF IInv, TypeOK, Follows, Current
  <1> QED
    BY <1>1, <1>2, FollowsGrow

LEMMA InitEstablishes ==
  Init => IInv
  <1> SUFFICES ASSUME Init PROVE IInv
    OBVIOUS
  <1> PICK w : w = World
    OBVIOUS
  <1>1. /\ w.s = state /\ w.cards = cards /\ w.typing = typing /\ w.failures = failures
        /\ w.refused = refused
    BY DEF World
  <1>2. /\ state \in Streams /\ state.card = NoCard /\ state.text = {} /\ ~state.closed
        /\ state.reaction = typing /\ ~state.flushTask
    BY DEF Init, FreshState, Streams, NoCard
  <1>3. cards \in Seq(Cards) /\ DOMAIN cards = {} /\ Len(cards) = 0
    <2>1. cards \in Seq(Cards) /\ Len(cards) = 0
      BY DEF Init
    <2>2. DOMAIN cards = 1..Len(cards)
      BY <2>1
    <2> QED
      BY <2>1, <2>2
  <1>4. failures \in 0..MaxFailures /\ refused \in BOOLEAN /\ typing \in BOOLEAN
    <2>1. typing \in BOOLEAN /\ refused = FALSE /\ failures <= MaxFailures /\ (failures = 0 \/ failures = 1)
      BY Zenon DEF Init
    <2>2. failures \in 0..MaxFailures
      BY <2>1, ReplyStreamAssumption
    <2> QED
      BY <2>1, <2>2, Zenon
  <1>5. w \in Worlds
    BY <1>2, <1>3, <1>4 DEF World, Worlds
  <1>6. WellFormed(w)
    BY <1>1, <1>2, <1>3, <1>5 DEF WellFormed, NoCard
  <1>7. Ahead(w)
    BY <1>1, <1>2 DEF Ahead, Init
  <1>8. Apart(w, History)
    BY <1>1, <1>2, <1>3 DEF Apart
  <1>9. Kept(w, History)
    <2>1. History.said = 0
      BY DEF History, Init
    <2> QED
      BY <1>1, <1>2, <2>1 DEF Kept
  <1>10. Tidy(w)
    BY <1>1, <1>2, <1>3 DEF Tidy
  <1>11. Others(w)
    <2>1. followup \in Follows(Len(w.cards))
      BY <1>1, <1>3 DEF Init, Follows, Phases, NoCard
    <2>2. finalizer \in [Finalizers -> [at : Phases, outcome : Outcomes]]
      BY DEF Init, Phases, Outcomes
    <2>3. CodexTypes
      BY ReplyStreamAssumption DEF Init, CodexTypes
    <2> QED
      BY <1>1, <1>2, <2>1, <2>2, <2>3 DEF Others, Init
  <1>12. TasksAgree
    BY DEF Init, TasksAgree, Finalizers
  <1>13. Arriving(w)
    BY <1>1, <1>6, <1>7, <1>8, <1>9, <1>10, <1>11, <1>12 DEF Arriving, Sound, Init
  <1> QED
    BY <1>13, ArrivedState

(* A notification: the flush task, the flush or the stream as it is.       *)
LEMMA ScheduleStep ==
  ASSUME IInv, Listening, NEW w, Current(w), NEW v, NEW s, v = Holding(w, s), v.s = s,
         w = World, Schedule(s), UNCHANGED <<finalizer, followup, turn>>,
         NEW g, g = History', CodexTypes',
         WellFormed(v), Ahead(v), Apart(v, g), Everywhere(v, g), ~v.s.closed,
         Tidy(w) => Tidy(v), v.cards = w.cards, v.s.flushTask = w.s.flushTask
  PROVE  IInv'
  <1>1. \/ Become({v}) /\ v.s.flushTask /\ UNCHANGED sleepers
        \/ Become(Flush(v, FALSE)) /\ UNCHANGED sleepers
        \/ /\ Become({Holding(v, Scheduled(v.s))}) /\ v.s.card # NoCard
           /\ sleepers' = sleepers + 1
    <2>1. v = [World EXCEPT !.s = s]
      BY DEF Holding
    <2>2. [World EXCEPT !.s = [s EXCEPT !.flushTask = TRUE]] = Holding(v, Scheduled(v.s))
      BY <2>1 DEF Holding, Scheduled, World
    <2> QED
      BY <2>1, <2>2, Zenon DEF Schedule, FlushIsDue
  <1>2. sleepers \in Nat /\ (v.s.flushTask => sleepers > 0)
    BY DEF IInv, TypeOK, Current
  <1>3. PICK x : /\ Leads(x)
                 /\ \/ x = v /\ v.s.flushTask
                    \/ x \in Flush(v, FALSE)
                    \/ x = Holding(v, Scheduled(v.s)) /\ v.s.card # NoCard
                 /\ sleepers' \in Nat /\ (x.s.flushTask => sleepers' > 0)
    <2>1. CASE Become({v}) /\ v.s.flushTask /\ UNCHANGED sleepers
      BY <1>2, <2>1 DEF Become, Leads
    <2>2. CASE Become(Flush(v, FALSE)) /\ UNCHANGED sleepers
      <3> PICK force \in BOOLEAN : force = FALSE
        OBVIOUS
      <3>1. PICK x \in Flush(v, force) : Leads(x)
        BY <2>2, Zenon DEF Become, Leads
      <3>2. ~x.s.flushTask
        BY <3>1, FlushMoves
      <3> QED
        BY <1>2, <2>2, <3>1, <3>2, Zenon
    <2>3. CASE /\ Become({Holding(v, Scheduled(v.s))}) /\ v.s.card # NoCard
               /\ sleepers' = sleepers + 1
      <3>1. sleepers' \in Nat /\ sleepers' > 0
        BY <1>2, <2>3
      <3>2. Leads(Holding(v, Scheduled(v.s)))
        BY <2>3, Zenon DEF Become, Leads
      <3> QED
        BY <2>3, <3>1, <3>2, Zenon
    <2> QED
      BY <1>1, <2>1, <2>2, <2>3
  <1>4. Sound(x, g) /\ Len(w.cards) <= Len(x.cards) /\ (Tidy(v) => Tidy(x))
    BY <1>3, ScheduledKeeps, Zenon
  <1>5. x \in Worlds
    BY <1>4 DEF Sound, WellFormed
  <1>6. Others(x)'
    <2>1. followup' \in Follows(Len(x.cards))
      BY <1>4, <1>5, StillFollows
    <2> QED
      BY <1>3, <2>1 DEF Others, IInv, TypeOK
  <1>7. TasksAgree'
    <2>1. ~state.closed
      BY DEF Listening
    <2> QED
      BY <2>1 DEF TasksAgree, IInv
  <1>8. turn = "running" /\ turn' = turn
    BY DEF Listening
  <1>9. Arriving(x)'
    BY <1>3, <1>4, <1>6, <1>7, <1>8 DEF Arriving, Current, Leads
  <1> QED
    BY <1>9, Arrived

(* What Codex tells in a notification, and what then has been told.        *)
ToldNow(pieces) ==
  /\ produced' = IF NextPiece \in pieces THEN NextPiece ELSE produced
  /\ retold' = retold \cup {p \in pieces : p <= resumed}

LEMMA TellsNow ==
  ASSUME NEW pieces, NEW left, Tells(pieces, left)
  PROVE  ToldNow(pieces) /\ withdrawn' = withdrawn \cup left
  BY DEF Tells, ToldNow

LEMMA TellsMore ==
  ASSUME CodexTypes, NEW pieces, ToldNow(pieces), pieces \subseteq 1..NextPiece, pieces \subseteq 1..MaxOutput
  PROVE  /\ produced \in Nat /\ produced' \in 0..MaxOutput
         /\ \/ produced' = produced /\ NextPiece \notin pieces
            \/ produced' = produced + 1 /\ produced' \in pieces
         /\ 1..produced \subseteq 1..produced' /\ 0..produced \subseteq 0..produced' /\ pieces \subseteq 1..produced'
         /\ retold \subseteq retold' /\ retold' \subseteq 1..resumed /\ resumed \in 0..produced'
         /\ \A n \in pieces : n \in 0..resumed => n \in retold'
  <1>1. /\ produced \in Nat /\ produced <= MaxOutput /\ resumed \in 0..produced /\ retold \subseteq 1..resumed
        /\ NextPiece = produced + 1 /\ MaxOutput \in Nat
    BY ReplyStreamAssumption DEF CodexTypes, NextPiece
  <1>2. /\ produced' = IF NextPiece \in pieces THEN NextPiece ELSE produced
        /\ retold' = retold \cup {p \in pieces : p <= resumed}
    BY DEF ToldNow
  <1>3. \/ produced' = produced /\ NextPiece \notin pieces
        \/ produced' = produced + 1 /\ produced' \in pieces
    BY <1>1, <1>2
  <1>4. produced' \in 0..MaxOutput
    BY <1>1, <1>3
  <1>5. 1..produced \subseteq 1..produced' /\ 0..produced \subseteq 0..produced' /\ resumed \in 0..produced'
    BY <1>1, <1>3
  <1>6. pieces \subseteq 1..produced'
    <2>1. ASSUME NEW n \in pieces PROVE n \in 1..produced'
      <3>1. n \in 1..(produced + 1)
        BY <1>1, <2>1
      <3>2. n = produced + 1 => produced' = produced + 1
        BY <1>1, <1>3, <2>1
      <3>3. produced' = produced \/ produced' = produced + 1
        BY <1>3
      <3> QED
        BY <1>1, <3>1, <3>2, <3>3
    <2> QED
      BY <2>1
  <1>7. retold' \subseteq 1..resumed
    <2>1. ASSUME NEW n \in pieces, n <= resumed PROVE n \in 1..resumed
      BY <1>1, <2>1
    <2> QED
      BY <1>1, <1>2, <2>1
  <1>8. \A n \in pieces : n \in 0..resumed => n \in retold'
    BY <1>1, <1>2
  <1>9. retold \subseteq retold'
    BY <1>2
  <1> QED
    BY <1>1, <1>3, <1>4, <1>5, <1>6, <1>7, <1>8, <1>9

(* A notification, by what it adds to the text and what it leaves out.     *)
Hears(pieces, text, known, seen, dirty) ==
  /\ Listening /\ ToldNow(pieces) /\ pieces \subseteq 1..NextPiece /\ pieces \subseteq 1..MaxOutput
  /\ IsText(text) /\ IsText(known) /\ IsText(seen) /\ dirty \in BOOLEAN
  /\ Schedule(Heard(state, text, known, seen, dirty))
  /\ text \ state.text \subseteq pieces /\ state.text \ text \subseteq withdrawn'
  /\ NextPiece \in pieces => NextPiece \in text
  /\ withdrawn \subseteq withdrawn' /\ withdrawn' \subseteq 1..produced
  /\ message' \cup commands' \subseteq 1..produced'
  /\ UNCHANGED <<resumed, finalizer, followup, turn>>

(* The stream once it has heard it, before anything is flushed.            *)
Prepared(w, g, s, v) ==
  /\ WellFormed(v) /\ Ahead(v) /\ Apart(v, g) /\ Everywhere(v, g)
  /\ ~v.s.closed /\ v.s.flushTask = w.s.flushTask /\ v.s.card = w.s.card /\ v.cards = w.cards
  /\ Tidy(w) => Tidy(v)
  /\ v.s = s

LEMMA Hearing ==
  ASSUME IInv, NEW pieces, NEW text, NEW known, NEW seen, NEW dirty, Hears(pieces, text, known, seen, dirty),
         NEW w, w = World, NEW h, h = History, NEW g, g = History',
         NEW s, s = Heard(w.s, text, known, seen, dirty), NEW v, v = Holding(w, s)
  PROVE  /\ Current(w) /\ CodexTypes' /\ h \in Histories /\ Advances(h, g)
         /\ Sound(w, h) /\ ~w.s.closed /\ w \in Worlds
         /\ Retells(w.s.text, text, h, g) /\ Prepared(w, g, s, v)
         /\ Schedule(s) /\ g.gone = withdrawn' /\ g.again = retold'
         /\ \/ produced' = produced
            \/ produced' = produced + 1
         /\ retold \subseteq retold' /\ retold' \subseteq 1..produced
  <1>1. Current(w)
    BY CurrentWorld
  <1>0. /\ Listening /\ ToldNow(pieces) /\ pieces \subseteq 1..NextPiece /\ pieces \subseteq 1..MaxOutput
        /\ IsText(text) /\ IsText(known) /\ IsText(seen) /\ dirty \in BOOLEAN
        /\ Schedule(Heard(state, text, known, seen, dirty))
        /\ text \ state.text \subseteq pieces /\ state.text \ text \subseteq withdrawn'
        /\ NextPiece \in pieces => NextPiece \in text
        /\ withdrawn \subseteq withdrawn' /\ withdrawn' \subseteq 1..produced
        /\ message' \cup commands' \subseteq 1..produced' /\ resumed' = resumed
    BY Zenon DEF Hears
  <1>2. CodexTypes
    BY DEF IInv, TypeOK, CodexTypes
  <1>3. /\ produced \in Nat /\ produced' \in 0..MaxOutput
        /\ \/ produced' = produced /\ NextPiece \notin pieces
           \/ produced' = produced + 1 /\ produced' \in pieces
        /\ 1..produced \subseteq 1..produced' /\ 0..produced \subseteq 0..produced' /\ pieces \subseteq 1..produced'
        /\ retold \subseteq retold' /\ retold' \subseteq 1..resumed /\ resumed \in 0..produced'
        /\ \A n \in pieces : n \in 0..resumed => n \in retold'
    BY <1>0, <1>2, TellsMore
  <1>4. CodexTypes'
    <2>1. withdrawn' \subseteq 1..produced'
      BY <1>0, <1>3
    <2> QED
      BY <1>0, <1>3, <2>1 DEF CodexTypes
  <1>5. /\ h \in Histories /\ h.said = produced /\ h.before = resumed
        /\ h.gone = withdrawn /\ h.again = retold
    BY <1>2, HistoryType DEF HistoryTyped
  <1>6. /\ g \in Histories /\ g.said = produced' /\ g.before = resumed
        /\ g.gone = withdrawn' /\ g.again = retold'
    <2>1. HistoryTyped' /\ resumed' = resumed
      BY <1>0, <1>4, HistoryTypeNext
    <2> QED
      BY <2>1 DEF HistoryTyped
  <1>7. Advances(h, g)
    BY <1>0, <1>3, <1>5, <1>6 DEF Advances
  <1>8. Sound(w, h) /\ ~w.s.closed /\ w.s = state /\ w \in Worlds
    BY <1>0, <1>1 DEF Current, Listening
  <1>9. Retells(w.s.text, text, h, g)
    <2>1. w.s.text \subseteq 0..produced
      BY <1>5, <1>8, Zenon DEF Sound, Apart
    <2>2. text \subseteq 0..produced'
      <3>1. 1..produced' \subseteq 0..produced'
        BY <1>3
      <3> QED
        BY <1>0, <1>3, <1>8, <2>1, <3>1
    <2>3. \A n \in text \ w.s.text : n \in 0..h.before => n \in g.again
      BY <1>0, <1>3, <1>5, <1>6, <1>8
    <2>4. w.s.text \ text \subseteq g.gone
      BY <1>0, <1>6, <1>8
    <2>5. g.said = h.said \/ g.said \in text
      BY <1>0, <1>3, <1>5, <1>6 DEF NextPiece
    <2> QED
      BY <1>6, <2>2, <2>3, <2>4, <2>5, Zenon DEF Retells
  <1>10. Prepared(w, g, s, v)
    <2>1. v = Holding(w, Heard(w.s, text, known, seen, dirty)) /\ h \in Histories
      BY <1>5
    <2>2. /\ WellFormed(v) /\ Ahead(v) /\ Apart(v, g) /\ Everywhere(v, g)
          /\ ~v.s.closed /\ v.s.flushTask = w.s.flushTask /\ v.s.card = w.s.card /\ v.cards = w.cards
          /\ Tidy(w) => Tidy(v)
          /\ v.s = Heard(w.s, text, known, seen, dirty)
      <3>1. IsText(text) /\ IsText(known) /\ IsText(seen) /\ dirty \in BOOLEAN
        BY <1>0
      <3> QED
        BY ONLY <1>7, <1>8, <1>9, <2>1, <3>1, RetellingKeeps
    <2> QED
      BY <2>2, Zenon DEF Prepared
  <1>11. Schedule(s)
    BY <1>0, <1>8
  <1>12. retold' \subseteq 1..produced
    <2>1. 1..resumed \subseteq 1..produced
      BY <1>2 DEF CodexTypes
    <2> QED
      BY <1>3, <2>1
  <1> QED
    BY <1>1, <1>3, <1>4, <1>5, <1>6, <1>7, <1>8, <1>9, <1>10, <1>11, <1>12, Zenon

LEMMA ListenStep ==
  ASSUME IInv, NEW pieces, NEW text, NEW known, NEW seen, NEW dirty, Hears(pieces, text, known, seen, dirty)
  PROVE  IInv'
  <1> PICK w : w = World
    OBVIOUS
  <1> PICK h : h = History
    OBVIOUS
  <1> PICK g : g = History'
    OBVIOUS
  <1> PICK s : s = Heard(w.s, text, known, seen, dirty)
    OBVIOUS
  <1> PICK v : v = Holding(w, s)
    OBVIOUS
  <1>1. Current(w) /\ CodexTypes' /\ Prepared(w, g, s, v) /\ Schedule(s)
    BY Hearing
  <1>2. Listening /\ UNCHANGED <<finalizer, followup, turn>>
    BY DEF Hears
  <1>3. /\ WellFormed(v) /\ Ahead(v) /\ Apart(v, g) /\ Everywhere(v, g)
        /\ ~v.s.closed /\ v.s.flushTask = w.s.flushTask /\ v.cards = w.cards
        /\ Tidy(w) => Tidy(v)
        /\ v.s = s
    BY <1>1, Zenon DEF Prepared
  <1> QED
    BY <1>1, <1>2, <1>3, ScheduleStep, Zenon

(* What the handlers start from: the stream's texts and Codex's pieces.    *)
LEMMA HeardTypes ==
  ASSUME IInv
  PROVE  /\ state.text \in SUBSET Pieces /\ state.known \in SUBSET Pieces /\ state.seen \in SUBSET Pieces
         /\ state.dirty \in BOOLEAN /\ state \in Streams /\ CodexTypes
         /\ produced \in Nat /\ NextPiece = produced + 1 /\ NextPiece \in 1..NextPiece
         /\ 1..produced \subseteq 1..NextPiece
         /\ message \subseteq 1..produced /\ commands \subseteq 1..produced /\ withdrawn \subseteq 1..produced
         /\ 1..MaxOutput \subseteq Pieces
  <1>1. state \in Streams /\ produced \in 0..MaxOutput /\ CodexTypes
    BY DEF IInv, TypeOK, CodexTypes
  <1>2. NextPiece = produced + 1
    BY DEF NextPiece
  <1>3. MaxOutput \in Nat
    BY ReplyStreamAssumption
  <1> QED
    BY <1>1, <1>2, <1>3 DEF Streams, CodexTypes, Pieces

LEMMA HandleDeltaHears ==
  ASSUME IInv, NEW told \in {message, {}}, HandleDelta(told)
  PROVE  \E pieces, text, known, seen, dirty : Hears(pieces, text, known, seen, dirty)
  <1> PICK pieces : pieces = {NextPiece}
    OBVIOUS
  <1> PICK text : text = state.text \cup {NextPiece}
    OBVIOUS
  <1> PICK known : known = (state.known \cap told) \cup {NextPiece}
    OBVIOUS
  <1> PICK seen, dirty : seen = state.seen /\ dirty = TRUE
    OBVIOUS
  <1>0. /\ Listening /\ produced < MaxOutput /\ Tells({NextPiece}, {}) /\ message' = told \cup {NextPiece}
        /\ Schedule(AppendText(state, told))
        /\ UNCHANGED <<commands, resumed, finalizer, followup, turn>>
    BY Zenon DEF HandleDelta
  <1>1. /\ Listening /\ produced < MaxOutput /\ ToldNow(pieces) /\ message' = told \cup {NextPiece}
        /\ Schedule(AppendText(state, told)) /\ withdrawn' = withdrawn
        /\ UNCHANGED <<commands, resumed, finalizer, followup, turn>>
    <2>1. ToldNow({NextPiece}) /\ withdrawn' = withdrawn \cup {}
      BY <1>0, TellsNow
    <2> QED
      BY <1>0, <2>1
  <1>2. /\ state.text \in SUBSET Pieces /\ state.known \in SUBSET Pieces /\ state.seen \in SUBSET Pieces
        /\ state \in Streams /\ CodexTypes
        /\ produced \in Nat /\ NextPiece = produced + 1 /\ NextPiece \in 1..NextPiece
        /\ message \subseteq 1..produced /\ commands \subseteq 1..produced /\ withdrawn \subseteq 1..produced
        /\ 1..MaxOutput \subseteq Pieces
    BY HeardTypes
  <1>3. NextPiece \in 1..MaxOutput /\ NextPiece \in Pieces
    BY <1>1, <1>2, ReplyStreamAssumption
  <1>4. pieces \subseteq 1..NextPiece /\ pieces \subseteq 1..MaxOutput /\ NextPiece \in pieces
    BY <1>2, <1>3
  <1>5. AppendText(state, told) = Heard(state, text, known, seen, dirty)
    BY <1>2 DEF AppendText, Known, Heard, Streams
  <1>6. Schedule(Heard(state, text, known, seen, dirty))
    BY <1>1, <1>5, Zenon
  <1>7. /\ text \in SUBSET Pieces /\ known \in SUBSET Pieces /\ seen \in SUBSET Pieces /\ dirty \in BOOLEAN
    BY <1>2, <1>3
  <1>8. /\ text \ state.text \subseteq pieces /\ state.text \ text \subseteq withdrawn'
        /\ NextPiece \in pieces => NextPiece \in text
    OBVIOUS
  <1>9. 1..produced \subseteq 1..produced' /\ pieces \subseteq 1..produced'
    BY <1>1, <1>2, <1>4, TellsMore
  <1>10. /\ message' \cup commands' \subseteq 1..produced'
         /\ withdrawn \subseteq withdrawn' /\ withdrawn' \subseteq 1..produced
    BY <1>1, <1>2, <1>4, <1>9
  <1>11. UNCHANGED <<resumed, finalizer, followup, turn>>
    BY <1>1
  <1>12. IsText(text) /\ IsText(known) /\ IsText(seen) /\ dirty \in BOOLEAN
    BY <1>7, Zenon DEF IsText
  <1>13. Hears(pieces, text, known, seen, dirty)
    BY <1>1, <1>4, <1>6, <1>8, <1>10, <1>11, <1>12, Zenon DEF Hears
  <1> QED
    BY <1>13

(* A whole message replaces the known part of the message, or adds to it.  *)
Replaces(s, told, whole, n, text, known, dirty) ==
  /\ ReplaceText(s, told, whole) = Heard(s, text, known, s.seen, dirty)
  /\ IsText(text) /\ IsText(known) /\ dirty \in BOOLEAN
  /\ text \ s.text \subseteq whole /\ s.text \ text \subseteq told \ whole
  /\ n \in whole => n \in text

LEMMA ReplacedText ==
  ASSUME NEW s, s \in Streams, NEW told, NEW whole, NEW n, n \notin told, IsText(whole)
  PROVE  \E text, known, dirty : Replaces(s, told, whole, n, text, known, dirty)
  <1> DEFINE old == Known(s, told)
  <1>1. /\ IsText(s.text) /\ IsText(s.known) /\ IsText(s.seen)
        /\ s.dirty \in BOOLEAN
    BY DEF Streams, IsText
  <1>2. old \subseteq told /\ n \notin old
    BY DEF Known
  <1>3. s = Heard(s, s.text, s.known, s.seen, s.dirty)
    BY DEF Streams, Heard
  <1>4. CASE whole = {}
    <2>1. ReplaceText(s, told, whole) = s
      BY <1>4 DEF ReplaceText
    <2>2. Replaces(s, told, whole, n, s.text, s.known, s.dirty)
      BY <1>1, <1>3, <1>4, <2>1 DEF Replaces
    <2> QED
      BY <2>2
  <1>5. CASE whole # {} /\ IsBeginning(old, whole)
    <2> PICK text, known : text = s.text \cup (whole \ old) /\ known = whole
      OBVIOUS
    <2> PICK dirty \in BOOLEAN : dirty = (s.dirty \/ whole # old)
      <3>1. (s.dirty \/ whole # old) \in BOOLEAN
        BY Zenon
      <3> QED
        BY <3>1, Zenon
    <2>1. ReplaceText(s, told, whole) = Heard(s, text, known, s.seen, dirty)
      BY <1>5 DEF ReplaceText, Heard, Streams
    <2>2. text \ s.text \subseteq whole /\ s.text \ text \subseteq told \ whole /\ (n \in whole => n \in text)
      BY <1>2
    <2>3. IsText(text) /\ IsText(known)
      BY <1>1 DEF IsText
    <2> QED
      BY <2>1, <2>2, <2>3 DEF Replaces
  <1>6. CASE whole # {} /\ ~IsBeginning(old, whole) /\ IsBeginning(whole, old)
    <2>1. n \notin whole
      BY <1>2, <1>6 DEF IsBeginning
    <2>2. ReplaceText(s, told, whole) = s
      BY <1>6 DEF ReplaceText
    <2>3. Replaces(s, told, whole, n, s.text, s.known, s.dirty)
      BY <1>1, <1>3, <2>1, <2>2 DEF Replaces
    <2> QED
      BY <2>3
  <1>7. CASE whole # {} /\ ~IsBeginning(old, whole) /\ ~IsBeginning(whole, old)
    <2> PICK text, known : text = (s.text \ old) \cup whole /\ known = whole
      OBVIOUS
    <2> PICK dirty \in BOOLEAN : dirty = TRUE
      OBVIOUS
    <2>1. ReplaceText(s, told, whole) = Heard(s, text, known, s.seen, dirty)
      BY <1>7 DEF ReplaceText, Heard, Streams
    <2>2. text \ s.text \subseteq whole /\ s.text \ text \subseteq told \ whole /\ (n \in whole => n \in text)
      BY <1>2
    <2>3. IsText(text) /\ IsText(known)
      BY <1>1 DEF IsText
    <2> QED
      BY <2>1, <2>2, <2>3 DEF Replaces
  <1> QED
    BY <1>4, <1>5, <1>6, <1>7

LEMMA HandleMessageHears ==
  ASSUME IInv, NEW told \in {message, {}}, NEW whole, HandleMessage(told, whole)
  PROVE  \E pieces, text, known, seen, dirty : Hears(pieces, text, known, seen, dirty)
  <1>0. /\ Listening /\ whole \subseteq 1..MaxOutput /\ whole \subseteq told \cup {NextPiece}
        /\ Tells(whole, told \ whole)
        /\ message' = IF told \subseteq whole THEN whole ELSE {}
        /\ Schedule(ReplaceText(state, told, whole))
        /\ UNCHANGED <<commands, resumed, finalizer, followup, turn>>
    BY Zenon DEF HandleMessage
  <1>1. /\ Listening /\ whole \subseteq 1..MaxOutput /\ whole \subseteq told \cup {NextPiece} /\ ToldNow(whole)
        /\ message' = IF told \subseteq whole THEN whole ELSE {}
        /\ withdrawn' = withdrawn \cup (told \ whole)
        /\ Schedule(ReplaceText(state, told, whole))
        /\ UNCHANGED <<commands, resumed, finalizer, followup, turn>>
    BY <1>0, TellsNow, Zenon
  <1>2. /\ state.seen \in SUBSET Pieces /\ state \in Streams /\ CodexTypes
        /\ produced \in Nat /\ NextPiece = produced + 1 /\ NextPiece \in 1..NextPiece
        /\ 1..produced \subseteq 1..NextPiece
        /\ message \subseteq 1..produced /\ commands \subseteq 1..produced /\ withdrawn \subseteq 1..produced
        /\ 1..MaxOutput \subseteq Pieces
    BY HeardTypes
  <1>3. told \subseteq 1..produced /\ NextPiece \notin told
    BY <1>2
  <1>4. whole \subseteq 1..NextPiece /\ whole \subseteq Pieces
    BY <1>1, <1>2, <1>3
  <1>5. PICK text, known, dirty : Replaces(state, told, whole, NextPiece, text, known, dirty)
    <2>1. NextPiece \notin told /\ IsText(whole) /\ state \in Streams
      BY <1>2, <1>3, <1>4 DEF IsText
    <2>2. \E text, known, dirty : Replaces(state, told, whole, NextPiece, text, known, dirty)
      BY ONLY <2>1, ReplacedText
    <2> QED
      BY <2>2, Zenon
  <1>10. /\ ReplaceText(state, told, whole) = Heard(state, text, known, state.seen, dirty)
         /\ text \in SUBSET Pieces /\ known \in SUBSET Pieces /\ dirty \in BOOLEAN
         /\ text \ state.text \subseteq whole /\ state.text \ text \subseteq told \ whole
         /\ NextPiece \in whole => NextPiece \in text
    BY <1>5, Zenon DEF Replaces, IsText
  <1>6. Schedule(Heard(state, text, known, state.seen, dirty))
    BY <1>1, <1>10, Zenon
  <1>7. 1..produced \subseteq 1..produced' /\ whole \subseteq 1..produced'
    BY <1>1, <1>2, <1>4, TellsMore
  <1>8. /\ message' \cup commands' \subseteq 1..produced'
        /\ withdrawn \subseteq withdrawn' /\ withdrawn' \subseteq 1..produced
        /\ state.text \ text \subseteq withdrawn'
    BY <1>1, <1>2, <1>3, <1>7, <1>10
  <1>9. UNCHANGED <<resumed, finalizer, followup, turn>>
    BY <1>1
  <1> PICK seen : seen = state.seen
    OBVIOUS
  <1>11. IsText(text) /\ IsText(known) /\ IsText(seen) /\ dirty \in BOOLEAN
    BY <1>2, <1>10, Zenon DEF IsText
  <1>12. whole \subseteq 1..MaxOutput /\ text \ state.text \subseteq whole
    BY <1>1, <1>10, Zenon
  <1>13. Hears(whole, text, known, seen, dirty)
    BY <1>1, <1>4, <1>6, <1>8, <1>9, <1>10, <1>11, <1>12, Zenon DEF Hears
  <1> QED
    BY <1>13

LEMMA HandleCommandHears ==
  ASSUME IInv, NEW c, HandleCommand(c)
  PROVE  \E pieces, text, known, seen, dirty : Hears(pieces, text, known, seen, dirty)
  <1> PICK pieces : pieces = {c}
    OBVIOUS
  <1> PICK text, known : text = state.text \cup {c} /\ known = state.known
    OBVIOUS
  <1> PICK seen, dirty : seen = state.seen \cup {c} /\ dirty = TRUE
    OBVIOUS
  <1>0. /\ Listening /\ c \in commands \cup {NextPiece} /\ c <= MaxOutput
        /\ Tells({c}, {}) /\ commands' = commands \cup {c}
        /\ Schedule([state EXCEPT !.text = @ \cup {c}, !.seen = @ \cup {c}, !.dirty = TRUE])
        /\ UNCHANGED <<message, resumed, finalizer, followup, turn>>
    BY Zenon DEF HandleCommand
  <1>1. /\ Listening /\ c \in commands \cup {NextPiece} /\ c <= MaxOutput
        /\ ToldNow(pieces) /\ commands' = commands \cup {c} /\ withdrawn' = withdrawn
        /\ Schedule([state EXCEPT !.text = @ \cup {c}, !.seen = @ \cup {c}, !.dirty = TRUE])
        /\ UNCHANGED <<message, resumed, finalizer, followup, turn>>
    <2>1. ToldNow({c}) /\ withdrawn' = withdrawn \cup {}
      BY <1>0, TellsNow
    <2> QED
      BY <1>0, <2>1
  <1>2. /\ state.text \in SUBSET Pieces /\ state.known \in SUBSET Pieces /\ state.seen \in SUBSET Pieces
        /\ state \in Streams /\ CodexTypes
        /\ produced \in Nat /\ NextPiece = produced + 1 /\ NextPiece \in 1..NextPiece
        /\ 1..produced \subseteq 1..NextPiece
        /\ message \subseteq 1..produced /\ commands \subseteq 1..produced /\ withdrawn \subseteq 1..produced
        /\ 1..MaxOutput \subseteq Pieces
    BY HeardTypes
  <1>3. c \in 1..NextPiece
    BY <1>1, <1>2
  <1>4. c \in 1..MaxOutput /\ c \in Pieces
    BY <1>1, <1>2, <1>3, ReplyStreamAssumption
  <1>5. pieces \subseteq 1..NextPiece /\ pieces \subseteq 1..MaxOutput
    BY <1>3, <1>4
  <1>6. Schedule(Heard(state, text, known, seen, dirty))
    <2>1. [state EXCEPT !.text = @ \cup {c}, !.seen = @ \cup {c}, !.dirty = TRUE] =
            Heard(state, text, known, seen, dirty)
      BY <1>2 DEF Heard, Streams
    <2> QED
      BY <1>1, <2>1, Zenon
  <1>7. /\ text \in SUBSET Pieces /\ known \in SUBSET Pieces /\ seen \in SUBSET Pieces /\ dirty \in BOOLEAN
    BY <1>2, <1>4
  <1>8. /\ text \ state.text \subseteq pieces /\ state.text \ text \subseteq withdrawn'
        /\ NextPiece \in pieces => NextPiece \in text
    OBVIOUS
  <1>9. 1..produced \subseteq 1..produced' /\ pieces \subseteq 1..produced'
    BY <1>1, <1>2, <1>5, TellsMore
  <1>10. /\ message' \cup commands' \subseteq 1..produced'
         /\ withdrawn \subseteq withdrawn' /\ withdrawn' \subseteq 1..produced
    BY <1>1, <1>2, <1>9
  <1>11. UNCHANGED <<resumed, finalizer, followup, turn>>
    BY <1>1
  <1>12. IsText(text) /\ IsText(known) /\ IsText(seen) /\ dirty \in BOOLEAN
    BY <1>7, Zenon DEF IsText
  <1>13. Hears(pieces, text, known, seen, dirty)
    BY <1>1, <1>5, <1>6, <1>8, <1>10, <1>11, <1>12, Zenon DEF Hears
  <1> QED
    BY <1>13

(* The receive loop has a notification of output.                          *)
Notified ==
  \/ \E told \in {message, {}} :
       HandleDelta(told) \/ \E whole \in SUBSET (told \cup {NextPiece}) : HandleMessage(told, whole)
  \/ \E c \in commands \cup {NextPiece} : HandleCommand(c)

LEMMA NotificationHears ==
  ASSUME IInv, Notified
  PROVE  \E pieces, text, known, seen, dirty : Hears(pieces, text, known, seen, dirty)
  <1> DEFINE Heeds == \E pieces, text, known, seen, dirty : Hears(pieces, text, known, seen, dirty)
  <1>1. ASSUME NEW told \in {message, {}}, HandleDelta(told) PROVE Heeds
    BY <1>1, HandleDeltaHears
  <1>2. ASSUME NEW told \in {message, {}}, NEW whole, HandleMessage(told, whole) PROVE Heeds
    BY <1>2, HandleMessageHears
  <1>3. ASSUME NEW c, HandleCommand(c) PROVE Heeds
    BY <1>3, HandleCommandHears
  <1> HIDE DEF Heeds
  <1>4. Heeds
    BY <1>1, <1>2, <1>3, Zenon DEF Notified
  <1> QED
    BY <1>4 DEF Heeds

LEMMA TimerFiresStep ==
  ASSUME IInv, TimerFires
  PROVE  IInv'
  <1> PICK w : w = World
    OBVIOUS
  <1>1. Current(w)
    BY CurrentWorld
  <1>2. /\ sleepers > 0 /\ sleepers' = sleepers - 1
        /\ UNCHANGED <<finalizer, followup, turn>> /\ UNCHANGED <<codexVars, resumed>>
        /\ Become(IF state.closed THEN {w} ELSE Flush(w, FALSE))
    BY Zenon DEF TimerFires
  <1>3. PICK x : /\ Leads(x)
                 /\ \/ w.s.closed /\ x = w
                    \/ ~w.s.closed /\ x \in Flush(w, FALSE)
    BY <1>1, <1>2, Zenon DEF Become, Leads, Current
  <1>4. /\ Sound(x, History) /\ ~x.s.flushTask /\ x.s.closed = w.s.closed /\ Len(w.cards) <= Len(x.cards)
        /\ (Tidy(w) => Tidy(x)) /\ (Over(w) => Over(x)) /\ (SaysFailed(w) => SaysFailed(x))
    BY <1>1, <1>3, TimerKeeps, Zenon DEF Current
  <1>5. x \in Worlds
    BY <1>4 DEF Sound, WellFormed
  <1>9. History' = History /\ CodexTypes'
    BY <1>2, SameHistory DEF IInv, TypeOK, CodexTypes
  <1>6. Others(x)'
    <2>1. followup' \in Follows(Len(x.cards))
      BY <1>1, <1>2, <1>4, <1>5, StillFollows
    <2> QED
      BY <1>2, <1>4, <1>9, <2>1 DEF Others, IInv, TypeOK
  <1>7. TasksAgree'
    <2>1. state'.closed = state.closed
      BY <1>1, <1>3, <1>4 DEF Current, Leads
    <2> QED
      BY <1>2, <2>1 DEF TasksAgree, IInv
  <1>8. Arriving(x)'
    BY <1>1, <1>2, <1>3, <1>4, <1>6, <1>7, <1>9 DEF Arriving, Current, Leads
  <1> QED
    BY <1>8, Arrived

(* _finalize_state up to its await, or to its end.                         *)
Finalizes(w, x, p, outcome) ==
  /\ Leads(x) /\ Sound(x, History) /\ x \in Worlds /\ Len(w.cards) <= Len(x.cards)
  /\ ~x.s.flushTask /\ Over(x) /\ sleepers' \in Nat
  /\ Tidy(w) => Tidy(x)
  /\ outcome = "failed" => SaysFailed(x)
  /\ \E at \in {"awaiting", "done"} :
       /\ at = "done" => x.s.closed
       /\ finalizer' = [finalizer EXCEPT ![p] = [at |-> at, outcome |-> outcome]]

LEMMA FinalizingConcludes ==
  ASSUME IInv, NEW w, Current(w), NEW outcome
  PROVE  \E known, text :
           IsText(known) /\ MaySay(w, text) /\ Finalizing(outcome) = Concluding(w.s, outcome, known, text)
  <1> DEFINE explain == outcome = "failed" /\ state.known = {} /\ state.card # NoCard
             said == IF explain THEN state.text \cup {ErrorText} ELSE state.text
             knows == IF explain THEN {ErrorText} ELSE state.known
  <1>1. IsText(knows)
    <2>1. state.known \in SUBSET Pieces /\ {ErrorText} \in SUBSET Pieces
      BY ReplyStreamAssumption DEF IInv, TypeOK, Streams, Pieces, ErrorText
    <2> QED
      BY <2>1, Zenon DEF IsText
  <1>2. Finalizing(outcome) = Concluding(state, outcome, knows, said)
    BY Zenon DEF Finalizing, Concluding
  <1>3. said = state.text \/ (said = state.text \cup {ErrorText} /\ state.card # NoCard)
    BY Zenon
  <1>4. w.s = state
    BY DEF Current
  <1> QED
    BY <1>1, <1>2, <1>3, <1>4, Zenon DEF MaySay

LEMMA FinalizeMoves ==
  ASSUME IInv, NEW p \in Finalizers, NEW outcome \in Outcomes, Finalize(p, outcome),
         NEW w, w = World, Current(w)
  PROVE  \E x : Finalizes(w, x, p, outcome)
  <1> PICK known, text :
        IsText(known) /\ MaySay(w, text) /\ Finalizing(outcome) = Concluding(w.s, outcome, known, text)
    BY FinalizingConcludes
  <1> PICK v : v = Holding(w, Concluding(w.s, outcome, known, text))
    OBVIOUS
  <1> PICK h : h = History
    OBVIOUS
  <1>2. h \in Histories
    BY DEF Current
  <1>3. Sound(w, h) /\ ~w.s.closed
    BY DEF Current, Finalize
  <1>10. /\ MaySay(w, text)
         /\ v = Holding(w, Concluding(w.s, outcome, known, text))
    OBVIOUS
  <1>4. /\ Sound(v, h) /\ ~v.s.closed /\ v.s.card = w.s.card /\ v.cards = w.cards /\ ~v.s.flushTask
        /\ Over(v)
        /\ Tidy(w) => Tidy(v)
        /\ outcome = "failed" => SaysFailed(v)
    <2>1. IsText(known) /\ outcome \in Outcomes
      OBVIOUS
    <2> QED
      BY ONLY <1>2, <1>3, <1>10, <2>1, ConcludingKeeps
  <1>5. \/ /\ state.flushTask /\ sleepers' = sleepers - 1 /\ Become({v})
           /\ finalizer' = [finalizer EXCEPT ![p] = [at |-> "awaiting", outcome |-> outcome]]
        \/ /\ sleepers' = sleepers /\ Become(Finalized(v, outcome))
           /\ finalizer' = [finalizer EXCEPT ![p] = [at |-> "done", outcome |-> outcome]]
    <2>1. v = [World EXCEPT !.s = Finalizing(outcome)]
      BY Zenon DEF Holding
    <2> QED
      BY <2>1, Zenon DEF Finalize
  <1>6. sleepers \in Nat /\ (state.flushTask => sleepers > 0)
    BY DEF IInv, TypeOK
  <1>7. v \in Worlds /\ Len(w.cards) <= Len(v.cards)
    <2>1. v \in Worlds /\ w \in Worlds
      BY <1>4 DEF Sound, WellFormed, Current
    <2>2. Len(w.cards) \in Nat
      BY <2>1, LengthTypes
    <2> QED
      BY <1>4, <2>1, <2>2
  <1>8. CASE /\ state.flushTask /\ sleepers' = sleepers - 1 /\ Become({v})
             /\ finalizer' = [finalizer EXCEPT ![p] = [at |-> "awaiting", outcome |-> outcome]]
    <2>1. sleepers' \in Nat
      BY <1>6, <1>8
    <2>2. Leads(v)
      BY <1>8, Zenon DEF Become, Leads
    <2>3. Finalizes(w, v, p, outcome)
      BY <1>4, <1>7, <1>8, <2>1, <2>2, Zenon DEF Finalizes
    <2> QED
      BY <2>3
  <1>9. CASE /\ sleepers' = sleepers /\ Become(Finalized(v, outcome))
             /\ finalizer' = [finalizer EXCEPT ![p] = [at |-> "done", outcome |-> outcome]]
    <2>1. PICK x \in Finalized(v, outcome) : Leads(x)
      BY <1>9, Zenon DEF Become, Leads
    <2>2. /\ Sound(x, h) /\ x.s.closed /\ Len(v.cards) <= Len(x.cards)
          /\ Tidy(v) /\ Over(v) => Tidy(x)
          /\ outcome = "failed" /\ SaysFailed(v) => SaysFailed(x)
      BY <1>2, <1>4, <2>1, FinalizedKeeps
    <2>3. x \in Worlds /\ ~x.s.flushTask /\ Over(x)
      BY <2>2 DEF Sound, WellFormed, Over
    <2>4. sleepers' \in Nat
      BY <1>6, <1>9
    <2>5. Len(w.cards) <= Len(x.cards)
      BY <1>4, <2>2
    <2>6. Finalizes(w, x, p, outcome)
      BY <1>4, <1>9, <2>1, <2>2, <2>3, <2>4, <2>5, Zenon DEF Finalizes
    <2> QED
      BY <2>6
  <1> QED
    BY <1>5, <1>8, <1>9

LEMMA FinalizeStep ==
  ASSUME IInv, NEW p \in Finalizers, NEW outcome \in Outcomes, Finalize(p, outcome),
         \/ p = "receive loop" /\ turn = "running" /\ turn' = outcome
         \/ p = "shutdown" /\ outcome = "failed" /\ turn' = turn
  PROVE  IInv'
  <1> PICK w : w = World
    OBVIOUS
  <1>1. Current(w)
    BY CurrentWorld
  <1>2. PICK x : Finalizes(w, x, p, outcome)
    BY <1>1, FinalizeMoves
  <1>3. PICK at \in {"awaiting", "done"} :
          /\ at = "done" => x.s.closed
          /\ finalizer' = [finalizer EXCEPT ![p] = [at |-> at, outcome |-> outcome]]
    BY <1>2, Zenon DEF Finalizes
  <1>4. /\ Leads(x) /\ Sound(x, History) /\ x \in Worlds /\ Len(w.cards) <= Len(x.cards)
        /\ ~x.s.flushTask /\ Over(x) /\ sleepers' \in Nat
        /\ Tidy(w) => Tidy(x)
        /\ outcome = "failed" => SaysFailed(x)
    BY <1>2, Zenon DEF Finalizes
  <1>5. /\ ~state.closed /\ followup' = followup /\ UNCHANGED <<codexVars, resumed>>
        /\ TasksAgree /\ turn \in {"running"} \cup Outcomes
        /\ finalizer \in [Finalizers -> [at : Phases, outcome : Outcomes]]
    BY DEF Finalize, IInv, TypeOK
  <1>6. /\ finalizer' \in [Finalizers -> [at : Phases, outcome : Outcomes]]
        /\ finalizer'[p].at = at /\ finalizer'[p].outcome = outcome
        /\ \A q \in Finalizers : q # p => finalizer'[q] = finalizer[q]
    <2>1. [at |-> at, outcome |-> outcome] \in [at : Phases, outcome : Outcomes]
      BY DEF Phases
    <2> QED
      BY <1>3, <1>5, <2>1
  <1>13. History' = History /\ CodexTypes'
    BY <1>5, SameHistory DEF IInv, TypeOK, CodexTypes
  <1>7. Others(x)'
    <2>1. followup' \in Follows(Len(x.cards))
      BY <1>1, <1>4, <1>5, StillFollows
    <2>2. turn' \in {"running"} \cup Outcomes /\ CodexTypes'
      BY <1>5, <1>13
    <2> QED
      BY <1>4, <1>6, <2>1, <2>2 DEF Others
  <1>8. "receive loop" \in Finalizers /\ "shutdown" \in Finalizers /\ at # "idle"
    BY DEF Finalizers
  <1>9. TasksAgree'
    <2>1. \A q \in Finalizers : q # p => finalizer[q].at # "done"
      BY <1>5 DEF TasksAgree
    <2>2. \A q \in Finalizers : finalizer'[q].at = "done" => state'.closed
      BY <1>3, <1>4, <1>6, <2>1 DEF Leads
    <2>3. \A f \in Followups : followup'[f].at = "awaiting" => followup'[f].card # NoCard
      BY <1>5 DEF TasksAgree
    <2>4. finalizer'["receive loop"].at = "idle" <=> turn' = "running"
      BY <1>5, <1>6, <1>8 DEF TasksAgree, Outcomes
    <2>5. turn' # "running" => finalizer'["receive loop"].outcome = turn'
      BY <1>5, <1>6, <1>8 DEF TasksAgree
    <2>6. finalizer'["shutdown"].at # "idle" => finalizer'["shutdown"].outcome = "failed"
      BY <1>5, <1>6, <1>8 DEF TasksAgree
    <2> QED
      BY <2>2, <2>3, <2>4, <2>5, <2>6 DEF TasksAgree
  <1>10. finalizer'["shutdown"].at = "idle" => Tidy(x)
    BY <1>1, <1>4, <1>6, <1>8 DEF Current
  <1>11. turn' = "failed" => SaysFailed(x)
    BY <1>4
  <1>12. Arriving(x)'
    BY <1>4, <1>5, <1>7, <1>9, <1>10, <1>11, <1>13 DEF Arriving, Leads
  <1> QED
    BY <1>12, Arrived

LEMMA ResumeFinalizeStep ==
  ASSUME IInv, NEW p \in Finalizers, ResumeFinalize(p)
  PROVE  IInv'
  <1> PICK w : w = World
    OBVIOUS
  <1>1. Current(w)
    BY CurrentWorld
  <1> PICK outcome, h : outcome = finalizer[p].outcome /\ h = History
    OBVIOUS
  <1>2. /\ finalizer[p].at = "awaiting" /\ finalizer' = [finalizer EXCEPT ![p].at = "done"]
        /\ Become(Finalized(w, outcome)) /\ UNCHANGED <<sleepers, followup, turn>>
        /\ UNCHANGED <<codexVars, resumed>>
    BY DEF ResumeFinalize
  <1>3. /\ TasksAgree /\ turn \in {"running"} \cup Outcomes /\ sleepers \in Nat
        /\ finalizer \in [Finalizers -> [at : Phases, outcome : Outcomes]]
    BY DEF IInv, TypeOK
  <1>4. PICK x \in Finalized(w, outcome) : Leads(x)
    BY <1>2, Zenon DEF Become, Leads
  <1>5. h \in Histories /\ outcome \in Outcomes /\ Sound(w, h)
    BY <1>1, <1>3 DEF Current
  <1>6. /\ Sound(x, h) /\ x.s.closed /\ Len(w.cards) <= Len(x.cards)
        /\ Tidy(w) /\ Over(w) => Tidy(x)
        /\ outcome = "failed" /\ SaysFailed(w) => SaysFailed(x)
    BY <1>4, <1>5, FinalizedKeeps
  <1>7. x \in Worlds /\ ~x.s.flushTask /\ Over(x)
    BY <1>6 DEF Sound, WellFormed, Over
  <1>8. /\ finalizer' \in [Finalizers -> [at : Phases, outcome : Outcomes]]
        /\ finalizer'[p].at = "done" /\ \A q \in Finalizers : finalizer'[q].outcome = finalizer[q].outcome
        /\ \A q \in Finalizers : q # p => finalizer'[q] = finalizer[q]
    BY <1>2, <1>3 DEF Phases
  <1>9. "receive loop" \in Finalizers /\ "shutdown" \in Finalizers
    BY DEF Finalizers
  <1>15. History' = History /\ CodexTypes'
    BY <1>2, SameHistory DEF IInv, TypeOK, CodexTypes
  <1>10. Others(x)'
    <2>1. followup' \in Follows(Len(x.cards))
      BY <1>1, <1>2, <1>6, <1>7, StillFollows
    <2> QED
      BY <1>2, <1>3, <1>7, <1>8, <1>15, <2>1 DEF Others
  <1>11. TasksAgree'
    <2>1. state'.closed
      BY <1>4, <1>6 DEF Leads
    <2>2. \A q \in Finalizers : finalizer'[q].at = "idle" <=> finalizer[q].at = "idle"
      BY <1>2, <1>8
    <2> QED
      BY <1>2, <1>3, <1>8, <1>9, <2>1, <2>2 DEF TasksAgree
  <1>12. finalizer'["shutdown"].at = "idle" => Tidy(x)
    <2>1. SUFFICES ASSUME finalizer'["shutdown"].at = "idle" PROVE Tidy(x)
      OBVIOUS
    <2>2. p = "receive loop" /\ finalizer["shutdown"].at = "idle"
      BY <1>8, <1>9, <2>1 DEF Finalizers
    <2>3. turn # "running"
      BY <1>2, <1>3, <2>2 DEF TasksAgree
    <2> QED
      BY <1>1, <1>6, <2>2, <2>3 DEF Current
  <1>13. turn' = "failed" => SaysFailed(x)
    <2>1. SUFFICES ASSUME turn = "failed" PROVE SaysFailed(x)
      BY <1>2
    <2>2. outcome = "failed"
      BY <1>2, <1>3, <1>9, <2>1 DEF TasksAgree, Finalizers
    <2> QED
      BY <1>1, <1>6, <2>1, <2>2 DEF Current
  <1>14. Arriving(x)'
    BY <1>2, <1>4, <1>6, <1>7, <1>10, <1>11, <1>12, <1>13, <1>15 DEF Arriving, Leads
  <1> QED
    BY <1>14, Arrived

(* What a step of a follow-up may do to the world, and to its own record.  *)
LEMMA FollowupStep ==
  ASSUME IInv, NEW w, w = World, Current(w), NEW x, Leads(x), NEW g, g = History', CodexTypes', Sound(x, g),
         x.s.closed = w.s.closed, Len(w.cards) <= Len(x.cards),
         Tidy(w) => Tidy(x), Over(w) => Over(x), SaysFailed(w) => SaysFailed(x),
         sleepers' \in Nat, x.s.flushTask => sleepers' > 0,
         NEW f \in Followups, NEW read, followup' = [followup EXCEPT ![f] = read],
         read \in [at : Phases, card : 0..Len(w.cards), reaction : BOOLEAN],
         read.at = "awaiting" => read.card # NoCard, UNCHANGED <<finalizer, turn>>
  PROVE  IInv'
  <1>1. x \in Worlds
    BY DEF Sound, WellFormed
  <1>2. Others(x)'
    <2>1. Len(w.cards) \in Nat /\ Len(x.cards) \in Nat
      BY <1>1, LengthTypes DEF Current
    <2>2. followup \in Follows(Len(w.cards))
      BY DEF IInv, TypeOK, Follows, Current
    <2>3. followup' \in Follows(Len(w.cards))
      BY <2>2 DEF Follows
    <2>4. followup' \in Follows(Len(x.cards))
      BY <2>1, <2>3, FollowsGrow
    <2> QED
      BY <2>4 DEF Others, IInv, TypeOK
  <1>3. TasksAgree'
    <2>1. TasksAgree /\ followup \in [Followups -> [at : Phases, card : 0..Len(cards), reaction : BOOLEAN]]
      BY DEF IInv, TypeOK
    <2>2. \A e \in Followups : followup'[e].at = "awaiting" => followup'[e].card # NoCard
      BY <2>1 DEF TasksAgree
    <2>3. state'.closed = state.closed
      BY DEF Leads, Current
    <2> QED
      BY <2>1, <2>2, <2>3 DEF TasksAgree
  <1>4. Arriving(x)'
    BY <1>2, <1>3 DEF Arriving, Leads, Current
  <1> QED
    BY <1>4, Arrived

(* A follow-up that starts the stream again puts all that was told before. *)
LEMMA RestartedHistory ==
  ASSUME CodexTypes, UNCHANGED codexVars, resumed' = Resumed
  PROVE  CodexTypes' /\ IF state.closed THEN History' = History ELSE Restart(History, History')
  <1>1. /\ produced' = produced /\ message' = message /\ commands' = commands
        /\ withdrawn' = withdrawn /\ retold' = retold
        /\ resumed' = IF state.closed THEN resumed ELSE produced
    BY DEF codexVars, Resumed
  <1>2. /\ produced \in 0..MaxOutput /\ MaxOutput \in Nat /\ resumed \in 0..produced
        /\ message \cup commands \cup withdrawn \subseteq 1..produced /\ retold \subseteq 1..resumed
    BY ReplyStreamAssumption DEF CodexTypes
  <1>3. CodexTypes'
    <2>1. resumed' \in 0..produced /\ 1..resumed \subseteq 1..resumed'
      BY <1>1, <1>2
    <2> QED
      BY <1>1, <1>2, <2>1 DEF CodexTypes
  <1>4. HistoryTyped /\ HistoryTyped'
    BY <1>3, HistoryType, HistoryTypeNext
  <1>5. CASE state.closed
    BY <1>1, <1>3, <1>5 DEF History
  <1>6. CASE ~state.closed
    BY <1>1, <1>3, <1>4, <1>6 DEF Restart, HistoryTyped
  <1> QED
    BY <1>5, <1>6

LEMMA StartFollowupStep ==
  ASSUME IInv, NEW f \in Followups, StartFollowup(f)
  PROVE  IInv'
  <1> PICK w : w = World
    OBVIOUS
  <1>1. Current(w)
    BY CurrentWorld
  <1> PICK v, h : v = Holding(w, Unscheduled(w.s)) /\ h = History
    OBVIOUS
  <1> PICK read : read = [at |-> "done", card |-> w.s.card, reaction |-> w.s.reaction]
    OBVIOUS
  <1> PICK waiting : waiting = [read EXCEPT !.at = "awaiting"]
    OBVIOUS
  <1>2. ~w.s.closed /\ w.s = state /\ UNCHANGED <<finalizer, turn>> /\ UNCHANGED codexVars
    BY <1>1, Zenon DEF StartFollowup, Current
  <1>3. \/ /\ state.flushTask /\ sleepers' = sleepers - 1 /\ Become({v})
           /\ followup' = [followup EXCEPT ![f] = waiting] /\ resumed' = resumed
        \/ /\ sleepers' = sleepers /\ Become(FollowedUp(v, read))
           /\ followup' = [followup EXCEPT ![f] = read] /\ resumed' = Resumed
    <2>1. v = [World EXCEPT !.s.flushTask = FALSE]
      BY Zenon DEF Holding, Unscheduled
    <2>2. read = [at |-> "done", card |-> state.card, reaction |-> state.reaction]
      BY <1>2, Zenon
    <2> QED
      BY <2>1, <2>2, Zenon DEF StartFollowup
  <1>4. /\ sleepers \in Nat /\ (state.flushTask => sleepers > 0 /\ state.card # NoCard)
        /\ h \in Histories /\ CodexTypes
    BY <1>1 DEF IInv, TypeOK, Current, CodexTypes
  <1>5. Sound(w, h)
    BY <1>1 DEF Current
  <1>6. /\ Sound(v, h) /\ v.s.closed = w.s.closed /\ v.cards = w.cards /\ v.s.card = w.s.card
        /\ (Tidy(w) => Tidy(v)) /\ (Over(w) => Over(v)) /\ (SaysFailed(w) => SaysFailed(v))
        /\ ~v.s.flushTask
    BY <1>5, TaskKeeps
  <1>7. /\ Len(w.cards) \in Nat /\ w.s.card \in 0..Len(w.cards) /\ w.s.reaction \in BOOLEAN
        /\ Len(w.cards) <= Len(v.cards)
    <2>1. w.s.card \in 0..Len(w.cards) /\ w.s.reaction \in BOOLEAN
      BY <1>5, WorldTypes DEF Sound
    <2>2. Len(w.cards) \in Nat
      BY <1>1, LengthTypes DEF Current
    <2> QED
      BY <1>6, <2>1, <2>2
  <1>8. /\ read \in [at : Phases, card : 0..Len(w.cards), reaction : BOOLEAN]
        /\ waiting \in [at : Phases, card : 0..Len(w.cards), reaction : BOOLEAN]
        /\ read.at = "done" /\ waiting.at = "awaiting"
        /\ read.card = w.s.card /\ waiting.card = w.s.card /\ read.reaction = w.s.reaction
    BY <1>7 DEF Phases
  <1>9. CASE /\ state.flushTask /\ sleepers' = sleepers - 1 /\ Become({v})
             /\ followup' = [followup EXCEPT ![f] = waiting] /\ resumed' = resumed
    <2>1. Leads(v)
      BY <1>9, Zenon DEF Become, Leads
    <2>2. sleepers' \in Nat /\ waiting.card # NoCard
      BY <1>2, <1>4, <1>8, <1>9
    <2>3. h = History' /\ CodexTypes' /\ Sound(v, h)
      BY <1>2, <1>4, <1>6, <1>9, SameHistory
    <2> QED
      BY <1>1, <1>2, <1>6, <1>7, <1>8, <1>9, <2>1, <2>2, <2>3, FollowupStep
  <1>10. CASE /\ sleepers' = sleepers /\ Become(FollowedUp(v, read))
              /\ followup' = [followup EXCEPT ![f] = read] /\ resumed' = Resumed
    <2>1. PICK x \in FollowedUp(v, read) : Leads(x)
      BY <1>10, Zenon DEF Become, Leads
    <2>2. /\ read.card \in 0..Len(v.cards) /\ read.reaction \in BOOLEAN
          /\ read.card = NoCard => v.s.card = NoCard /\ ~v.s.closed
      BY <1>2, <1>6, <1>7, <1>8
    <2> PICK g : g = History'
      OBVIOUS
    <2>6. CodexTypes' /\ (IF v.s.closed THEN g = h ELSE Restart(h, g))
      BY <1>2, <1>4, <1>6, <1>10, RestartedHistory
    <2>3. /\ Sound(x, g) /\ x.s.closed = v.s.closed /\ Len(v.cards) <= Len(x.cards)
          /\ Tidy(v) => Tidy(x)
          /\ Over(v) => Over(x)
          /\ SaysFailed(v) => SaysFailed(x)
          /\ ~x.s.flushTask
      <3>1. h \in Histories /\ Sound(v, h)
        BY <1>4, <1>6
      <3> QED
        BY ONLY <2>1, <2>2, <2>6, <3>1, FollowedUpKeeps
    <2>4. sleepers' \in Nat /\ x.s.closed = w.s.closed /\ Len(w.cards) <= Len(x.cards)
      BY <1>4, <1>6, <1>10, <2>3
    <2>5. (Tidy(w) => Tidy(x)) /\ (Over(w) => Over(x)) /\ (SaysFailed(w) => SaysFailed(x))
      BY <1>6, <2>3
    <2> QED
      BY <1>1, <1>2, <1>8, <1>10, <2>1, <2>3, <2>4, <2>5, <2>6, FollowupStep
  <1> QED
    BY <1>3, <1>9, <1>10

LEMMA ResumeFollowupStep ==
  ASSUME IInv, NEW f \in Followups, ResumeFollowup(f)
  PROVE  IInv'
  <1> PICK w : w = World
    OBVIOUS
  <1>1. Current(w)
    BY CurrentWorld
  <1> PICK read, h : read = followup[f] /\ h = History
    OBVIOUS
  <1> PICK over : over = [read EXCEPT !.at = "done"]
    OBVIOUS
  <1>2. /\ read.at = "awaiting" /\ Become(FollowedUp(w, read))
        /\ UNCHANGED <<sleepers, finalizer, turn>> /\ UNCHANGED codexVars /\ resumed' = Resumed
        /\ followup' = [followup EXCEPT ![f] = over]
    BY DEF ResumeFollowup
  <1>3. /\ sleepers \in Nat /\ h \in Histories /\ w.cards = cards /\ w.s = state
        /\ followup \in [Followups -> [at : Phases, card : 0..Len(cards), reaction : BOOLEAN]]
        /\ TasksAgree /\ CodexTypes
    BY <1>1 DEF IInv, TypeOK, Current, CodexTypes
  <1>4. /\ read \in [at : Phases, card : 0..Len(w.cards), reaction : BOOLEAN]
        /\ read.card \in 0..Len(w.cards) /\ read.reaction \in BOOLEAN /\ read.card # NoCard
    BY <1>2, <1>3 DEF TasksAgree
  <1>5. over \in [at : Phases, card : 0..Len(w.cards), reaction : BOOLEAN] /\ over.at = "done"
    BY <1>4 DEF Phases
  <1>6. Sound(w, h)
    BY <1>1 DEF Current
  <1>7. PICK x \in FollowedUp(w, read) : Leads(x)
    BY <1>2, Zenon DEF Become, Leads
  <1> PICK g : g = History'
    OBVIOUS
  <1>11. CodexTypes' /\ (IF w.s.closed THEN g = h ELSE Restart(h, g))
    BY <1>2, <1>3, RestartedHistory
  <1>8. /\ Sound(x, g) /\ x.s.closed = w.s.closed /\ Len(w.cards) <= Len(x.cards)
        /\ Tidy(w) => Tidy(x)
        /\ Over(w) => Over(x)
        /\ SaysFailed(w) => SaysFailed(x)
        /\ ~x.s.flushTask
    BY <1>3, <1>4, <1>6, <1>7, <1>11, FollowedUpKeeps
  <1>9. sleepers' \in Nat
    BY <1>2, <1>3, <1>8
  <1>10. UNCHANGED <<finalizer, turn>>
    BY <1>2
  <1> QED
    BY <1>1, <1>2, <1>5, <1>7, <1>8, <1>9, <1>10, <1>11, FollowupStep

LEMMA IdleStep ==
  ASSUME IInv, UNCHANGED vars
  PROVE  IInv'
  <1> PICK w : w = World
    OBVIOUS
  <1>1. Current(w)
    BY CurrentWorld
  <1>2. /\ Leads(w) /\ sleepers' = sleepers /\ finalizer' = finalizer /\ followup' = followup
        /\ turn' = turn /\ UNCHANGED <<codexVars, resumed>>
    BY <1>1, Zenon DEF vars, feishuVars, Leads, Current
  <1>7. History' = History /\ CodexTypes'
    BY <1>2, SameHistory DEF IInv, TypeOK, CodexTypes
  <1>3. followup \in Follows(Len(w.cards))
    <2>1. Len(w.cards) \in Nat
      BY <1>1, LengthTypes DEF Current
    <2> QED
      BY <1>1, <2>1, StillFollows DEF Current
  <1>4. Others(w)'
    <2>1. w.s.flushTask => sleepers > 0
      BY <1>1 DEF IInv, TypeOK, Current
    <2> QED
      BY <1>2, <1>3, <1>7, <2>1 DEF Others, IInv, TypeOK
  <1>5. TasksAgree'
    BY <1>1, <1>2 DEF IInv, TasksAgree, Leads, Current
  <1>6. Arriving(w)'
    BY <1>1, <1>2, <1>4, <1>5, <1>7 DEF Arriving, Leads, Current
  <1> QED
    BY <1>6, Arrived

LEMMA NextKeepsIInv ==
  IInv /\ [Next]_vars => IInv'
  <1> SUFFICES ASSUME IInv, [Next]_vars PROVE IInv'
    OBVIOUS
  <1>1. CASE Notified
    BY <1>1, NotificationHears, ListenStep
  <1>3. CASE TimerFires
    BY <1>3, TimerFiresStep
  <1>4. ASSUME NEW outcome \in Outcomes, TurnEnds(outcome) PROVE IInv'
    <2>1. turn = "running" /\ turn' = outcome /\ Finalize("receive loop", outcome)
      BY <1>4 DEF TurnEnds
    <2> PICK p \in Finalizers : p = "receive loop"
      BY DEF Finalizers
    <2> QED
      BY <2>1, FinalizeStep
  <1>5. CASE Shutdown
    <2>1. Finalize("shutdown", "failed") /\ turn' = turn
      BY <1>5 DEF Shutdown
    <2> PICK p \in Finalizers, outcome \in Outcomes : p = "shutdown" /\ outcome = "failed"
      BY DEF Finalizers, Outcomes
    <2> QED
      BY <2>1, FinalizeStep
  <1>6. ASSUME NEW p \in Finalizers, ResumeFinalize(p) PROVE IInv'
    BY <1>6, ResumeFinalizeStep
  <1>7. ASSUME NEW f \in Followups, StartFollowup(f) PROVE IInv'
    BY <1>7, StartFollowupStep
  <1>8. ASSUME NEW f \in Followups, ResumeFollowup(f) PROVE IInv'
    BY <1>8, ResumeFollowupStep
  <1>9. CASE UNCHANGED vars
    BY <1>9, IdleStep
  <1> QED
    BY <1>1, <1>3, <1>4, <1>5, <1>6, <1>7, <1>8, <1>9, Zenon DEF Next, Notified

-----------------------------------------------------------------------------
(* The inductive invariant holds in every state of a reply, with any       *)
(* output, any follow-ups and any number of failing calls.                 *)
THEOREM Invariance == Spec => []IInv
  BY InitEstablishes, NextKeepsIInv, PTL DEF Spec

(* The stream, the cards and the tasks hold values of their types: the     *)
(* stream's card exists, and its flush task is one that still sleeps.      *)
THEOREM TypeCorrect == Spec => []TypeOK
  <1>1. IInv => TypeOK
    BY DEF IInv
  <1> QED
    BY <1>1, Invariance, PTL

(* Flushes, follow-ups and finalizations, in any order, never reuse a      *)
(* sequence number of a card: without failing calls, Feishu refuses none.  *)
THEOREM UpdatesAreAccepted == Spec => []SequencesAreAccepted
  <1>1. IInv => SequencesAreAccepted
    <2>1. World.failures = failures /\ World.refused = refused
      BY DEF World
    <2> QED
      BY <2>1 DEF IInv, Sound, Ahead, SequencesAreAccepted
  <1> QED
    BY <1>1, Invariance, PTL

(* A closed reply shows every piece of output that is not withdrawn, unless*)
(* a call failed.                                                          *)
THEOREM OutputIsComplete == Spec => []AllOutputIsShown
  <1>1. IInv => AllOutputIsShown
    <2>1. /\ World.failures = failures /\ World.cards = cards /\ World.s = state
          /\ History.said = produced /\ History.gone = withdrawn
      BY DEF World, History
    <2> QED
      BY <2>1 DEF IInv, Sound, Kept, AllOutputIsShown, Shown
  <1> QED
    BY <1>1, Invariance, PTL

(* No piece of output is on two cards, even when calls fail, unless Codex  *)
(* told it again after a follow-up had made the stream forget it.          *)
THEOREM OnlyRetoldRepeats == Spec => []OnlyRetoldIsRepeated
  <1>1. IInv => OnlyRetoldIsRepeated
    <2>1. World.cards = cards /\ History.again = retold
      BY DEF World, History
    <2> QED
      BY <2>1 DEF IInv, Sound, Apart, OnlyRetoldIsRepeated
  <1> QED
    BY <1>1, Invariance, PTL

(* Once the turn's own finalization has closed the reply, every card is    *)
(* settled and the typing reaction is gone, whatever follow-ups did while  *)
(* it waited, unless a call failed.                                        *)
THEOREM ClosedRepliesSettle == Spec => []ClosedReplyIsSettled
  <1>1. IInv => ClosedReplyIsSettled
    <2>1. /\ World.failures = failures /\ World.cards = cards /\ World.s = state
          /\ World.typing = typing
      BY DEF World
    <2> QED
      BY <2>1 DEF IInv, Tidy, ClosedReplyIsSettled
  <1> QED
    BY <1>1, Invariance, PTL

(* The failure of a turn is on a card of its closed reply, even when a     *)
(* follow-up took the card away that was to show it, unless a call failed. *)
THEOREM FailuresAreVisible == Spec => []FailureIsVisible
  <1>1. IInv => FailureIsVisible
    <2>1. World.failures = failures /\ World.cards = cards /\ World.s = state
      BY DEF World
    <2> QED
      BY <2>1 DEF IInv, SaysFailed, FailureIsVisible
  <1> QED
    BY <1>1, Invariance, PTL
=============================================================================
