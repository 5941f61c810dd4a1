-------------------------- MODULE ReplyCardsProofs --------------------------
(* ReplyStream implements ReplyCards: what the chat sees of the cards grows*)
(* from top to bottom, but for what Codex withdraws or tells again,        *)
(* whatever shares the stream, for any amount of output, any follow-ups    *)
(* and any number of failing calls.                                        *)
EXTENDS ReplyStreamProofs, SequenceTheorems

-----------------------------------------------------------------------------
(* What the cards of a world show, and the steps of ReplyCards on such     *)
(* sequences.                                                              *)
ShownOn(w) == [i \in DOMAIN w.cards |-> w.cards[i].shown]

After(s, text, n, again) ==
  \A i \in 1..n : \A earlier \in s[i] : \A piece \in text :
    piece \in again \cup {ErrorText} \/ earlier < piece

Extended(s, t, text, h) ==
  /\ Len(s) > 0 /\ s[Len(s)] \ h.gone \subseteq text /\ After(s, text, Len(s) - 1, h.again)
  /\ t = [s EXCEPT ![Len(s)] = text]

Begun(s, t, text, h) == text # {} /\ After(s, text, Len(s), h.again) /\ t = Append(s, text)

ShowsMore(s, t, h) ==
  t = s \/ \E text \in SUBSET (0..h.said) : Extended(s, t, text, h) \/ Begun(s, t, text, h)

(* The invariant beside IInv: the current card is the last one, the text   *)
(* has what it shows, but for what is withdrawn, and comes after what the  *)
(* earlier cards show, but for what is told again.                         *)
Before(w) == IF w.s.card = NoCard THEN Len(w.cards) ELSE w.s.card - 1

InOrder(w, h) ==
  ~w.s.closed =>
    /\ w.s.card # NoCard =>
         w.s.card = Len(w.cards) /\ w.cards[w.s.card].shown \ h.gone \subseteq w.s.text
    /\ After(ShownOn(w), w.s.text, Before(w), h.again)

LEMMA ShownSequence ==
  ASSUME NEW w, w \in Worlds
  PROVE  /\ ShownOn(w) \in Seq(SUBSET Pieces) /\ Len(ShownOn(w)) = Len(w.cards)
         /\ Len(w.cards) \in Nat /\ DOMAIN w.cards = 1..Len(w.cards)
         /\ \A i \in 1..Len(w.cards) : ShownOn(w)[i] = w.cards[i].shown
  <1>1. w.cards \in Seq(Cards)
    BY DEF Worlds
  <1>2. /\ Len(w.cards) \in Nat /\ DOMAIN w.cards = 1..Len(w.cards)
        /\ \A i \in 1..Len(w.cards) : w.cards[i] \in Cards
    BY <1>1
  <1>3. \A i \in 1..Len(w.cards) : w.cards[i].shown \in SUBSET Pieces
    BY <1>2 DEF Cards
  <1>4. ShownOn(w) = [i \in 1..Len(w.cards) |-> w.cards[i].shown]
    BY <1>2 DEF ShownOn
  <1>5. ShownOn(w) \in [1..Len(w.cards) -> SUBSET Pieces]
    BY <1>3, <1>4
  <1>6. ShownOn(w) \in Seq(SUBSET Pieces) /\ Len(ShownOn(w)) = Len(w.cards)
    BY <1>2, <1>5
  <1> QED
    BY <1>2, <1>4, <1>6

LEMMA SameShown ==
  ASSUME NEW w, NEW x, DOMAIN x.cards = DOMAIN w.cards,
         \A i \in DOMAIN w.cards : x.cards[i].shown = w.cards[i].shown
  PROVE  ShownOn(x) = ShownOn(w)
  BY DEF ShownOn

(* What calls on the current card may do to what is shown: the text goes   *)
(* to a card of its own, or replaces what the current card shows.          *)
Puts(w, x) ==
  /\ x.s.text = w.s.text /\ x.s.closed = w.s.closed /\ (x.failures = 0 => w.failures = 0)
  /\ \/ x.s.card = w.s.card /\ ShownOn(x) = ShownOn(w)
     \/ /\ ~w.s.closed /\ w.s.card # NoCard /\ x.s.card = w.s.card
        /\ ShownOn(x) = [ShownOn(w) EXCEPT ![w.s.card] = w.s.text]
     \/ /\ ~w.s.closed /\ w.s.card = NoCard /\ w.s.text # {} /\ x.s.card = Len(w.cards) + 1
        /\ ShownOn(x) = Append(ShownOn(w), w.s.text)

LEMMA AppendShows ==
  ASSUME NEW w, NEW x, w \in Worlds, x \in Worlds, NEW k \in Cards, x.cards = Append(w.cards, k)
  PROVE  ShownOn(x) = Append(ShownOn(w), k.shown) /\ Len(x.cards) = Len(w.cards) + 1
  <1>1. w.cards \in Seq(Cards) /\ Len(w.cards) \in Nat
    BY ShownSequence DEF Worlds
  <1>2. /\ Len(x.cards) = Len(w.cards) + 1 /\ x.cards[Len(w.cards) + 1] = k
        /\ \A i \in 1..Len(w.cards) : x.cards[i] = w.cards[i]
    BY <1>1
  <1>3. k.shown \in SUBSET Pieces
    BY DEF Cards
  <1>4. /\ ShownOn(w) \in Seq(SUBSET Pieces) /\ Len(ShownOn(w)) = Len(w.cards)
        /\ \A i \in 1..Len(w.cards) : ShownOn(w)[i] = w.cards[i].shown
    BY ShownSequence
  <1>5. /\ ShownOn(x) \in Seq(SUBSET Pieces) /\ Len(ShownOn(x)) = Len(x.cards)
        /\ \A i \in 1..Len(x.cards) : ShownOn(x)[i] = x.cards[i].shown
    BY ShownSequence
  <1>6. ShownOn(x)[Len(w.cards) + 1] = k.shown
    BY <1>1, <1>2, <1>5
  <1>7. \A i \in 1..Len(w.cards) : ShownOn(x)[i] = ShownOn(w)[i]
    BY <1>1, <1>2, <1>4, <1>5
  <1> QED
    BY <1>1, <1>2, <1>3, <1>4, <1>5, <1>6, <1>7

LEMMA RedrawShows ==
  ASSUME NEW w, NEW x, w \in Worlds, x \in Worlds, NEW k \in Cards, NEW i \in 1..Len(w.cards),
         x.cards = [w.cards EXCEPT ![i] = k]
  PROVE  ShownOn(x) = [ShownOn(w) EXCEPT ![i] = k.shown]
  <1>1. DOMAIN x.cards = DOMAIN w.cards /\ DOMAIN w.cards = 1..Len(w.cards)
    BY ShownSequence
  <1>2. x.cards[i] = k /\ \A j \in DOMAIN w.cards : j # i => x.cards[j] = w.cards[j]
    BY <1>1
  <1> QED
    BY <1>1, <1>2 DEF ShownOn

LEMMA MovesPut ==
  ASSUME NEW w, WellFormed(w), NEW x, Moves(w, x)
  PROVE  Puts(w, x)
  <1>1. w \in Worlds /\ x \in Worlds /\ (w.s.card # NoCard => w.s.card \in 1..Len(w.cards))
    BY WorldTypes DEF Moves, Leaves
  <1>2. x.s.text = w.s.text /\ x.s.closed = w.s.closed /\ (x.failures = 0 => w.failures = 0)
    BY DEF Moves, Leaves
  <1>3. CASE Stays(w, x)
    <2>1. ShownOn(x) = ShownOn(w) /\ x.s.card = w.s.card
      BY <1>3 DEF Stays, ShownOn
    <2> QED
      BY <1>2, <2>1 DEF Puts
  <1>4. ASSUME NEW k \in Cards, Creates(w, x, k)
        PROVE  Puts(w, x)
    <2>1. /\ ~w.s.closed /\ w.s.card = NoCard /\ w.s.text # {} /\ x.s.card = Len(w.cards) + 1
          /\ x.cards = Append(w.cards, k) /\ k.shown = w.s.text
      BY <1>4 DEF Creates
    <2>2. ShownOn(x) = Append(ShownOn(w), k.shown)
      BY <1>1, <2>1, AppendShows
    <2> QED
      BY <1>2, <2>1, <2>2, Zenon DEF Puts
  <1>5. ASSUME NEW k \in Cards, Redraws(w, x, k)
        PROVE  Puts(w, x)
    <2>1. /\ ~w.s.closed /\ w.s.card # NoCard /\ x.s.card = w.s.card
          /\ x.cards = [w.cards EXCEPT ![w.s.card] = k]
          /\ k.shown = w.s.text \/ k.shown = w.cards[w.s.card].shown
      BY <1>5 DEF Redraws
    <2>2. ShownOn(x) = [ShownOn(w) EXCEPT ![w.s.card] = k.shown]
      BY <1>1, <2>1, RedrawShows
    <2>3. k.shown = w.cards[w.s.card].shown => ShownOn(x) = ShownOn(w)
      BY <1>1, <2>1, <2>2, ShownSequence
    <2> QED
      BY <1>2, <2>1, <2>2, <2>3, Zenon DEF Puts
  <1> QED
    BY <1>3, <1>4, <1>5 DEF Moves

LEMMA LastAgain ==
  ASSUME NEW S, NEW s \in Seq(S), NEW e \in S
  PROVE  [Append(s, e) EXCEPT ![Len(s) + 1] = e] = Append(s, e)
  <1> PICK f : f = Append(s, e)
    OBVIOUS
  <1>1. f \in Seq(S) /\ Len(f) = Len(s) + 1 /\ f[Len(s) + 1] = e /\ Len(s) \in Nat
    OBVIOUS
  <1> PICK n \in 1..Len(f) : n = Len(s) + 1
    BY <1>1
  <1> PICK g : g = [f EXCEPT ![n] = e]
    OBVIOUS
  <1>2. /\ g \in Seq(S) /\ Len(g) = Len(f)
        /\ \A i \in 1..Len(f) : g[i] = IF i = n THEN e ELSE f[i]
    <2>1. /\ [f EXCEPT ![n] = e] \in Seq(S) /\ Len([f EXCEPT ![n] = e]) = Len(f)
          /\ \A i \in 1..Len(f) : [f EXCEPT ![n] = e][i] = IF i = n THEN e ELSE f[i]
      BY ONLY f \in Seq(S), n \in 1..Len(f), e \in S, ExceptSeq
    <2> QED
      BY <2>1, Zenon
  <1>3. \A i \in 1..Len(g) : g[i] = f[i]
    BY <1>1, <1>2, Zenon
  <1>4. g = f
    BY <1>1, <1>2, <1>3, SeqEqual, Zenon
  <1> QED
    BY <1>4

LEMMA PutsTwice ==
  ASSUME NEW w, NEW y, NEW x, WellFormed(w), y \in Worlds, x \in Worlds, Puts(w, y), Puts(y, x)
  PROVE  Puts(w, x)
  <1>1. /\ x.s.text = w.s.text /\ x.s.closed = w.s.closed /\ (x.failures = 0 => w.failures = 0)
        /\ y.s.text = w.s.text /\ y.s.closed = w.s.closed
    BY DEF Puts
  <1>2. /\ ShownOn(w) \in Seq(SUBSET Pieces) /\ Len(ShownOn(w)) = Len(w.cards) /\ Len(w.cards) \in Nat
        /\ w.s.text \in SUBSET Pieces /\ (w.s.card # NoCard => w.s.card \in 1..Len(w.cards))
    BY ShownSequence, WorldTypes DEF WellFormed
  <1>3. CASE x.s.card = y.s.card /\ ShownOn(x) = ShownOn(y)
    BY <1>1, <1>3, Zenon DEF Puts
  <1>4. CASE ~y.s.closed /\ y.s.card # NoCard /\ x.s.card = y.s.card
             /\ ShownOn(x) = [ShownOn(y) EXCEPT ![y.s.card] = y.s.text]
    <2>1. CASE y.s.card = w.s.card /\ ShownOn(y) = ShownOn(w)
      BY <1>1, <1>4, <2>1, Zenon DEF Puts
    <2>2. CASE w.s.card # NoCard /\ y.s.card = w.s.card
               /\ ShownOn(y) = [ShownOn(w) EXCEPT ![w.s.card] = w.s.text]
      <3>1. ShownOn(x) = [ShownOn(w) EXCEPT ![w.s.card] = w.s.text]
        BY <1>1, <1>2, <1>4, <2>2
      <3> QED
        BY <1>1, <1>4, <2>2, <3>1, Zenon DEF Puts
    <2>3. CASE /\ w.s.card = NoCard /\ w.s.text # {} /\ y.s.card = Len(w.cards) + 1
               /\ ShownOn(y) = Append(ShownOn(w), w.s.text)
      <3>1. ShownOn(x) = Append(ShownOn(w), w.s.text)
        <4>1. ShownOn(x) = [Append(ShownOn(w), w.s.text) EXCEPT ![Len(ShownOn(w)) + 1] = w.s.text]
          BY <1>1, <1>2, <1>4, <2>3, Zenon
        <4>2. ShownOn(w) \in Seq(SUBSET Pieces) /\ w.s.text \in SUBSET Pieces
          BY <1>2, Zenon
        <4>3. [Append(ShownOn(w), w.s.text) EXCEPT ![Len(ShownOn(w)) + 1] = w.s.text] =
                Append(ShownOn(w), w.s.text)
          BY ONLY <4>2, LastAgain
        <4> QED
          BY <4>1, <4>3, Zenon
      <3> QED
        BY <1>1, <1>4, <2>3, <3>1, Zenon DEF Puts
    <2> QED
      BY <2>1, <2>2, <2>3 DEF Puts
  <1>5. CASE /\ ~y.s.closed /\ y.s.card = NoCard /\ y.s.text # {} /\ x.s.card = Len(y.cards) + 1
             /\ ShownOn(x) = Append(ShownOn(y), y.s.text)
    <2>1. y.s.card = w.s.card /\ ShownOn(y) = ShownOn(w)
      BY <1>2, <1>5 DEF Puts, NoCard
    <2>2. Len(y.cards) = Len(w.cards)
      BY <1>2, <2>1, ShownSequence
    <2> QED
      BY <1>1, <1>5, <2>1, <2>2, Zenon DEF Puts
  <1> QED
    BY <1>3, <1>4, <1>5 DEF Puts

(* Calls on the current card are a step of ReplyCards.                     *)
LEMMA PutsShowMore ==
  ASSUME NEW w, WellFormed(w), NEW h, InOrder(w, h), w.s.text \subseteq 0..h.said,
         NEW x, x \in Worlds, Puts(w, x)
  PROVE  ShowsMore(ShownOn(w), ShownOn(x), h) /\ InOrder(x, h) /\ (w.s.closed => ShownOn(x) = ShownOn(w))
  <1>1. /\ ShownOn(w) \in Seq(SUBSET Pieces) /\ Len(ShownOn(w)) = Len(w.cards) /\ Len(w.cards) \in Nat
        /\ w.s.text \in SUBSET Pieces /\ (w.s.card # NoCard => w.s.card \in 1..Len(w.cards))
        /\ \A i \in 1..Len(w.cards) : ShownOn(w)[i] = w.cards[i].shown
    BY ShownSequence, WorldTypes DEF WellFormed
  <1>2. /\ ShownOn(x) \in Seq(SUBSET Pieces) /\ Len(ShownOn(x)) = Len(x.cards) /\ Len(x.cards) \in Nat
        /\ \A i \in 1..Len(x.cards) : ShownOn(x)[i] = x.cards[i].shown
    BY ShownSequence
  <1>3. x.s.text = w.s.text /\ x.s.closed = w.s.closed
    BY DEF Puts
  <1>4. CASE x.s.card = w.s.card /\ ShownOn(x) = ShownOn(w)
    <2>1. Len(x.cards) = Len(w.cards)
      BY <1>1, <1>2, <1>4
    <2>2. Before(x) = Before(w)
      BY <1>4, <2>1 DEF Before
    <2>3. x.s.card # NoCard => x.cards[x.s.card].shown = w.cards[w.s.card].shown
      BY <1>1, <1>2, <1>4, <2>1
    <2>4. InOrder(x, h)
      BY <1>3, <1>4, <2>1, <2>2, <2>3, Zenon DEF InOrder
    <2> QED
      BY <1>4, <2>4 DEF ShowsMore
  <1>5. CASE /\ ~w.s.closed /\ w.s.card # NoCard /\ x.s.card = w.s.card
             /\ ShownOn(x) = [ShownOn(w) EXCEPT ![w.s.card] = w.s.text]
    <2>1. /\ w.s.card = Len(w.cards) /\ w.cards[w.s.card].shown \ h.gone \subseteq w.s.text
          /\ After(ShownOn(w), w.s.text, w.s.card - 1, h.again)
      BY <1>5 DEF InOrder, Before
    <2>2. Extended(ShownOn(w), ShownOn(x), w.s.text, h)
      BY <1>1, <1>5, <2>1 DEF Extended
    <2>3. Len(x.cards) = Len(w.cards) /\ x.cards[x.s.card].shown = w.s.text
      BY <1>1, <1>2, <1>5
    <2>4. After(ShownOn(x), w.s.text, w.s.card - 1, h.again)
      <3>1. \A i \in 1..(w.s.card - 1) : ShownOn(x)[i] = ShownOn(w)[i]
        BY <1>1, <1>5
      <3> QED
        BY <2>1, <3>1 DEF After
    <2>5. InOrder(x, h)
      BY <1>3, <1>5, <2>1, <2>3, <2>4 DEF InOrder, Before
    <2> QED
      BY <1>5, <2>2, <2>5 DEF ShowsMore
  <1>6. CASE /\ ~w.s.closed /\ w.s.card = NoCard /\ w.s.text # {} /\ x.s.card = Len(w.cards) + 1
             /\ ShownOn(x) = Append(ShownOn(w), w.s.text)
    <2>1. After(ShownOn(w), w.s.text, Len(w.cards), h.again)
      BY <1>6 DEF InOrder, Before
    <2>2. Begun(ShownOn(w), ShownOn(x), w.s.text, h)
      BY <1>1, <1>6, <2>1 DEF Begun
    <2>3. Len(x.cards) = Len(w.cards) + 1 /\ ShownOn(x)[x.s.card] = w.s.text
      BY <1>1, <1>2, <1>6
    <2>4. x.cards[x.s.card].shown = w.s.text
      BY <1>1, <1>2, <1>6, <2>3
    <2>5. After(ShownOn(x), w.s.text, Len(w.cards), h.again)
      <3>1. \A i \in 1..Len(w.cards) : ShownOn(x)[i] = ShownOn(w)[i]
        BY <1>1, <1>6
      <3> QED
        BY <2>1, <3>1 DEF After
    <2>6. Before(x) = Len(w.cards)
      BY <1>1, <1>6 DEF Before, NoCard
    <2>7. InOrder(x, h)
      BY <1>3, <1>6, <2>3, <2>4, <2>5, <2>6, Zenon DEF InOrder
    <2> QED
      BY <1>6, <2>2, <2>7 DEF ShowsMore
  <1> QED
    BY <1>4, <1>5, <1>6 DEF Puts

-----------------------------------------------------------------------------
(* What a step does to the cards: a closed stream may still get a failure  *)
(* card, an open one shows more.                                           *)
Continues(w, x, h) ==
  /\ x \in Worlds /\ InOrder(x, h) /\ (x.failures = 0 => w.failures = 0)
  /\ IF w.s.closed
     THEN x.s.closed /\ ShownOn(x) \in {ShownOn(w), Append(ShownOn(w), {ErrorText})}
     ELSE ShowsMore(ShownOn(w), ShownOn(x), h)

LEMMA FlushContinues ==
  ASSUME NEW w, WellFormed(w), NEW h, InOrder(w, h), w.s.text \subseteq 0..h.said,
         NEW force \in BOOLEAN, NEW x \in Flush(w, force)
  PROVE  Continues(w, x, h) /\ x.s.closed = w.s.closed
  <1>1. Moves(w, x)
    BY FlushMoves
  <1>2. Puts(w, x) /\ x \in Worlds
    BY <1>1, MovesPut DEF Moves, Leaves
  <1>3. ShowsMore(ShownOn(w), ShownOn(x), h) /\ InOrder(x, h) /\ (w.s.closed => ShownOn(x) = ShownOn(w))
    BY <1>2, PutsShowMore
  <1> QED
    BY <1>2, <1>3 DEF Continues, Puts

LEMMA FlushAndClosePuts ==
  ASSUME NEW w, NEW h, Sound(w, h), NEW x \in FlushAndClose(w)
  PROVE  Puts(w, x) /\ x \in Worlds
  <1>1. PICK y \in Flush(w, TRUE) : x \in CloseStreaming(y)
    BY DEF FlushAndClose
  <1>2. WellFormed(w)
    BY DEF Sound
  <1>3. Moves(w, y)
    BY <1>2, FlushMoves
  <1>4. WellFormed(y)
    BY <1>2, <1>3, MovedCards
  <1>5. Moves(y, x)
    BY <1>1, <1>4, CloseStreamingMoves
  <1>6. y \in Worlds /\ x \in Worlds
    BY <1>3, <1>5 DEF Moves, Leaves
  <1>7. Puts(w, y) /\ Puts(y, x)
    BY <1>2, <1>3, <1>4, <1>5, MovesPut
  <1> QED
    BY <1>2, <1>6, <1>7, PutsTwice

(* _finalize_state, of a stream that may have been closed meanwhile.       *)
LEMMA FinalizedContinues ==
  ASSUME NEW w, NEW h \in Histories, Sound(w, h), InOrder(w, h),
         NEW outcome \in Outcomes, NEW x \in Finalized(w, outcome)
  PROVE  Continues(w, x, h) /\ x.s.closed
  <1> DEFINE Ends(y) == \E z \in RemoveReaction(y) : x = CloseStream(z, outcome)
  <1>1. \/ /\ w.s.card = NoCard
           /\ \E v \in SendFailureCard(w) : \E y \in CloseStreaming(v) : Ends(y)
        \/ \E y \in FlushAndClose(w) : Ends(y)
    BY DEF Finalized
  <1> HIDE DEF Ends
  <1>2. WellFormed(w) /\ w \in Worlds /\ w.s.text \subseteq 0..h.said
    BY DEF Sound, Apart, WellFormed
  <1>3. \E y : /\ Ends(y) /\ y \in Worlds /\ y.s.card \in 0..Len(y.cards) /\ (y.failures = 0 => w.failures = 0)
               /\ w.s.closed => ShownOn(y) \in {ShownOn(w), Append(ShownOn(w), {ErrorText})}
               /\ ~w.s.closed => ShowsMore(ShownOn(w), ShownOn(y), h)
    <2>1. CASE /\ w.s.card = NoCard
               /\ \E v \in SendFailureCard(w) : \E y \in CloseStreaming(v) : Ends(y)
      <3>1. PICK v \in SendFailureCard(w) : \E y \in CloseStreaming(v) : Ends(y)
        BY <2>1
      <3>2. PICK y \in CloseStreaming(v) : Ends(y)
        BY <3>1
      <3>3. PICK k \in Cards :
              k.shown = {ErrorText} /\ k.status = "failed" /\ IsSettled(k) /\ Reports(w, y, k)
        BY <1>2, <2>1, FailureReported
      <3>4. /\ y \in Worlds /\ (y.failures = 0 => w.failures = 0)
            /\ \/ y.cards = w.cards /\ y.s.card = NoCard
               \/ y.cards = Append(w.cards, k) /\ y.s.card \in {NoCard, Len(w.cards) + 1}
        BY <3>3 DEF Reports
      <3>5. CASE y.cards = w.cards /\ y.s.card = NoCard
        <4>1. ShownOn(y) = ShownOn(w)
          BY <3>5 DEF ShownOn
        <4>2. y.s.card \in 0..Len(y.cards)
          BY <3>4, <3>5, ShownSequence DEF NoCard
        <4> QED
          BY <3>2, <3>4, <4>1, <4>2, Zenon DEF ShowsMore
      <3>6. CASE y.cards = Append(w.cards, k) /\ y.s.card \in {NoCard, Len(w.cards) + 1}
        <4>1. ShownOn(y) = Append(ShownOn(w), {ErrorText}) /\ Len(y.cards) = Len(w.cards) + 1
          BY <1>2, <3>3, <3>4, <3>6, AppendShows
        <4>2. y.s.card \in 0..Len(y.cards)
          BY <1>2, <3>6, <4>1, ShownSequence DEF NoCard
        <4>3. Begun(ShownOn(w), ShownOn(y), {ErrorText}, h) /\ {ErrorText} \in SUBSET (0..h.said)
          <5>1. 0 \in 0..h.said
            BY DEF Histories
          <5> QED
            BY <4>1, <5>1 DEF Begun, After, ErrorText
        <4>4. ShowsMore(ShownOn(w), ShownOn(y), h)
          BY <4>3 DEF ShowsMore
        <4> QED
          BY <3>2, <3>4, <4>1, <4>2, <4>4, Zenon
      <3> QED
        BY <3>4, <3>5, <3>6
    <2>2. CASE \E y \in FlushAndClose(w) : Ends(y)
      <3>1. PICK y \in FlushAndClose(w) : Ends(y)
        BY <2>2
      <3>2. Puts(w, y) /\ y \in Worlds
        BY FlushAndClosePuts
      <3>3. ShowsMore(ShownOn(w), ShownOn(y), h) /\ (w.s.closed => ShownOn(y) = ShownOn(w))
        BY <1>2, <3>2, PutsShowMore
      <3>4. y.s.card \in 0..Len(y.cards) /\ (y.failures = 0 => w.failures = 0)
        BY <3>2, FlushAndCloseKeeps DEF Sound, WellFormed, Puts
      <3> QED
        BY <3>1, <3>2, <3>3, <3>4, Zenon
    <2> QED
      BY <1>1, <2>1, <2>2
  <1>4. PICK y : /\ Ends(y) /\ y \in Worlds /\ y.s.card \in 0..Len(y.cards) /\ (y.failures = 0 => w.failures = 0)
                 /\ w.s.closed => ShownOn(y) \in {ShownOn(w), Append(ShownOn(w), {ErrorText})}
                 /\ ~w.s.closed => ShowsMore(ShownOn(w), ShownOn(y), h)
    BY <1>3
  <1>5. PICK z \in RemoveReaction(y) : x = CloseStream(z, outcome)
    BY <1>4 DEF Ends
  <1>6. z \in Worlds /\ z.s = y.s /\ z.cards = y.cards /\ (z.failures = 0 => y.failures = 0)
    BY <1>4, <1>5, RemovedReaction
  <1>7. ClosedOff(z, x, outcome)
    BY <1>4, <1>5, <1>6, ClosedStream
  <1>8. x \in Worlds /\ x.s.closed /\ x.failures = z.failures
    BY <1>7 DEF ClosedOff
  <1>9. ShownOn(x) = ShownOn(y)
    <2>1. DOMAIN x.cards = DOMAIN z.cards /\ \A i \in DOMAIN z.cards : x.cards[i].shown = z.cards[i].shown
      BY <1>7 DEF ClosedOff
    <2> QED
      BY <1>6, <2>1, SameShown
  <1>10. InOrder(x, h)
    BY <1>8 DEF InOrder
  <1> QED
    BY <1>4, <1>6, <1>8, <1>9, <1>10, Zenon DEF Continues

-----------------------------------------------------------------------------
(* start_followup_turn, of a stream that may have been closed meanwhile.   *)
LEMMA CompletedShowsMore ==
  ASSUME NEW w, NEW h \in Histories, Sound(w, h), InOrder(w, h), ~w.s.closed, NEW y \in CompleteCurrentCard(w)
  PROVE  /\ y \in Worlds /\ ShowsMore(ShownOn(w), ShownOn(y), h) /\ (y.failures = 0 => w.failures = 0)
         /\ ~y.s.closed
  <1>1. w \in Worlds /\ w.s.text \subseteq 0..h.said
    BY DEF Sound, Apart, WellFormed
  <1>2. CASE w.s.card = NoCard
    <2>1. y = w
      BY <1>2 DEF CompleteCurrentCard
    <2> QED
      BY <1>1, <2>1 DEF ShowsMore
  <1>3. CASE w.s.card # NoCard
    <2> PICK v : v = Holding(w, AsCompleted(w.s))
      OBVIOUS
    <2>1. /\ Sound(v, h) /\ v.cards = w.cards /\ v.failures = w.failures /\ v.s.card = w.s.card
          /\ v.s.text = w.s.text /\ v.s.closed = w.s.closed
          /\ v = [w EXCEPT !.s.status = "completed", !.s.dirty = TRUE]
      BY CompletingKeeps
    <2>2. y \in FlushAndClose(v)
      BY <1>3, <2>1, Zenon DEF CompleteCurrentCard
    <2>3. Puts(v, y) /\ y \in Worlds
      BY <2>1, <2>2, FlushAndClosePuts
    <2>4. InOrder(v, h) /\ ShownOn(v) = ShownOn(w) /\ WellFormed(v)
      BY <2>1 DEF InOrder, ShownOn, Before, Sound
    <2>5. ShowsMore(ShownOn(v), ShownOn(y), h)
      BY <1>1, <2>1, <2>3, <2>4, PutsShowMore
    <2> QED
      BY <2>1, <2>3, <2>4, <2>5 DEF Puts
  <1> QED
    BY <1>2, <1>3

LEMMA RestartedInOrder ==
  ASSUME NEW u, u \in Worlds, ~u.s.closed, NEW h, NEW x, x = Reset(u)
  PROVE  /\ x \in Worlds /\ InOrder(x, h) /\ ShownOn(x) = ShownOn(u) /\ x.failures = u.failures
         /\ ~x.s.closed
  <1>1. u.s \in Streams
    BY DEF Worlds
  <1>2. x = Holding(u, Restarted(u.s))
    BY Zenon DEF Reset, Holding, Restarted
  <1>3. Restarted(u.s) \in Streams /\ Restarted(u.s).card = NoCard /\ Restarted(u.s).text = {} /\ ~Restarted(u.s).closed
    BY <1>1, RestartedStream
  <1>4. x \in Worlds /\ x.s = Restarted(u.s) /\ x.cards = u.cards /\ x.failures = u.failures
    BY <1>2, <1>3, Held
  <1>5. InOrder(x, h)
    BY <1>3, <1>4 DEF InOrder, After
  <1> QED
    BY <1>3, <1>4, <1>5 DEF ShownOn

(* Only what is told, withdrawn and told again matters for the cards.      *)
TellsSame(h, g) == g.said = h.said /\ g.gone = h.gone /\ g.again = h.again

LEMMA ContinuesSame ==
  ASSUME NEW w, NEW x, NEW h, Continues(w, x, h), NEW g, TellsSame(h, g)
  PROVE  Continues(w, x, g)
  <1>1. InOrder(x, h) => InOrder(x, g)
    BY Zenon DEF InOrder, TellsSame
  <1>2. ShowsMore(ShownOn(w), ShownOn(x), h) => ShowsMore(ShownOn(w), ShownOn(x), g)
    BY Zenon DEF ShowsMore, Extended, Begun, TellsSame
  <1> QED
    BY <1>1, <1>2, Zenon DEF Continues

LEMMA FollowedUpContinues ==
  ASSUME NEW w, NEW h \in Histories, Sound(w, h), InOrder(w, h),
         NEW read, read.card \in 0..Len(w.cards), read.reaction \in BOOLEAN,
         read.card = NoCard => w.s.card = NoCard /\ ~w.s.closed,
         NEW x \in FollowedUp(w, read), NEW g, IF w.s.closed THEN g = h ELSE Restart(h, g)
  PROVE  Continues(w, x, g) /\ x.s.closed = w.s.closed
  <1>1. w \in Worlds /\ w.s.text \subseteq 0..h.said /\ Len(w.cards) \in Nat /\ w.s.closed \in BOOLEAN
    <2>1. w \in Worlds /\ w.s.text \subseteq 0..h.said
      BY DEF Sound, Apart, WellFormed
    <2>2. w.s.closed \in BOOLEAN
      BY <2>1 DEF Worlds, Streams
    <2> QED
      BY <2>1, <2>2, ShownSequence
  <1>0. x.s.closed = w.s.closed
    BY FollowedUpKeeps
  <1>2. ASSUME read.card = NoCard PROVE Continues(w, x, h)
    <2>1. x = Reset(w)
      BY <1>2 DEF FollowedUp
    <2>2. x \in Worlds /\ InOrder(x, h) /\ ShownOn(x) = ShownOn(w) /\ x.failures = w.failures
      BY <1>1, <1>2, <2>1, RestartedInOrder
    <2> QED
      BY <1>0, <1>2, <2>2, Zenon DEF Continues, ShowsMore
  <1>3. ASSUME read.card # NoCard PROVE Continues(w, x, h)
    <2>1. PICK y \in CompleteCurrentCard(w) : x = Reset(Supersede(y, read))
      BY <1>3 DEF FollowedUp
    <2> PICK u : u = Supersede(y, read)
      OBVIOUS
    <2>2. CASE w.s.closed
      <3>1. y = w
        BY <2>1, <2>2 DEF CompleteCurrentCard
      <3>2. read.card \in 1..Len(w.cards)
        BY <1>1, <1>3 DEF NoCard
      <3>3. Relabelled(w, u)
        BY <1>1, <3>1, <3>2, SupersededCard
      <3>4. x = u /\ u \in Worlds /\ u.s = w.s /\ u.failures = w.failures
        BY <2>1, <2>2, <3>3 DEF Reset, Relabelled
      <3>5. ShownOn(u) = ShownOn(w)
        <4>1. DOMAIN u.cards = DOMAIN w.cards /\ \A i \in DOMAIN w.cards : u.cards[i].shown = w.cards[i].shown
          BY <3>3 DEF Relabelled
        <4> QED
          BY <4>1, SameShown
      <3>6. InOrder(u, h)
        BY <2>2, <3>4 DEF InOrder
      <3> QED
        BY <1>0, <2>2, <3>4, <3>5, <3>6, Zenon DEF Continues
    <2>3. CASE ~w.s.closed
      <3>1. /\ y \in Worlds /\ ShowsMore(ShownOn(w), ShownOn(y), h) /\ (y.failures = 0 => w.failures = 0)
            /\ ~y.s.closed
        BY <2>1, <2>3, CompletedShowsMore
      <3>2. Len(w.cards) <= Len(y.cards)
        BY <2>1, <2>3, CompletedKeeps
      <3>3. read.card \in 1..Len(y.cards)
        <4>1. Len(y.cards) \in Nat
          BY <3>1, ShownSequence
        <4> QED
          BY <1>1, <1>3, <3>2, <4>1 DEF NoCard
      <3>4. Relabelled(y, u)
        BY <3>1, <3>3, SupersededCard
      <3>5. ShownOn(u) = ShownOn(y)
        <4>1. DOMAIN u.cards = DOMAIN y.cards /\ \A i \in DOMAIN y.cards : u.cards[i].shown = y.cards[i].shown
          BY <3>4 DEF Relabelled
        <4> QED
          BY <4>1, SameShown
      <3>6. u \in Worlds /\ ~u.s.closed /\ u.failures = y.failures /\ x = Reset(u)
        BY <2>1, <3>1, <3>4 DEF Relabelled
      <3>7. x \in Worlds /\ InOrder(x, h) /\ ShownOn(x) = ShownOn(u) /\ x.failures = u.failures
        BY <3>6, RestartedInOrder
      <3> QED
        BY <1>0, <2>3, <3>1, <3>5, <3>6, <3>7, Zenon DEF Continues
    <2> QED
      BY <2>2, <2>3
  <1>4. Continues(w, x, h)
    BY <1>2, <1>3
  <1>5. TellsSame(h, g)
    BY DEF Restart, TellsSame
  <1> QED
    BY <1>0, <1>4, <1>5, ContinuesSame

-----------------------------------------------------------------------------
(* What an action does to the stream before it calls these methods: what is*)
(* added to the text comes next, or is told again; what leaves it is       *)
(* withdrawn.                                                              *)
LEMMA PreparedInOrder ==
  ASSUME NEW w, w \in Worlds, NEW h, InOrder(w, h), NEW g, h.gone \subseteq g.gone, h.again \subseteq g.again,
         NEW v, v.cards = w.cards, v.s.card = w.s.card,
         w.s.closed = v.s.closed, w.s.text \ v.s.text \subseteq g.gone,
         \A piece \in v.s.text :
           \/ piece \in w.s.text \/ piece \in g.again \cup {ErrorText}
           \/ \A i \in DOMAIN w.cards : \A earlier \in w.cards[i].shown : i # w.s.card => earlier < piece
  PROVE  InOrder(v, g) /\ ShownOn(v) = ShownOn(w)
  <1>1. ShownOn(v) = ShownOn(w)
    BY DEF ShownOn
  <1>2. /\ Len(w.cards) \in Nat /\ DOMAIN w.cards = 1..Len(w.cards)
        /\ \A i \in 1..Len(w.cards) : ShownOn(w)[i] = w.cards[i].shown
    BY ShownSequence
  <1>3. SUFFICES ASSUME ~v.s.closed
                 PROVE  /\ v.s.card # NoCard =>
                             v.s.card = Len(v.cards) /\ v.cards[v.s.card].shown \ g.gone \subseteq v.s.text
                        /\ After(ShownOn(v), v.s.text, Before(v), g.again)
    BY <1>1 DEF InOrder
  <1>4. /\ w.s.card # NoCard =>
             w.s.card = Len(w.cards) /\ w.cards[w.s.card].shown \ h.gone \subseteq w.s.text
        /\ After(ShownOn(w), w.s.text, Before(w), h.again)
    BY <1>3 DEF InOrder
  <1>5. Before(v) = Before(w) /\ 1..Before(w) \subseteq 1..Len(w.cards) /\ w.s.card \notin 1..Before(w)
    BY <1>2, <1>4 DEF Before, NoCard
  <1>6. After(ShownOn(v), v.s.text, Before(v), g.again)
    <2> SUFFICES ASSUME NEW i \in 1..Before(w), NEW earlier \in ShownOn(w)[i], NEW piece \in v.s.text,
                        piece \notin g.again \cup {ErrorText}
                 PROVE  earlier < piece
      BY <1>1, <1>5 DEF After
    <2>1. i \in DOMAIN w.cards /\ earlier \in w.cards[i].shown /\ i # w.s.card
      BY <1>2, <1>5
    <2>2. CASE piece \in w.s.text
      BY <1>4, <2>2 DEF After
    <2> QED
      BY <2>1, <2>2
  <1> QED
    BY <1>4, <1>6

(* The same where nothing is told.                                         *)
LEMMA StillInOrder ==
  ASSUME NEW w, w \in Worlds, NEW h, InOrder(w, h), NEW v, v.cards = w.cards, v.s.card = w.s.card,
         w.s.closed = v.s.closed, w.s.text \subseteq v.s.text, v.s.text \subseteq w.s.text \cup {ErrorText}
  PROVE  InOrder(v, h) /\ ShownOn(v) = ShownOn(w)
  <1>1. /\ h.gone \subseteq h.gone /\ h.again \subseteq h.again /\ w.s.text \ v.s.text \subseteq h.gone
        /\ \A piece \in v.s.text : piece \in w.s.text \/ piece \in h.again \cup {ErrorText}
    OBVIOUS
  <1> QED
    BY <1>1, PreparedInOrder, Zenon

LEMMA ContinuesFrom ==
  ASSUME NEW w, NEW v, NEW x, NEW h, ShownOn(v) = ShownOn(w), v.s.closed = w.s.closed,
         v.failures = w.failures, Continues(v, x, h)
  PROVE  Continues(w, x, h)
  BY Zenon DEF Continues

(* What an action makes of the world, and of what is told.                 *)
TellingGrows ==
  /\ produced' \in {produced, produced + 1}
  /\ withdrawn \subseteq withdrawn' /\ retold \subseteq retold' /\ withdrawn' \cup retold' \subseteq 1..produced

Steps(w, x) ==
  /\ Leads(x) /\ Continues(w, x, History')
  /\ codexVars' = codexVars \/ (TellingGrows /\ ~w.s.closed /\ ~x.s.closed)

(* A notification: the stream holds what it has heard.                     *)
LEMMA ScheduleContinues ==
  ASSUME NEW w, w = World, w \in Worlds, NEW v, NEW s, v = Holding(w, s), v.s = s, Schedule(s),
         NEW h, WellFormed(v), InOrder(v, h), v.s.text \subseteq 0..h.said, ~v.s.closed
  PROVE  \E x : Leads(x) /\ Continues(v, x, h) /\ ~x.s.closed
  <1>1. \/ Become({v})
        \/ Become(Flush(v, FALSE))
        \/ Become({Holding(v, Scheduled(v.s))})
    <2>1. v = [World EXCEPT !.s = s]
      BY DEF Holding
    <2>2. [World EXCEPT !.s = [s EXCEPT !.flushTask = TRUE]] = Holding(v, Scheduled(v.s))
      BY <2>1 DEF Holding, Scheduled, World
    <2> QED
      BY <2>1, <2>2, Zenon DEF Schedule
  <1>2. v \in Worlds /\ ShowsMore(ShownOn(v), ShownOn(v), h)
    BY DEF WellFormed, ShowsMore
  <1>3. CASE Become({v})
    <2>1. Leads(v)
      BY <1>3, Zenon DEF Become, Leads
    <2>2. Continues(v, v, h)
      BY <1>2, Zenon DEF Continues
    <2> QED
      BY <2>1, <2>2
  <1>4. CASE Become(Flush(v, FALSE))
    <2> PICK force \in BOOLEAN : force = FALSE
      OBVIOUS
    <2>1. PICK x \in Flush(v, force) : Leads(x)
      BY <1>4, Zenon DEF Become, Leads
    <2>2. Continues(v, x, h) /\ x.s.closed = v.s.closed
      BY <2>1, FlushContinues
    <2> QED
      BY <2>1, <2>2
  <1>5. CASE Become({Holding(v, Scheduled(v.s))})
    <2> PICK x : x = Holding(v, Scheduled(v.s))
      OBVIOUS
    <2>1. Leads(x)
      BY <1>5, Zenon DEF Become, Leads
    <2>2. /\ Scheduled(v.s) \in Streams /\ Scheduled(v.s).text = v.s.text
          /\ Scheduled(v.s).card = v.s.card /\ Scheduled(v.s).closed = v.s.closed
      BY <1>2 DEF Worlds, Streams, Scheduled
    <2>3. /\ x \in Worlds /\ x.cards = v.cards /\ x.failures = v.failures /\ x.s.text = v.s.text
          /\ x.s.card = v.s.card /\ x.s.closed = v.s.closed
      BY <1>2, <2>2, Held
    <2>4. InOrder(x, h) /\ ShownOn(x) = ShownOn(v)
      BY <1>2, <2>3, StillInOrder, Zenon
    <2>5. Continues(v, x, h)
      BY <1>2, <2>3, <2>4, Zenon DEF Continues
    <2> QED
      BY <2>1, <2>3, <2>5
  <1> QED
    BY <1>1, <1>3, <1>4, <1>5

LEMMA ListenContinues ==
  ASSUME IInv, NEW w, w = World, InOrder(w, History), NEW pieces, NEW text, NEW known, NEW seen, NEW dirty,
         Hears(pieces, text, known, seen, dirty)
  PROVE  \E x : Steps(w, x)
  <1> PICK h : h = History
    OBVIOUS
  <1> PICK g : g = History'
    OBVIOUS
  <1> PICK s : s = Heard(w.s, text, known, seen, dirty)
    OBVIOUS
  <1> PICK v : v = Holding(w, s)
    OBVIOUS
  <1>1. /\ h \in Histories /\ Advances(h, g) /\ Sound(w, h) /\ ~w.s.closed /\ w \in Worlds
        /\ Retells(w.s.text, text, h, g) /\ Prepared(w, g, s, v) /\ Schedule(s)
        /\ g.gone = withdrawn' /\ g.again = retold'
        /\ produced' = produced \/ produced' = produced + 1
        /\ retold \subseteq retold' /\ retold' \subseteq 1..produced
    BY Hearing
  <1>2. TellingGrows
    BY <1>1 DEF TellingGrows, Hears
  <1>3. /\ WellFormed(v) /\ Apart(v, g) /\ ~v.s.closed /\ v.s.card = w.s.card /\ v.cards = w.cards /\ v.s = s
    BY <1>1, Zenon DEF Prepared
  <1>4. v.s.text = text /\ v.failures = w.failures
    <2>1. w.s \in Streams /\ v \in Worlds
      BY <1>1, <1>3 DEF Worlds, WellFormed
    <2>2. s.text = text
      BY <2>1 DEF Heard, Streams
    <2>3. v.failures = w.failures
      BY <1>1, <2>1 DEF Worlds, Holding
    <2> QED
      BY <1>3, <2>2, <2>3
  <1>5. InOrder(v, g) /\ ShownOn(v) = ShownOn(w)
    <2>1. /\ v.s.text \subseteq 0..g.said /\ \A n \in v.s.text \ w.s.text : n \in 0..h.before => n \in g.again
          /\ w.s.text \ v.s.text \subseteq g.gone
      BY <1>1, <1>4, Zenon DEF Retells
    <2>2. /\ h.gone \subseteq g.gone /\ h.again \subseteq g.again /\ h.before \in Nat /\ g.said \in Nat
      BY <1>1 DEF Advances, Histories
    <2>3. \A i \in DOMAIN w.cards : i # w.s.card => w.cards[i].shown \subseteq 0..h.before
      BY <1>1 DEF Sound, Apart
    <2>4. ASSUME NEW piece \in v.s.text, piece \notin w.s.text, piece \notin g.again,
                 NEW i \in DOMAIN w.cards, i # w.s.card, NEW earlier \in w.cards[i].shown
          PROVE  earlier < piece
      <3>1. earlier \in 0..h.before /\ piece \in 0..g.said /\ piece \notin 0..h.before
        BY <2>1, <2>3, <2>4
      <3> QED
        BY <2>2, <3>1
    <2>5. \A piece \in v.s.text :
            \/ piece \in w.s.text \/ piece \in g.again \cup {ErrorText}
            \/ \A i \in DOMAIN w.cards : \A earlier \in w.cards[i].shown : i # w.s.card => earlier < piece
      BY <2>4
    <2>6. w.s.closed = v.s.closed
      <3>1. w.s.closed \in BOOLEAN /\ v.s.closed \in BOOLEAN
        BY <1>1, <1>3 DEF Worlds, Streams, WellFormed
      <3> QED
        BY <1>1, <1>3, <3>1
    <2>7. InOrder(w, h) /\ w \in Worlds /\ h.gone \subseteq g.gone /\ h.again \subseteq g.again
          /\ v.cards = w.cards /\ v.s.card = w.s.card /\ w.s.text \ v.s.text \subseteq g.gone
      BY <1>1, <1>3, <2>1, <2>2
    <2> QED
      BY ONLY <2>5, <2>6, <2>7, PreparedInOrder
  <1>6. v.s.text \subseteq 0..g.said
    BY <1>3 DEF Apart
  <1>7. PICK x : Leads(x) /\ Continues(v, x, g) /\ ~x.s.closed
    BY <1>1, <1>3, <1>5, <1>6, ScheduleContinues, Zenon
  <1>8. Continues(w, x, g)
    BY <1>1, <1>3, <1>4, <1>5, <1>7, Zenon DEF Continues
  <1> QED
    BY <1>1, <1>2, <1>7, <1>8, Zenon DEF Steps

LEMMA TimerFiresContinues ==
  ASSUME IInv, NEW w, w = World, Current(w), InOrder(w, History), TimerFires
  PROVE  \E x : Steps(w, x)
  <1> PICK h : h = History
    OBVIOUS
  <1>0. codexVars' = codexVars /\ History' = h
    BY SameHistory DEF TimerFires
  <1>1. Become(IF state.closed THEN {w} ELSE Flush(w, FALSE))
    BY Zenon DEF TimerFires
  <1>2. w.s = state /\ WellFormed(w) /\ w \in Worlds /\ w.s.text \subseteq 0..h.said
    BY DEF Current, Sound, Apart
  <1>3. PICK x : /\ Leads(x)
                 /\ \/ w.s.closed /\ x = w
                    \/ ~w.s.closed /\ x \in Flush(w, FALSE)
    BY <1>1, <1>2, Zenon DEF Become, Leads
  <1>4. CASE w.s.closed /\ x = w
    <2>1. Continues(w, x, h)
      BY <1>2, <1>4, Zenon DEF Continues
    <2> QED
      BY <1>0, <1>3, <2>1, Zenon DEF Steps
  <1>5. CASE ~w.s.closed /\ x \in Flush(w, FALSE)
    <2> PICK force \in BOOLEAN : force = FALSE
      OBVIOUS
    <2>1. Continues(w, x, h)
      BY <1>2, <1>5, FlushContinues
    <2> QED
      BY <1>0, <1>3, <2>1, Zenon DEF Steps
  <1> QED
    BY <1>3, <1>4, <1>5

(* _finalize_state up to its await, or to its end.                         *)
LEMMA FinalizeContinues ==
  ASSUME IInv, NEW w, w = World, Current(w), InOrder(w, History),
         NEW p \in Finalizers, NEW outcome \in Outcomes, Finalize(p, outcome)
  PROVE  \E x : Steps(w, x)
  <1> PICK known, text :
        IsText(known) /\ MaySay(w, text) /\ Finalizing(outcome) = Concluding(w.s, outcome, known, text)
    BY FinalizingConcludes
  <1> PICK v : v = Holding(w, Concluding(w.s, outcome, known, text))
    OBVIOUS
  <1> PICK h : h = History
    OBVIOUS
  <1>1. codexVars' = codexVars /\ History' = h
    BY SameHistory DEF Finalize
  <1>2. h \in Histories /\ Sound(w, h) /\ ~w.s.closed /\ w \in Worlds
    BY DEF Current, Finalize
  <1>3. Sound(v, h) /\ ~v.s.closed /\ v.s.card = w.s.card /\ v.cards = w.cards
    BY <1>2, ConcludingKeeps
  <1>4. v \in Worlds
    BY <1>3 DEF Sound, WellFormed
  <1>5. v.s.text = text /\ v.failures = w.failures /\ v.s.closed = w.s.closed
    <2>1. v.s = Concluding(w.s, outcome, known, text) /\ v.failures = w.failures
      BY <1>2, <1>4 DEF Worlds, Holding
    <2>2. w.s \in Streams
      BY <1>2 DEF Worlds
    <2> QED
      BY <2>1, <2>2 DEF Concluding, Streams
  <1>6. InOrder(v, h) /\ ShownOn(v) = ShownOn(w)
    <2>1. w.s.text \subseteq v.s.text /\ v.s.text \subseteq w.s.text \cup {ErrorText}
      BY <1>5 DEF MaySay
    <2>2. InOrder(w, h)
      OBVIOUS
    <2> QED
      BY <1>2, <1>3, <1>5, <2>1, <2>2, StillInOrder, Zenon
  <1>7. Become({v}) \/ Become(Finalized(v, outcome))
    <2>1. v = [World EXCEPT !.s = Finalizing(outcome)]
      BY Zenon DEF Holding
    <2> QED
      BY <2>1, Zenon DEF Finalize
  <1>8. CASE Become({v})
    <2>1. Leads(v)
      BY <1>8, Zenon DEF Become, Leads
    <2>2. Continues(w, v, h)
      BY <1>2, <1>4, <1>5, <1>6, Zenon DEF Continues, ShowsMore
    <2> QED
      BY <1>1, <2>1, <2>2, Zenon DEF Steps
  <1>9. CASE Become(Finalized(v, outcome))
    <2>1. PICK x \in Finalized(v, outcome) : Leads(x)
      BY <1>9, Zenon DEF Become, Leads
    <2>2. Continues(v, x, h)
      BY <1>2, <1>3, <1>6, <2>1, FinalizedContinues
    <2>3. Continues(w, x, h)
      BY <1>5, <1>6, <2>2, ContinuesFrom
    <2> QED
      BY <1>1, <2>1, <2>3, Zenon DEF Steps
  <1> QED
    BY <1>7, <1>8, <1>9

LEMMA ResumeFinalizeContinues ==
  ASSUME IInv, NEW w, w = World, Current(w), InOrder(w, History), NEW p \in Finalizers, ResumeFinalize(p)
  PROVE  \E x : Steps(w, x)
  <1> PICK outcome \in Outcomes : outcome = finalizer[p].outcome
    BY DEF IInv, TypeOK
  <1> PICK h : h = History
    OBVIOUS
  <1>0. codexVars' = codexVars /\ History' = h
    BY SameHistory DEF ResumeFinalize
  <1>1. Become(Finalized(w, outcome))
    BY Zenon DEF ResumeFinalize
  <1>2. PICK x \in Finalized(w, outcome) : Leads(x)
    BY <1>1, Zenon DEF Become, Leads
  <1>3. h \in Histories /\ Sound(w, h)
    BY DEF Current
  <1>4. Continues(w, x, h)
    BY <1>2, <1>3, FinalizedContinues
  <1> QED
    BY <1>0, <1>2, <1>4, Zenon DEF Steps

LEMMA StartFollowupContinues ==
  ASSUME IInv, NEW w, w = World, Current(w), InOrder(w, History), NEW f \in Followups, StartFollowup(f)
  PROVE  \E x : Steps(w, x)
  <1> PICK v : v = Holding(w, Unscheduled(w.s))
    OBVIOUS
  <1> PICK h : h = History
    OBVIOUS
  <1> PICK g : g = History'
    OBVIOUS
  <1> PICK read : read = [at |-> "done", card |-> w.s.card, reaction |-> w.s.reaction]
    OBVIOUS
  <1>1. ~w.s.closed /\ w.s = state /\ codexVars' = codexVars /\ h \in Histories /\ Sound(w, h) /\ w \in Worlds
    BY Zenon DEF StartFollowup, Current
  <1>2. \/ Become({v}) /\ resumed' = resumed
        \/ Become(FollowedUp(v, read)) /\ resumed' = Resumed
    <2>1. v = [World EXCEPT !.s.flushTask = FALSE]
      BY Zenon DEF Holding, Unscheduled
    <2>2. read = [at |-> "done", card |-> state.card, reaction |-> state.reaction]
      BY <1>1, Zenon
    <2> QED
      BY <2>1, <2>2, Zenon DEF StartFollowup
  <1>3. Sound(v, h) /\ v.s.closed = w.s.closed /\ v.cards = w.cards /\ v.s.card = w.s.card
    BY <1>1, TaskKeeps
  <1>4. v \in Worlds
    BY <1>3 DEF Sound, WellFormed
  <1>5. v.s.text = w.s.text /\ v.failures = w.failures
    <2>1. v.s = Unscheduled(w.s) /\ v.failures = w.failures
      BY <1>1, <1>4 DEF Worlds, Holding
    <2>2. w.s \in Streams
      BY <1>1 DEF Worlds
    <2> QED
      BY <2>1, <2>2 DEF Unscheduled, Streams
  <1>6. InOrder(v, h) /\ ShownOn(v) = ShownOn(w)
    <2>1. w.s.text \subseteq v.s.text /\ v.s.text \subseteq w.s.text \cup {ErrorText} /\ InOrder(w, h)
      BY <1>5
    <2> QED
      BY <1>1, <1>3, <2>1, StillInOrder, Zenon
  <1>7. CASE Become({v}) /\ resumed' = resumed
    <2>1. Leads(v)
      BY <1>7, Zenon DEF Become, Leads
    <2>3. g = h
      BY <1>1, <1>7, SameHistory
    <2>2. Continues(w, v, h)
      BY <1>1, <1>4, <1>5, <1>6, Zenon DEF Continues, ShowsMore
    <2> QED
      BY <1>1, <2>1, <2>2, <2>3, Zenon DEF Steps
  <1>8. CASE Become(FollowedUp(v, read)) /\ resumed' = Resumed
    <2>1. PICK x \in FollowedUp(v, read) : Leads(x)
      BY <1>8, Zenon DEF Become, Leads
    <2>2. /\ read.card \in 0..Len(v.cards) /\ read.reaction \in BOOLEAN
          /\ read.card = NoCard => v.s.card = NoCard /\ ~v.s.closed
      <3>1. w.s.card \in 0..Len(w.cards) /\ w.s.reaction \in BOOLEAN
        BY <1>1, WorldTypes DEF Sound
      <3>2. read.card = w.s.card /\ read.reaction = w.s.reaction
        OBVIOUS
      <3> QED
        BY <1>1, <1>3, <3>1, <3>2
    <2>5. IF v.s.closed THEN g = h ELSE Restart(h, g)
      BY <1>1, <1>3, <1>8, RestartedHistory DEF IInv, TypeOK, CodexTypes
    <2>3. Continues(v, x, g)
      BY <1>1, <1>3, <1>6, <2>1, <2>2, <2>5, FollowedUpContinues
    <2>4. Continues(w, x, g)
      BY <1>3, <1>5, <1>6, <2>3, ContinuesFrom
    <2> QED
      BY <1>1, <2>1, <2>4, Zenon DEF Steps
  <1> QED
    BY <1>2, <1>7, <1>8

LEMMA ResumeFollowupContinues ==
  ASSUME IInv, NEW w, w = World, Current(w), InOrder(w, History), NEW f \in Followups, ResumeFollowup(f)
  PROVE  \E x : Steps(w, x)
  <1> PICK read : read = followup[f]
    OBVIOUS
  <1> PICK h : h = History
    OBVIOUS
  <1> PICK g : g = History'
    OBVIOUS
  <1>1. read.at = "awaiting" /\ Become(FollowedUp(w, read)) /\ codexVars' = codexVars /\ resumed' = Resumed
    BY DEF ResumeFollowup
  <1>2. /\ w.cards = cards /\ TasksAgree /\ h \in Histories /\ Sound(w, h) /\ w.s = state
        /\ followup \in [Followups -> [at : Phases, card : 0..Len(cards), reaction : BOOLEAN]]
    BY DEF IInv, TypeOK, Current
  <1>3. read.card \in 0..Len(w.cards) /\ read.reaction \in BOOLEAN /\ read.card # NoCard
    BY <1>1, <1>2 DEF TasksAgree
  <1>4. PICK x \in FollowedUp(w, read) : Leads(x)
    BY <1>1, Zenon DEF Become, Leads
  <1>5. Continues(w, x, g)
    <2>1. IF w.s.closed THEN g = h ELSE Restart(h, g)
      BY <1>1, <1>2, RestartedHistory DEF IInv, TypeOK, CodexTypes
    <2> QED
      BY <1>2, <1>3, <1>4, <2>1, FollowedUpContinues
  <1> QED
    BY <1>1, <1>4, <1>5, Zenon DEF Steps

LEMMA NextContinues ==
  ASSUME IInv, NEW w, w = World, Current(w), InOrder(w, History), [Next]_vars
  PROVE  \E x : Steps(w, x)
  <1>1. CASE Notified
    BY <1>1, NotificationHears, ListenContinues
  <1>3. CASE TimerFires
    BY <1>3, TimerFiresContinues
  <1>4. ASSUME NEW outcome \in Outcomes, TurnEnds(outcome) PROVE \E x : Steps(w, x)
    <2>1. Finalize("receive loop", outcome)
      BY <1>4 DEF TurnEnds
    <2> PICK p \in Finalizers : p = "receive loop"
      BY DEF Finalizers
    <2> QED
      BY <2>1, FinalizeContinues
  <1>5. CASE Shutdown
    <2>1. Finalize("shutdown", "failed")
      BY <1>5 DEF Shutdown
    <2> PICK p \in Finalizers, outcome \in Outcomes : p = "shutdown" /\ outcome = "failed"
      BY DEF Finalizers, Outcomes
    <2> QED
      BY <2>1, FinalizeContinues
  <1>6. ASSUME NEW p \in Finalizers, ResumeFinalize(p) PROVE \E x : Steps(w, x)
    BY <1>6, ResumeFinalizeContinues
  <1>7. ASSUME NEW f \in Followups, StartFollowup(f) PROVE \E x : Steps(w, x)
    BY <1>7, StartFollowupContinues
  <1>8. ASSUME NEW f \in Followups, ResumeFollowup(f) PROVE \E x : Steps(w, x)
    BY <1>8, ResumeFollowupContinues
  <1>9. CASE UNCHANGED vars
    <2>1. Leads(w) /\ codexVars' = codexVars /\ History' = History
      <3>1. Leads(w) /\ UNCHANGED <<codexVars, resumed>>
        BY <1>9, Zenon DEF vars, feishuVars, Leads, Current
      <3> QED
        BY <3>1, SameHistory
    <2>2. Continues(w, w, History)
      BY Zenon DEF Continues, ShowsMore, Current
    <2> QED
      BY <2>1, <2>2, Zenon DEF Steps
  <1> QED
    BY <1>1, <1>3, <1>4, <1>5, <1>6, <1>7, <1>8, <1>9, Zenon DEF Next, Notified

-----------------------------------------------------------------------------
(* The steps of ReplyCards on what the cards of the chat show.             *)
OnCards == [i \in DOMAIN cards |-> cards[i].shown]

LEMMA ShowIsReplyShow ==
  ShowsMore(OnCards, OnCards', History') => Reply!Show
  <1> SUFFICES ASSUME ShowsMore(OnCards, OnCards', History')
               PROVE  Reply!Show
    OBVIOUS
  <1>0. History'.said = produced' /\ History'.gone = withdrawn' /\ History'.again = retold'
    BY DEF History
  <1>1. CASE OnCards' = OnCards
    BY <1>1 DEF Reply!Show, OnCards
  <1>2. ASSUME NEW text \in SUBSET (0..produced'), Extended(OnCards, OnCards', text, History')
        PROVE  Reply!Show
    <2>1. Reply!Extend(text)
      BY <1>0, <1>2 DEF Extended, After, ErrorText, OnCards, Reply!Extend, Reply!ComesAfter, Reply!Notice
    <2> QED
      BY <2>1, Zenon DEF Reply!Show
  <1>3. ASSUME NEW text \in SUBSET (0..produced'), Begun(OnCards, OnCards', text, History')
        PROVE  Reply!Show
    <2>1. Reply!Begin(text)
      BY <1>0, <1>3 DEF Begun, After, ErrorText, OnCards, Reply!Begin, Reply!ComesAfter, Reply!Notice
    <2> QED
      BY <2>1, Zenon DEF Reply!Show
  <1> QED
    BY <1>0, <1>1, <1>2, <1>3, Zenon DEF ShowsMore

Located(x) ==
  /\ x \in Worlds /\ InOrder(x, History)
  /\ state = x.s /\ cards = x.cards /\ typing = x.typing /\ failures = x.failures /\ refused = x.refused

LEMMA ArrivedInOrder ==
  ASSUME NEW CONSTANT x
  PROVE  Located(x)' => InOrder(World, History)'
  <1>1. Located(x) => InOrder(World, History)
    <2> SUFFICES ASSUME Located(x)
                 PROVE  InOrder(World, History)
      OBVIOUS
    <2>1. World = x
      BY DEF Located, World, Worlds
    <2> QED
      BY <2>1, Zenon DEF Located
  <1> QED
    BY <1>1, PTL

LEMMA ClosedHasAll == IInv' => AllOutputIsShown'
  <1>1. IInv => AllOutputIsShown
    <2>1. World.failures = failures /\ World.cards = cards /\ World.s = state
      BY DEF World
    <2> QED
      BY <2>1 DEF IInv, Sound, Kept, History, AllOutputIsShown, Shown
  <1> QED
    BY <1>1, PTL

(* A step of an open stream.                                               *)
LEMMA OpenStepsImplement ==
  ASSUME IInv, IInv', Reply!Show, ~state.closed, failures' = 0 => failures = 0,
         codexVars' = codexVars \/ (TellingGrows /\ ~state'.closed)
  PROVE  Reply!Next
  <1>1. /\ failures \in Nat /\ failures' \in Nat /\ state.closed \in BOOLEAN /\ state'.closed \in BOOLEAN
        /\ produced \in Nat
    BY ReplyStreamAssumption DEF IInv, TypeOK, Streams
  <1>2. failures > 0 => failures' > 0
    BY <1>1
  <1>3. CASE TellingGrows /\ ~state'.closed
    <2>1. Reply!Say
      BY <1>1, <1>3 DEF TellingGrows, Reply!Say
    <2> QED
      BY <1>2, <2>1, Zenon DEF Reply!Next
  <1>4. CASE codexVars' = codexVars /\ ~state'.closed
    <2>1. Reply!Flush
      BY <1>1, <1>4 DEF codexVars, Reply!Flush, Reply!codexVars
    <2> QED
      BY <1>2, <2>1, Zenon DEF Reply!Next
  <1>5. CASE codexVars' = codexVars /\ state'.closed
    <2>1. ASSUME NEW piece \in 1..produced \ withdrawn
          PROVE  failures' > 0 \/ Reply!Shown(piece)'
      <3>1. failures' = 0 => \E i \in DOMAIN cards' : piece \in cards'[i].shown
        BY <1>5, ClosedHasAll DEF codexVars, AllOutputIsShown, Shown
      <3>2. failures' = 0 \/ failures' > 0
        BY <1>1
      <3>3. (\E i \in DOMAIN cards' : piece \in cards'[i].shown) => Reply!Shown(piece)'
        BY DEF Reply!Shown
      <3> QED
        BY <3>1, <3>2, <3>3
    <2>2. Reply!Finish
      BY <1>1, <1>5, <2>1 DEF codexVars, Reply!Finish, Reply!codexVars
    <2> QED
      BY <1>2, <2>2, Zenon DEF Reply!Next
  <1> QED
    BY <1>1, <1>3, <1>4, <1>5

(* A step of a closed stream.                                              *)
LEMMA ClosedStepsImplement ==
  ASSUME IInv, IInv', state.closed, state'.closed, failures' = 0 => failures = 0, codexVars' = codexVars,
         OnCards' \in {OnCards, Append(OnCards, {ErrorText})}
  PROVE  [Reply!Next]_(Reply!vars)
  <1>1. failures \in Nat /\ failures' \in Nat /\ state.closed \in BOOLEAN /\ state'.closed \in BOOLEAN
    BY DEF IInv, TypeOK, Streams
  <1>2. (failures > 0 => failures' > 0) /\ (failures' > 0 \/ (failures > 0) = (failures' > 0))
    BY <1>1
  <1>3. state'.closed = state.closed
    BY <1>1
  <1>4. CASE OnCards' = Append(OnCards, {ErrorText})
    <2>1. Reply!Report
      BY <1>3, <1>4 DEF codexVars, Reply!codexVars, Reply!Report, Reply!Notice, ErrorText, OnCards
    <2> QED
      BY <1>2, <2>1, Zenon DEF Reply!Next
  <1>5. CASE OnCards' = OnCards /\ failures' > 0
    <2>1. Reply!Fail
      BY <1>3, <1>5 DEF codexVars, Reply!codexVars, Reply!Fail, OnCards
    <2> QED
      BY <1>2, <2>1, Zenon DEF Reply!Next
  <1>6. CASE OnCards' = OnCards /\ (failures > 0) = (failures' > 0)
    <2>1. UNCHANGED Reply!vars
      BY <1>3, <1>6 DEF codexVars, Reply!codexVars, Reply!vars, OnCards
    <2> QED
      BY <2>1
  <1> QED
    BY <1>2, <1>4, <1>5, <1>6

LEMMA NextImplements ==
  IInv /\ IInv' /\ InOrder(World, History) /\ [Next]_vars => [Reply!Next]_(Reply!vars) /\ InOrder(World, History)'
  <1> SUFFICES ASSUME IInv, IInv', InOrder(World, History), [Next]_vars
               PROVE  [Reply!Next]_(Reply!vars) /\ InOrder(World, History)'
    OBVIOUS
  <1> PICK w : w = World
    OBVIOUS
  <1>1. Current(w) /\ InOrder(w, History)
    BY CurrentWorld
  <1>2. PICK x : Steps(w, x)
    BY <1>1, NextContinues
  <1>3. Leads(x) /\ Continues(w, x, History')
    BY <1>2, Zenon DEF Steps
  <1>4. InOrder(World, History)'
    <2>1. Located(x)'
      BY <1>3, Zenon DEF Located, Leads, Continues
    <2> QED
      BY <2>1, ArrivedInOrder
  <1>5. /\ OnCards = ShownOn(w) /\ OnCards' = ShownOn(x)
        /\ state = w.s /\ state' = x.s /\ failures = w.failures /\ failures' = x.failures
    BY <1>1, <1>3, Zenon DEF OnCards, ShownOn, Current, Leads
  <1>6. CASE w.s.closed
    <2>1. x.s.closed /\ OnCards' \in {OnCards, Append(OnCards, {ErrorText})} /\ (failures' = 0 => failures = 0)
      BY <1>3, <1>5, <1>6, Zenon DEF Continues
    <2>2. codexVars' = codexVars
      BY <1>2, <1>6, Zenon DEF Steps
    <2> QED
      BY <1>4, <1>5, <1>6, <2>1, <2>2, ClosedStepsImplement
  <1>7. CASE ~w.s.closed
    <2>1. ShowsMore(OnCards, OnCards', History') /\ (failures' = 0 => failures = 0)
      BY <1>3, <1>5, <1>7, Zenon DEF Continues
    <2>2. Reply!Show
      BY <2>1, ShowIsReplyShow
    <2>3. codexVars' = codexVars \/ (TellingGrows /\ ~state'.closed)
      BY <1>2, <1>5, Zenon DEF Steps
    <2> QED
      BY <1>4, <1>5, <1>7, <2>1, <2>2, <2>3, OpenStepsImplement
  <1> QED
    BY <1>6, <1>7

(* The cards of a reply are written from top to bottom by whoever shares   *)
(* its stream: a card takes back nothing but what Codex has withdrawn, what*)
(* it shows comes after what the cards before it show unless it was told   *)
(* again, and a reply that is over lacks nothing unless Feishu has failed. *)
THEOREM ImplementsReplyCards == Spec => WritesCardsInOrder
  <1>1. Init => Reply!Init /\ InOrder(World, History)
    <2> SUFFICES ASSUME Init
                 PROVE  Reply!Init /\ InOrder(World, History)
      OBVIOUS
    <2>1. /\ cards = <<>> /\ produced = 0 /\ (failures > 0) \in BOOLEAN /\ withdrawn = {} /\ retold = {}
          /\ state.card = NoCard /\ state.text = {} /\ ~state.closed /\ state.closed \in BOOLEAN
      BY DEF Init, FreshState
    <2>2. OnCards = <<>>
      BY <2>1 DEF OnCards
    <2>3. Reply!Init
      BY <2>1, <2>2 DEF Reply!Init, OnCards
    <2>4. InOrder(World, History)
      BY <2>1 DEF InOrder, After, World
    <2> QED
      BY <2>3, <2>4
  <1> QED
    BY <1>1, NextImplements, Invariance, PTL DEF Spec, WritesCardsInOrder, Reply!Spec
=============================================================================
