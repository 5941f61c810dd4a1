-------------------------- MODULE ReplyTextProofs --------------------------
(* Proofs about ReplyText for any fragments, commands and messages.        *)
EXTENDS ReplyText, SequenceFacts

-----------------------------------------------------------------------------
(* Filter: what it keeps, and of what.                                     *)
Unit(x, S) == IF x \in S THEN <<x>> ELSE <<>>
Units(s, S) == [i \in DOMAIN s |-> Unit(s[i], S)]

LEMMA FilterUnits ==
  ASSUME NEW s, NEW S
  PROVE  Filter(s, S) = FlattenSeq(Units(s, S))
  BY DEF Filter, Units, Unit

LEMMA FunctionIsSeq ==
  ASSUME NEW T, NEW n \in Nat, NEW f \in [1..n -> T]
  PROVE  f \in Seq(T) /\ Len(f) = n
  OBVIOUS

LEMMA UnitType ==
  ASSUME NEW U, NEW S, NEW x, x \in S => x \in U
  PROVE  Unit(x, S) \in Seq(U)
  <1>1. CASE x \in S
    BY <1>1 DEF Unit
  <1>2. CASE x \notin S
    BY <1>2 DEF Unit
  <1> QED
    BY <1>1, <1>2

LEMMA UnitsType ==
  ASSUME NEW T, NEW S, NEW U, S \cap T \subseteq U, NEW s \in Seq(T)
  PROVE  Units(s, S) \in Seq(Seq(U))
  <1>1. Len(s) \in Nat /\ DOMAIN s = 1..Len(s) /\ \A i \in 1..Len(s) : s[i] \in T
    OBVIOUS
  <1>2. \A i \in 1..Len(s) : Unit(s[i], S) \in Seq(U)
    BY <1>1, UnitType
  <1>3. Units(s, S) \in [1..Len(s) -> Seq(U)]
    BY <1>1, <1>2 DEF Units
  <1> QED
    BY <1>1, <1>3, FunctionIsSeq

LEMMA UnitsAt ==
  ASSUME NEW T, NEW S, NEW s \in Seq(T)
  PROVE  Len(Units(s, S)) = Len(s) /\ \A i \in 1..Len(s) : Units(s, S)[i] = Unit(s[i], S)
  <1>1. Len(s) \in Nat /\ DOMAIN s = 1..Len(s)
    OBVIOUS
  <1>2. \A i \in 1..Len(s) : Units(s, S)[i] = Unit(s[i], S)
    BY <1>1 DEF Units
  <1>3. Len(Units(s, S)) = Len(s)
    BY <1>1 DEF Units
  <1> QED
    BY <1>2, <1>3

LEMMA ConcatAt ==
  ASSUME NEW T, NEW s \in Seq(T), NEW t \in Seq(T)
  PROVE  /\ s \o t \in Seq(T) /\ Len(s) \in Nat /\ Len(t) \in Nat /\ Len(s \o t) = Len(s) + Len(t)
         /\ \A i \in 1..Len(s) : (s \o t)[i] = s[i]
         /\ \A i \in (Len(s) + 1)..(Len(s) + Len(t)) : (s \o t)[i] = t[i - Len(s)]
  OBVIOUS

LEMMA UnitsConcat ==
  ASSUME NEW T, NEW S, NEW s \in Seq(T), NEW t \in Seq(T)
  PROVE  Units(s \o t, S) = Units(s, S) \o Units(t, S)
  <1> DEFINE u == Units(s \o t, S)
  <1> DEFINE a == Units(s, S)
  <1> DEFINE b == Units(t, S)
  <1>1. /\ s \o t \in Seq(T) /\ Len(s) \in Nat /\ Len(t) \in Nat /\ Len(s \o t) = Len(s) + Len(t)
        /\ \A i \in 1..Len(s) : (s \o t)[i] = s[i]
        /\ \A i \in (Len(s) + 1)..(Len(s) + Len(t)) : (s \o t)[i] = t[i - Len(s)]
    BY ConcatAt
  <1>2. u \in Seq(Seq(T)) /\ a \in Seq(Seq(T)) /\ b \in Seq(Seq(T))
    BY <1>1, UnitsType
  <1>3. Len(u) = Len(s \o t) /\ \A i \in 1..Len(s \o t) : u[i] = Unit((s \o t)[i], S)
    BY <1>1, UnitsAt
  <1>4. Len(a) = Len(s) /\ \A i \in 1..Len(s) : a[i] = Unit(s[i], S)
    BY UnitsAt
  <1>5. Len(b) = Len(t) /\ \A i \in 1..Len(t) : b[i] = Unit(t[i], S)
    BY UnitsAt
  <1> HIDE DEF u, a, b
  <1>6. /\ a \o b \in Seq(Seq(T)) /\ Len(a \o b) = Len(a) + Len(b)
        /\ \A i \in 1..Len(a) : (a \o b)[i] = a[i]
        /\ \A i \in (Len(a) + 1)..(Len(a) + Len(b)) : (a \o b)[i] = b[i - Len(a)]
    BY <1>2, ConcatAt
  <1>7. ASSUME NEW i \in 1..Len(s) PROVE u[i] = (a \o b)[i]
    <2>1. u[i] = Unit(s[i], S)
      BY <1>1, <1>3
    <2> QED
      BY <1>4, <1>6, <2>1
  <1>8. ASSUME NEW i \in (Len(s) + 1)..(Len(s) + Len(t)) PROVE u[i] = (a \o b)[i]
    <2>1. i \in 1..Len(s \o t) /\ i - Len(s) \in 1..Len(t)
      BY <1>1
    <2>2. u[i] = Unit(t[i - Len(s)], S)
      BY <1>1, <1>3, <2>1
    <2>3. (a \o b)[i] = b[i - Len(s)]
      BY <1>4, <1>5, <1>6
    <2> QED
      BY <1>5, <2>1, <2>2, <2>3
  <1>9. Len(u) = Len(a \o b) /\ \A i \in 1..Len(u) : u[i] = (a \o b)[i]
    BY <1>1, <1>3, <1>4, <1>5, <1>6, <1>7, <1>8
  <1>10. u = a \o b
    BY <1>2, <1>6, <1>9, SeqEqual
  <1> QED
    BY <1>10 DEF u, a, b

LEMMA FilterEmpty ==
  ASSUME NEW S
  PROVE  Filter(<<>>, S) = <<>>
  <1>1. Units(<<>>, S) = <<>>
    BY DEF Units
  <1> QED
    BY <1>1, FilterUnits, FlattenEmpty

LEMMA FilterType ==
  ASSUME NEW T, NEW S, NEW U, S \cap T \subseteq U, NEW s \in Seq(T)
  PROVE  Filter(s, S) \in Seq(U)
  <1>1. Units(s, S) \in Seq(Seq(U))
    BY UnitsType
  <1> QED
    BY <1>1, FilterUnits, FlattenType

LEMMA FilterConcat ==
  ASSUME NEW T, NEW S, NEW s \in Seq(T), NEW t \in Seq(T)
  PROVE  Filter(s \o t, S) = Filter(s, S) \o Filter(t, S)
  <1>1. Units(s, S) \in Seq(Seq(T)) /\ Units(t, S) \in Seq(Seq(T))
    BY UnitsType
  <1>2. FlattenSeq(Units(s, S) \o Units(t, S)) = FlattenSeq(Units(s, S)) \o FlattenSeq(Units(t, S))
    BY <1>1, FlattenConcat
  <1>3. Units(s \o t, S) = Units(s, S) \o Units(t, S)
    BY UnitsConcat
  <1> QED
    BY <1>2, <1>3, FilterUnits

LEMMA FilterNone ==
  ASSUME NEW T, NEW S, NEW s \in Seq(T), S \cap T = {}
  PROVE  Filter(s, S) = <<>>
  <1>1. Filter(s, S) \in Seq({})
    BY FilterType
  <1> QED
    BY <1>1

LEMMA FilterSingle ==
  ASSUME NEW S, NEW x
  PROVE  Filter(<<x>>, S) = IF x \in S THEN <<x>> ELSE <<>>
  <1>1. Units(<<x>>, S) = Append(<<>>, Unit(x, S))
    BY DEF Units
  <1>2. Unit(x, S) \in Seq({x}) /\ <<>> \in Seq(Seq({x}))
    BY UnitType
  <1>3. FlattenSeq(Append(<<>>, Unit(x, S))) = FlattenSeq(<<>>) \o Unit(x, S)
    BY <1>2, FlattenLast
  <1>4. <<>> \o Unit(x, S) = Unit(x, S)
    BY <1>2
  <1> QED
    BY <1>1, <1>3, <1>4, FlattenEmpty, FilterUnits DEF Unit

-----------------------------------------------------------------------------
(* The text of a sequence of blocks.                                       *)
Marks == Chars \cup Lines
Texts(bs) == [i \in DOMAIN bs |-> bs[i].text]

LEMMA BlockTypes ==
  ASSUME NEW b \in Blocks
  PROVE  b.text \in Seq(Marks)
  BY DEF Blocks, TextBlocks, CommandBlocks, Marks

LEMMA TextsType ==
  ASSUME NEW bs \in Seq(Blocks)
  PROVE  /\ Texts(bs) \in Seq(Seq(Marks)) /\ Len(Texts(bs)) = Len(bs)
         /\ \A i \in 1..Len(bs) : Texts(bs)[i] = bs[i].text
  <1>1. Len(bs) \in Nat /\ DOMAIN bs = 1..Len(bs) /\ \A i \in 1..Len(bs) : bs[i] \in Blocks
    OBVIOUS
  <1>2. \A i \in 1..Len(bs) : bs[i].text \in Seq(Marks)
    BY <1>1, BlockTypes
  <1>3. \A i \in 1..Len(bs) : Texts(bs)[i] = bs[i].text
    BY <1>1 DEF Texts
  <1>4. Texts(bs) \in [1..Len(bs) -> Seq(Marks)]
    BY <1>1, <1>2 DEF Texts
  <1> QED
    BY <1>1, <1>3, <1>4, FunctionIsSeq

LEMMA TextOfType ==
  ASSUME NEW bs \in Seq(Blocks)
  PROVE  TextOf(bs) \in Seq(Marks)
  BY TextsType, FlattenType DEF TextOf, Texts

LEMMA TextOfEmpty == TextOf(<<>>) = <<>>
  <1>1. [i \in DOMAIN <<>> |-> <<>>[i].text] = <<>>
    OBVIOUS
  <1> QED
    BY <1>1, FlattenEmpty DEF TextOf

LEMMA TextOfLast ==
  ASSUME NEW bs \in Seq(Blocks), NEW b \in Blocks
  PROVE  TextOf(Append(bs, b)) = TextOf(bs) \o b.text
  <1>1. Append(bs, b) \in Seq(Blocks) /\ Len(Append(bs, b)) = Len(bs) + 1 /\ Len(bs) \in Nat
    OBVIOUS
  <1>2. /\ \A i \in 1..Len(bs) : Append(bs, b)[i] = bs[i]
        /\ Append(bs, b)[Len(bs) + 1] = b
    OBVIOUS
  <1> DEFINE t == Texts(Append(bs, b))
  <1> DEFINE u == Append(Texts(bs), b.text)
  <1>3. b.text \in Seq(Marks)
    BY BlockTypes
  <1>4. /\ Texts(bs) \in Seq(Seq(Marks)) /\ Len(Texts(bs)) = Len(bs)
        /\ \A i \in 1..Len(bs) : Texts(bs)[i] = bs[i].text
    BY TextsType
  <1>5. /\ t \in Seq(Seq(Marks)) /\ Len(t) = Len(bs) + 1
        /\ \A i \in 1..(Len(bs) + 1) : t[i] = Append(bs, b)[i].text
    BY <1>1, TextsType
  <1>6. /\ u \in Seq(Seq(Marks)) /\ Len(u) = Len(bs) + 1
        /\ \A i \in 1..Len(bs) : u[i] = bs[i].text
        /\ u[Len(bs) + 1] = b.text
    BY <1>1, <1>3, <1>4
  <1> HIDE DEF t, u
  <1>7. ASSUME NEW i \in 1..Len(t) PROVE t[i] = u[i]
    <2>1. CASE i \in 1..Len(bs)
      <3>1. t[i] = Append(bs, b)[i].text
        BY <1>5
      <3>2. Append(bs, b)[i] = bs[i] /\ u[i] = bs[i].text
        BY <1>2, <1>6, <2>1
      <3> QED
        BY <3>1, <3>2
    <2>2. CASE i = Len(bs) + 1
      <3>1. t[i] = Append(bs, b)[i].text
        BY <1>5
      <3>2. Append(bs, b)[i] = b /\ u[i] = b.text
        BY <1>2, <1>6, <2>2
      <3> QED
        BY <3>1, <3>2
    <2>3. Len(t) = Len(bs) + 1 /\ Len(bs) \in Nat
      BY <1>1, <1>5
    <2> QED
      BY <2>1, <2>2, <2>3
  <1>8. t = u
    BY <1>5, <1>6, <1>7, SeqEqual
  <1>9. FlattenSeq(Append(Texts(bs), b.text)) = FlattenSeq(Texts(bs)) \o b.text
    BY <1>3, <1>4, FlattenLast
  <1>10. TextOf(bs) = FlattenSeq(Texts(bs)) /\ TextOf(Append(bs, b)) = FlattenSeq(Texts(Append(bs, b)))
    BY DEF TextOf, Texts
  <1> QED
    BY <1>8, <1>9, <1>10 DEF t, u

LEMMA FilterLast ==
  ASSUME NEW T, NEW S, NEW s \in Seq(T), NEW x \in T
  PROVE  Filter(Append(s, x), S) = IF x \in S THEN Append(Filter(s, S), x) ELSE Filter(s, S)
  <1>1. Append(s, x) = s \o <<x>> /\ <<x>> \in Seq(T)
    OBVIOUS
  <1>2. Filter(s \o <<x>>, S) = Filter(s, S) \o Filter(<<x>>, S)
    BY <1>1, FilterConcat
  <1>3. Filter(s, S) \in Seq(T)
    BY FilterType
  <1>4. Filter(s, S) \o <<x>> = Append(Filter(s, S), x) /\ Filter(s, S) \o <<>> = Filter(s, S)
    BY <1>3
  <1>5. Filter(<<x>>, S) = IF x \in S THEN <<x>> ELSE <<>>
    BY FilterSingle
  <1> QED
    BY <1>1, <1>2, <1>4, <1>5

LEMMA TextOfFilterLast ==
  ASSUME NEW S, NEW bs \in Seq(Blocks), NEW b \in Blocks
  PROVE  TextOf(Filter(Append(bs, b), S))
           = IF b \in S THEN TextOf(Filter(bs, S)) \o b.text ELSE TextOf(Filter(bs, S))
  <1>1. Filter(bs, S) \in Seq(Blocks)
    BY FilterType
  <1>2. TextOf(Append(Filter(bs, S), b)) = TextOf(Filter(bs, S)) \o b.text
    BY <1>1, TextOfLast
  <1>3. Filter(Append(bs, b), S) = IF b \in S THEN Append(Filter(bs, S), b) ELSE Filter(bs, S)
    BY FilterLast
  <1> QED
    BY <1>2, <1>3

LEMMA FilterAll ==
  ASSUME NEW T, NEW S, T \subseteq S
  PROVE  \A s \in Seq(T) : Filter(s, S) = s
  <1> DEFINE P == {s \in Seq(T) : Filter(s, S) = s}
  <1>1. <<>> \in P
    <2>1. <<>> \in Seq(T)
      OBVIOUS
    <2> QED
      BY <2>1, FilterEmpty, Zenon
  <1>2. ASSUME NEW s \in Seq(T), NEW x \in T, s \in P PROVE Append(s, x) \in P
    <2>1. Append(s, x) \in Seq(T)
      OBVIOUS
    <2>2. Filter(Append(s, x), S) = IF x \in S THEN Append(Filter(s, S), x) ELSE Filter(s, S)
      BY FilterLast
    <2>3. Filter(Append(s, x), S) = Append(s, x)
      BY <1>2, <2>2
    <2> QED
      BY <2>1, <2>3
  <1>3. Seq(T) \subseteq P
    <2> HIDE DEF P
    <2> QED
      BY <1>1, <1>2, SeqInduction
  <1> QED
    BY <1>3

(* Blocks that are not a message's show nothing of it, and a message's     *)
(* blocks show no commands.                                                *)
LEMMA MessageTextHasNoLines ==
  ASSUME NEW s \in Seq(Chars)
  PROVE  Filter(s, Lines) = <<>> /\ Visible(s) \in Seq(Chars) /\ Filter(Visible(s), Lines) = <<>>
  <1>1. Lines \cap Chars = {}
    BY ReplyTextAssumption
  <1>2. Visible(s) \in Seq(Chars)
    BY FilterType DEF Visible
  <1> QED
    BY <1>1, <1>2, FilterNone

LEMMA VisibleConcat ==
  ASSUME NEW s \in Seq(Marks), NEW t \in Seq(Marks)
  PROVE  /\ Visible(s \o t) = Visible(s) \o Visible(t)
         /\ Visible(s) \in Seq(Marks) /\ Visible(t) \in Seq(Marks)
  BY FilterConcat, FilterType DEF Visible

LEMMA LinesConcat ==
  ASSUME NEW s \in Seq(Marks), NEW t \in Seq(Marks)
  PROVE  /\ Filter(s \o t, Lines) = Filter(s, Lines) \o Filter(t, Lines)
         /\ Filter(s, Lines) \in Seq(Marks)
  <1>1. Filter(s \o t, Lines) = Filter(s, Lines) \o Filter(t, Lines)
    BY FilterConcat
  <1>2. Filter(s, Lines) \in Seq(Marks)
    BY FilterType
  <1> QED
    BY <1>1, <1>2

LEMMA LinesAreVisible ==
  ASSUME NEW s \in Seq(Lines)
  PROVE  Visible(s) = s /\ Filter(s, Lines) = s
  <1>1. Lines \subseteq VisibleMarks
    BY ReplyTextAssumption DEF VisibleMarks
  <1> QED
    BY <1>1, FilterAll DEF Visible

LEMMA CommandsAreNotText ==
  ASSUME NEW id, NEW b \in CommandBlocks
  PROVE  b \notin TextBlocksOf(id)
  BY DEF CommandBlocks, TextBlocksOf

LEMMA TextBlocksAre ==
  ASSUME NEW id \in 1..MaxMessages
  PROVE  /\ TextBlocksOf(id) \subseteq TextBlocks /\ TextBlocksOf(id) \subseteq Blocks
         /\ \A b \in TextBlocksOf(id) : b.text \in Seq(Chars) /\ b.item = id /\ b.kind = "text"
         /\ \A b \in CommandBlocks : b \notin TextBlocksOf(id) /\ b.text \in Seq(Lines)
         /\ \A t \in Seq(Chars) : [kind |-> "text", item |-> id, text |-> t] \in TextBlocksOf(id)
  BY DEF TextBlocksOf, TextBlocks, Blocks, CommandBlocks

(* Removing a message's blocks leaves the commands, and none of its text.  *)
LEMMA WithoutTextKeepsLines ==
  ASSUME NEW id \in 1..MaxMessages
  PROVE  \A bs \in Seq(Blocks) :
           Filter(TextOf(Filter(bs, Blocks \ TextBlocksOf(id))), Lines) = Filter(TextOf(bs), Lines)
  <1> DEFINE S == Blocks \ TextBlocksOf(id)
  <1> DEFINE P == {bs \in Seq(Blocks) : Filter(TextOf(Filter(bs, S)), Lines) = Filter(TextOf(bs), Lines)}
  <1>1. <<>> \in P
    <2>1. <<>> \in Seq(Blocks)
      OBVIOUS
    <2> QED
      BY <2>1, FilterEmpty, TextOfEmpty, Zenon
  <1>2. ASSUME NEW bs \in Seq(Blocks), NEW b \in Blocks, bs \in P PROVE Append(bs, b) \in P
    <2> DEFINE kept == TextOf(Filter(bs, S))
    <2>1. Append(bs, b) \in Seq(Blocks) /\ Filter(bs, S) \in Seq(Blocks)
      BY FilterType
    <2>2. kept \in Seq(Marks) /\ TextOf(bs) \in Seq(Marks) /\ b.text \in Seq(Marks)
      BY <2>1, TextOfType, BlockTypes
    <2>3. Filter(kept, Lines) = Filter(TextOf(bs), Lines)
      BY <1>2
    <2>4. TextOf(Filter(Append(bs, b), S)) = IF b \in S THEN kept \o b.text ELSE kept
      BY TextOfFilterLast
    <2>5. TextOf(Append(bs, b)) = TextOf(bs) \o b.text
      BY TextOfLast
    <2> HIDE DEF kept
    <2>6. /\ Filter(TextOf(bs) \o b.text, Lines) = Filter(TextOf(bs), Lines) \o Filter(b.text, Lines)
          /\ Filter(kept \o b.text, Lines) = Filter(kept, Lines) \o Filter(b.text, Lines)
          /\ Filter(TextOf(bs), Lines) \in Seq(Marks)
      BY <2>2, LinesConcat
    <2>7. CASE b \in S
      BY <2>1, <2>3, <2>4, <2>5, <2>6, <2>7
    <2>8. CASE b \notin S
      <3>1. b.text \in Seq(Chars)
        BY <2>8, TextBlocksAre
      <3>2. Filter(b.text, Lines) = <<>>
        BY <3>1, MessageTextHasNoLines
      <3>3. Filter(TextOf(bs), Lines) \o <<>> = Filter(TextOf(bs), Lines)
        BY <2>6
      <3> QED
        BY <2>1, <2>3, <2>4, <2>5, <2>6, <2>8, <3>2, <3>3
    <2> QED
      BY <2>7, <2>8
  <1>3. Seq(Blocks) \subseteq P
    <2> HIDE DEF P
    <2> QED
      BY <1>1, <1>2, SeqInduction
  <1> QED
    BY <1>3

LEMMA WithoutTextLeavesNone ==
  ASSUME NEW id \in 1..MaxMessages, NEW bs \in Seq(Blocks)
  PROVE  /\ Filter(bs, Blocks \ TextBlocksOf(id)) \in Seq(Blocks)
         /\ Filter(Filter(bs, Blocks \ TextBlocksOf(id)), TextBlocksOf(id)) = <<>>
  <1> DEFINE S == Blocks \ TextBlocksOf(id)
  <1>1. Filter(bs, S) \in Seq(S) /\ Filter(bs, S) \in Seq(Blocks)
    BY FilterType
  <1>2. TextBlocksOf(id) \cap S = {}
    OBVIOUS
  <1> QED
    BY <1>1, <1>2, FilterNone

-----------------------------------------------------------------------------
(* The layout: what is in it, what it shows, and of a message and of the   *)
(* commands in particular.                                                 *)
ItemsUpTo(n) == {b \in Blocks : b.item <= n}

Shown(bs) == Visible(TextOf(bs))
TextShown(bs, id) == Visible(TextOf(Filter(bs, TextBlocksOf(id))))
LinesShown(bs) == Filter(TextOf(bs), Lines)

LayoutOK(bs, index, open, id) ==
  /\ bs \in Seq(Blocks)
  /\ index \in 0..Len(bs)
  /\ index # 0 => bs[index] \in TextBlocksOf(id)
  /\ open => bs # <<>> /\ bs[Len(bs)] \in CommandBlocks

(* Prefixes.                                                               *)
LEMMA PrefixOfAll ==
  ASSUME NEW S, NEW s \in Seq(S)
  PROVE  IsPrefix(s, s) /\ SubSeq(s, 1, Len(s)) = s
  BY DEF IsPrefix

LEMMA PrefixOfMore ==
  ASSUME NEW S, NEW s \in Seq(S), NEW t \in Seq(S)
  PROVE  IsPrefix(s, s \o t) /\ s \o t \in Seq(S)
  BY DEF IsPrefix

LEMMA LastOfSeq ==
  ASSUME NEW T, NEW s \in Seq(T), Len(s) # 0
  PROVE  \E front \in Seq(T) : Len(s) = Len(front) + 1 /\ s = Append(front, s[Len(s)])
  <1>1. PICK n \in Nat : Len(s) = n + 1
    OBVIOUS
  <1> DEFINE front == SubSeq(s, 1, n)
  <1>2. front \in Seq(T) /\ Len(front) = n
    BY <1>1
  <1>3. s[n + 1] \in T
    BY <1>1
  <1>4. s = Append(front, s[n + 1])
    BY <1>1, <1>2, <1>3
  <1> HIDE DEF front
  <1> QED
    BY <1>1, <1>2, <1>4

LEMMA ExtendLast ==
  ASSUME NEW T, NEW front \in Seq(T), NEW b \in T, NEW c \in T
  PROVE  [Append(front, b) EXCEPT ![Len(front) + 1] = c] = Append(front, c)
  <1>1. PICK q : q = Append(front, b)
    OBVIOUS
  <1>2. PICK n : n = Len(front) + 1
    OBVIOUS
  <1>3. /\ q \in Seq(T) /\ Len(q) = n /\ n \in 1..Len(q)
        /\ \A i \in 1..n : i # n => q[i] = front[i]
    BY <1>1, <1>2
  <1>4. /\ Append(front, c) \in Seq(T) /\ Len(Append(front, c)) = n
        /\ \A i \in 1..n : Append(front, c)[i] = IF i = n THEN c ELSE front[i]
    BY <1>2
  <1>5. PICK s : s = [q EXCEPT ![n] = c]
    OBVIOUS
  <1>6. s \in Seq(T) /\ Len(s) = n /\ \A i \in 1..n : s[i] = IF i = n THEN c ELSE q[i]
    BY <1>3, <1>5, ExceptSeq
  <1>7. s = Append(front, c)
    BY <1>3, <1>4, <1>6, SeqEqual
  <1> QED
    BY <1>1, <1>2, <1>5, <1>7

(* A last block that grows, of either kind.                                *)
Longer(b, f) == [b EXCEPT !.text = @ \o f]
LongerAt(bs, f) == [bs EXCEPT ![Len(bs)].text = @ \o f]

BlocksLike(kind, item, T) == {[kind |-> kind, item |-> item, text |-> t] : t \in Seq(T)}

LEMMA BlocksAlike ==
  ASSUME NEW kind, NEW item, NEW T
  PROVE  BlocksLike(kind, item, T) = [kind : {kind}, item : {item}, text : Seq(T)]
  <1>1. ASSUME NEW b \in BlocksLike(kind, item, T) PROVE b \in [kind : {kind}, item : {item}, text : Seq(T)]
    BY DEF BlocksLike
  <1>2. ASSUME NEW b \in [kind : {kind}, item : {item}, text : Seq(T)] PROVE b \in BlocksLike(kind, item, T)
    <2>1. b = [kind |-> kind, item |-> item, text |-> b.text] /\ b.text \in Seq(T)
      OBVIOUS
    <2> QED
      BY <2>1 DEF BlocksLike
  <1> QED
    BY <1>1, <1>2

LEMMA LongerBlock ==
  ASSUME NEW kind, NEW item, NEW T, NEW b \in BlocksLike(kind, item, T), NEW f \in Seq(T)
  PROVE  /\ Longer(b, f) \in BlocksLike(kind, item, T) /\ Longer(b, f).text = b.text \o f
         /\ GoesOn(b, Longer(b, f))
  <1>1. PICK t \in Seq(T) : b = [kind |-> kind, item |-> item, text |-> t]
    BY DEF BlocksLike
  <1>2. b.text = t
    BY <1>1
  <1>3. \A u : [b EXCEPT !.text = u] = [kind |-> kind, item |-> item, text |-> u]
    BY <1>1
  <1>4. Longer(b, f) = [kind |-> kind, item |-> item, text |-> b.text \o f]
    BY <1>3 DEF Longer
  <1>5. b.text \o f \in Seq(T)
    BY <1>2
  <1>6. Longer(b, f).text = b.text \o f
    BY <1>4
  <1>7. Longer(b, f) \in BlocksLike(kind, item, T)
    BY <1>4, <1>5 DEF BlocksLike
  <1>8. Longer(b, f).kind = b.kind /\ Longer(b, f).item = b.item
    BY <1>1, <1>4
  <1>9. IsPrefix(b.text, b.text \o f)
    BY <1>2, PrefixOfMore
  <1>10. GoesOn(b, Longer(b, f))
    BY <1>6, <1>8, <1>9 DEF GoesOn
  <1> QED
    BY <1>6, <1>7, <1>10

(* What a longer last block shows, b being the old one and c the new one.  *)
GrowsLast(bs, new, b, c, f) ==
  /\ new = [bs EXCEPT ![Len(bs)] = c]
  /\ TextOf(new) = TextOf(bs) \o f
  /\ \A S : (b \in S <=> c \in S) =>
       TextOf(Filter(new, S)) = IF b \in S THEN TextOf(Filter(bs, S)) \o f ELSE TextOf(Filter(bs, S))

LEMMA MarksAssociate ==
  ASSUME NEW s \in Seq(Marks), NEW t \in Seq(Marks), NEW u \in Seq(Marks)
  PROVE  (s \o t) \o u = s \o (t \o u)
  <1>1. \A T : \A a, b, c \in Seq(T) : (a \o b) \o c = a \o (b \o c)
    BY ConcatAssociative
  <1> QED
    BY <1>1

LEMMA LongerLast ==
  ASSUME NEW bs \in Seq(Blocks), Len(bs) # 0, NEW b, b = bs[Len(bs)], NEW f \in Seq(Marks),
         NEW c \in Blocks, c = Longer(b, f), c.text = b.text \o f,
         NEW new, new = LongerAt(bs, f)
  PROVE  GrowsLast(bs, new, b, c, f)
  <1>1. PICK front \in Seq(Blocks) : Len(bs) = Len(front) + 1 /\ bs = Append(front, bs[Len(bs)])
    BY LastOfSeq
  <1>2. b \in Blocks /\ bs = Append(front, b)
    BY <1>1
  <1>3. b.text \in Seq(Marks)
    BY <1>2, BlockTypes
  <1>4. new = [bs EXCEPT ![Len(bs)] = c]
    <2>1. new = [bs EXCEPT ![Len(bs)] = [bs[Len(bs)] EXCEPT !.text = bs[Len(bs)].text \o f]]
      BY DEF LongerAt
    <2>2. c = [bs[Len(bs)] EXCEPT !.text = bs[Len(bs)].text \o f]
      BY DEF Longer
    <2> QED
      BY <2>1, <2>2
  <1>5. new = Append(front, c)
    <2>1. b \in Blocks /\ c \in Blocks /\ front \in Seq(Blocks)
      BY <1>2
    <2>2. [Append(front, b) EXCEPT ![Len(front) + 1] = c] = Append(front, c)
      BY ONLY <2>1, ExtendLast
    <2>3. new = [bs EXCEPT ![Len(front) + 1] = c]
      BY <1>1, <1>4
    <2>4. bs = Append(front, b)
      BY <1>2
    <2> QED
      BY ONLY <2>2, <2>3, <2>4
  <1>6. ASSUME NEW t \in Seq(Marks) PROVE t \o (b.text \o f) = (t \o b.text) \o f
    <2>1. PICK u : u = b.text
      OBVIOUS
    <2>2. u \in Seq(Marks) /\ f \in Seq(Marks) /\ t \in Seq(Marks)
      BY <1>3, <1>6, <2>1
    <2>3. (t \o u) \o f = t \o (u \o f)
      BY ONLY <2>2, MarksAssociate
    <2> QED
      BY <2>1, <2>3
  <1>7. TextOf(new) = TextOf(bs) \o f
    <2>1. TextOf(Append(front, c)) = TextOf(front) \o c.text
      BY TextOfLast
    <2>2. TextOf(Append(front, b)) = TextOf(front) \o b.text
      BY <1>2, TextOfLast
    <2>3. TextOf(front) \in Seq(Marks)
      BY TextOfType
    <2>4. TextOf(front) \o (b.text \o f) = (TextOf(front) \o b.text) \o f
      BY <1>6, <2>3
    <2> QED
      BY <1>2, <1>5, <2>1, <2>2, <2>4, Zenon
  <1>8. ASSUME NEW S, b \in S <=> c \in S
        PROVE  TextOf(Filter(new, S)) = IF b \in S THEN TextOf(Filter(bs, S)) \o f ELSE TextOf(Filter(bs, S))
    <2> DEFINE t == TextOf(Filter(front, S))
    <2>1. TextOf(Filter(Append(front, c), S)) = IF c \in S THEN t \o c.text ELSE t
      BY TextOfFilterLast
    <2>2. TextOf(Filter(Append(front, b), S)) = IF b \in S THEN t \o b.text ELSE t
      BY <1>2, TextOfFilterLast
    <2>3. t \in Seq(Marks)
      BY FilterType, TextOfType
    <2>4. t \o (b.text \o f) = (t \o b.text) \o f
      BY <1>6, <2>3
    <2> HIDE DEF t
    <2>5. CASE b \in S
      BY <1>2, <1>5, <1>8, <2>1, <2>2, <2>4, <2>5, Zenon
    <2>6. CASE b \notin S
      BY <1>2, <1>5, <1>8, <2>1, <2>2, <2>6, Zenon
    <2> QED
      BY <2>5, <2>6
  <1> QED
    BY <1>4, <1>7, <1>8 DEF GrowsLast

-----------------------------------------------------------------------------
(* What blocks show after some text of a message, or some commands.        *)
TextGrows(old, new, id, f) ==
  /\ Shown(new) = Shown(old) \o Visible(f)
  /\ TextShown(new, id) = TextShown(old, id) \o Visible(f)
  /\ LinesShown(new) = LinesShown(old)
  /\ Extends(old, new)

LinesGrow(old, new, id, lines) ==
  /\ Shown(new) = Shown(old) \o lines
  /\ TextShown(new, id) = TextShown(old, id)
  /\ LinesShown(new) = LinesShown(old) \o lines
  /\ Extends(old, new)

LEMMA LastExtends ==
  ASSUME NEW T, NEW bs \in Seq(T), Len(bs) # 0, NEW c \in T, GoesOn(bs[Len(bs)], c),
         NEW new, new = [bs EXCEPT ![Len(bs)] = c]
  PROVE  Extends(bs, new)
  <1>1. PICK n : n = Len(bs)
    OBVIOUS
  <1>2. n \in 1..Len(bs)
    BY <1>1
  <1>3. new = [bs EXCEPT ![n] = c]
    BY <1>1
  <1>4. new \in Seq(T) /\ Len(new) = Len(bs) /\ \A i \in 1..Len(bs) : new[i] = IF i = n THEN c ELSE bs[i]
    BY <1>2, <1>3, ExceptSeq
  <1>5. DOMAIN bs = 1..Len(bs) /\ Len(bs) <= Len(new)
    <2>1. DOMAIN bs = 1..Len(bs) /\ Len(bs) \in Nat
      OBVIOUS
    <2>2. Len(new) = Len(bs)
      BY <1>4
    <2>3. Len(bs) <= Len(new)
      BY ONLY <2>1, <2>2
    <2> QED
      BY ONLY <2>1, <2>3
  <1>6. ASSUME NEW i \in 1..Len(bs) PROVE new[i] = bs[i] \/ (i = Len(bs) /\ GoesOn(bs[i], new[i]))
    <2>1. GoesOn(bs[n], c)
      BY <1>1
    <2>2. new[i] = IF i = n THEN c ELSE bs[i]
      BY <1>4
    <2> QED
      BY ONLY <1>1, <2>1, <2>2
  <1> QED
    BY <1>5, <1>6 DEF Extends

LEMMA AppendExtends ==
  ASSUME NEW T, NEW bs \in Seq(T), NEW c
  PROVE  Extends(bs, Append(bs, c)) /\ Extends(bs, bs)
  BY DEF Extends

LEMMA MoreText ==
  ASSUME NEW id, NEW old \in Seq(Blocks), NEW new, NEW f \in Seq(Chars),
         TextOf(new) = TextOf(old) \o f,
         TextOf(Filter(new, TextBlocksOf(id))) = TextOf(Filter(old, TextBlocksOf(id))) \o f,
         Extends(old, new)
  PROVE  TextGrows(old, new, id, f)
  <1> DEFINE t == TextOf(old)
  <1> DEFINE u == TextOf(Filter(old, TextBlocksOf(id)))
  <1>1. Filter(old, TextBlocksOf(id)) \in Seq(Blocks)
    BY FilterType
  <1>2. t \in Seq(Marks) /\ u \in Seq(Marks)
    BY <1>1, TextOfType
  <1>3. f \in Seq(Marks)
    BY DEF Marks
  <1> HIDE DEF t, u
  <1>4. Visible(t \o f) = Visible(t) \o Visible(f) /\ Visible(u \o f) = Visible(u) \o Visible(f)
    BY <1>2, <1>3, VisibleConcat
  <1>5. Filter(t \o f, Lines) = Filter(t, Lines) \o Filter(f, Lines)
    BY <1>2, <1>3, FilterConcat
  <1>6. Filter(f, Lines) = <<>>
    BY MessageTextHasNoLines
  <1>7. Filter(t, Lines) \in Seq(Marks)
    BY <1>2, FilterType
  <1>8. Filter(t \o f, Lines) = Filter(t, Lines)
    BY <1>5, <1>6, <1>7
  <1> QED
    BY <1>4, <1>8, Zenon DEF t, u, TextGrows, Shown, TextShown, LinesShown

LEMMA MoreLines ==
  ASSUME NEW id, NEW old \in Seq(Blocks), NEW new, NEW lines \in Seq(Lines),
         TextOf(new) = TextOf(old) \o lines,
         TextOf(Filter(new, TextBlocksOf(id))) = TextOf(Filter(old, TextBlocksOf(id))),
         Extends(old, new)
  PROVE  LinesGrow(old, new, id, lines)
  <1> DEFINE t == TextOf(old)
  <1>1. t \in Seq(Marks) /\ lines \in Seq(Marks)
    BY TextOfType DEF Marks
  <1> HIDE DEF t
  <1>2. Visible(t \o lines) = Visible(t) \o Visible(lines)
    BY <1>1, VisibleConcat
  <1>3. Filter(t \o lines, Lines) = Filter(t, Lines) \o Filter(lines, Lines)
    BY <1>1, FilterConcat
  <1>4. Visible(lines) = lines /\ Filter(lines, Lines) = lines
    BY LinesAreVisible
  <1> QED
    BY <1>2, <1>3, <1>4, Zenon DEF t, LinesGrow, Shown, TextShown, LinesShown

LEMMA NewTextBlock ==
  ASSUME NEW id \in 1..MaxMessages, NEW bs \in Seq(Blocks), NEW f \in Seq(Chars),
         NEW c, c = [kind |-> "text", item |-> id, text |-> f]
  PROVE  c \in TextBlocksOf(id) /\ c \in Blocks /\ TextGrows(bs, Append(bs, c), id, f)
  <1>1. c \in TextBlocksOf(id) /\ c \in Blocks /\ c.text = f
    BY TextBlocksAre
  <1>2. TextOf(Append(bs, c)) = TextOf(bs) \o f
    BY <1>1, TextOfLast
  <1>3. TextOf(Filter(Append(bs, c), TextBlocksOf(id))) = TextOf(Filter(bs, TextBlocksOf(id))) \o f
    BY <1>1, TextOfFilterLast
  <1>4. TextGrows(bs, Append(bs, c), id, f)
    BY <1>2, <1>3, AppendExtends, MoreText
  <1> QED
    BY <1>1, <1>4

LEMMA LongerTextBlock ==
  ASSUME NEW id \in 1..MaxMessages, NEW b \in TextBlocksOf(id), NEW f \in Seq(Chars)
  PROVE  /\ Longer(b, f) \in TextBlocksOf(id) /\ Longer(b, f) \in Blocks
         /\ Longer(b, f).text = b.text \o f /\ GoesOn(b, Longer(b, f))
  <1>1. TextBlocksOf(id) = BlocksLike("text", id, Chars)
    BY BlocksAlike DEF TextBlocksOf
  <1>2. b \in BlocksLike("text", id, Chars)
    BY <1>1
  <1>3. /\ Longer(b, f) \in BlocksLike("text", id, Chars)
        /\ Longer(b, f).text = b.text \o f /\ GoesOn(b, Longer(b, f))
    BY <1>2, LongerBlock
  <1>4. Longer(b, f) \in TextBlocksOf(id) /\ Longer(b, f).text = b.text \o f /\ GoesOn(b, Longer(b, f))
    BY <1>1, <1>3
  <1> QED
    BY <1>4, TextBlocksAre

LEMMA LongerCommandBlock ==
  ASSUME NEW b \in CommandBlocks, NEW lines \in Seq(Lines)
  PROVE  /\ Longer(b, lines) \in CommandBlocks /\ Longer(b, lines) \in Blocks
         /\ Longer(b, lines).text = b.text \o lines /\ GoesOn(b, Longer(b, lines))
  <1>1. CommandBlocks = BlocksLike("command", 0, Lines)
    BY BlocksAlike DEF CommandBlocks
  <1>2. b \in BlocksLike("command", 0, Lines)
    BY <1>1
  <1>3. /\ Longer(b, lines) \in BlocksLike("command", 0, Lines)
        /\ Longer(b, lines).text = b.text \o lines /\ GoesOn(b, Longer(b, lines))
    BY <1>2, LongerBlock
  <1>4. Longer(b, lines) \in CommandBlocks /\ Longer(b, lines).text = b.text \o lines /\ GoesOn(b, Longer(b, lines))
    BY <1>1, <1>3
  <1> QED
    BY <1>4 DEF Blocks

LEMMA LongerText ==
  ASSUME NEW id \in 1..MaxMessages, NEW bs \in Seq(Blocks), Len(bs) # 0, NEW f \in Seq(Chars),
         bs[Len(bs)] \in TextBlocksOf(id), NEW new, new = LongerAt(bs, f)
  PROVE  /\ \E c \in TextBlocksOf(id) : c \in Blocks /\ new = [bs EXCEPT ![Len(bs)] = c]
         /\ TextGrows(bs, new, id, f)
  <1>1. PICK b : b = bs[Len(bs)]
    OBVIOUS
  <1>2. PICK c : c = Longer(b, f)
    OBVIOUS
  <1>3. b \in TextBlocksOf(id)
    BY <1>1
  <1>4. c \in TextBlocksOf(id) /\ c \in Blocks /\ c.text = b.text \o f /\ GoesOn(b, c)
    <2>1. f \in Seq(Chars) /\ id \in 1..MaxMessages
      OBVIOUS
    <2> QED
      BY ONLY <1>2, <1>3, <2>1, LongerTextBlock
  <1>5. f \in Seq(Marks)
    BY DEF Marks
  <1>6. GrowsLast(bs, new, b, c, f)
    <2>1. bs \in Seq(Blocks) /\ Len(bs) # 0 /\ new = LongerAt(bs, f)
      OBVIOUS
    <2> QED
      BY ONLY <2>1, <1>1, <1>2, <1>4, <1>5, LongerLast
  <1>7. TextOf(Filter(new, TextBlocksOf(id))) = TextOf(Filter(bs, TextBlocksOf(id))) \o f
    BY ONLY <1>3, <1>4, <1>6 DEF GrowsLast
  <1>8. TextOf(new) = TextOf(bs) \o f /\ new = [bs EXCEPT ![Len(bs)] = c]
    BY <1>6 DEF GrowsLast
  <1>9. Extends(bs, new)
    BY <1>1, <1>4, <1>8, LastExtends
  <1>10. TextGrows(bs, new, id, f)
    BY <1>7, <1>8, <1>9, MoreText
  <1> QED
    BY <1>4, <1>8, <1>10

(* Commands, whatever the message.                                         *)
LEMMA NewCommandBlock ==
  ASSUME NEW id \in Nat, NEW bs \in Seq(Blocks), NEW lines \in Seq(Lines),
         NEW c, c = [kind |-> "command", item |-> 0, text |-> lines]
  PROVE  c \in CommandBlocks /\ c \in Blocks /\ LinesGrow(bs, Append(bs, c), id, lines)
  <1>1. c \in CommandBlocks /\ c \in Blocks /\ c.text = lines /\ c \notin TextBlocksOf(id)
    BY DEF CommandBlocks, TextBlocksOf, Blocks
  <1>2. TextOf(Append(bs, c)) = TextOf(bs) \o lines
    BY <1>1, TextOfLast
  <1>3. TextOf(Filter(Append(bs, c), TextBlocksOf(id))) = TextOf(Filter(bs, TextBlocksOf(id)))
    BY <1>1, TextOfFilterLast
  <1>4. LinesGrow(bs, Append(bs, c), id, lines)
    BY <1>2, <1>3, AppendExtends, MoreLines
  <1> QED
    BY <1>1, <1>4

LEMMA LongerCommands ==
  ASSUME NEW id \in Nat, NEW bs \in Seq(Blocks), Len(bs) # 0, NEW lines \in Seq(Lines),
         bs[Len(bs)] \in CommandBlocks, NEW new, new = LongerAt(bs, lines)
  PROVE  /\ \E c \in CommandBlocks : c \in Blocks /\ new = [bs EXCEPT ![Len(bs)] = c]
         /\ LinesGrow(bs, new, id, lines)
  <1>1. PICK b : b = bs[Len(bs)]
    OBVIOUS
  <1>2. PICK c : c = Longer(b, lines)
    OBVIOUS
  <1>3. b \in CommandBlocks
    BY <1>1
  <1>4. c \in CommandBlocks /\ c \in Blocks /\ c.text = b.text \o lines /\ GoesOn(b, c)
    <2>1. lines \in Seq(Lines)
      OBVIOUS
    <2> QED
      BY ONLY <1>2, <1>3, <2>1, LongerCommandBlock
  <1>5. b \notin TextBlocksOf(id) /\ c \notin TextBlocksOf(id)
    BY ONLY <1>3, <1>4 DEF CommandBlocks, TextBlocksOf
  <1>6. lines \in Seq(Marks)
    BY DEF Marks
  <1>7. GrowsLast(bs, new, b, c, lines)
    <2>1. bs \in Seq(Blocks) /\ Len(bs) # 0 /\ new = LongerAt(bs, lines)
      OBVIOUS
    <2> QED
      BY ONLY <2>1, <1>1, <1>2, <1>4, <1>6, LongerLast
  <1>8. TextOf(Filter(new, TextBlocksOf(id))) = TextOf(Filter(bs, TextBlocksOf(id)))
    BY ONLY <1>5, <1>7 DEF GrowsLast
  <1>9. TextOf(new) = TextOf(bs) \o lines /\ new = [bs EXCEPT ![Len(bs)] = c]
    BY <1>7 DEF GrowsLast
  <1>10. Extends(bs, new)
    BY <1>1, <1>4, <1>9, LastExtends
  <1>11. LinesGrow(bs, new, id, lines)
    BY <1>8, <1>9, <1>10, MoreLines
  <1> QED
    BY <1>4, <1>9, <1>11

-----------------------------------------------------------------------------
(* _append_text_fragment, and AppendLines, from any layout.                *)
Keeps(old, new, C) == \A T : C \subseteq T /\ old \in Seq(T) => new \in Seq(T)

LEMMA LastReplaced ==
  ASSUME NEW T, NEW bs \in Seq(T), Len(bs) # 0, NEW c \in T, NEW new, new = [bs EXCEPT ![Len(bs)] = c]
  PROVE  new \in Seq(T) /\ Len(new) = Len(bs) /\ new[Len(bs)] = c
  <1>1. PICK n : n = Len(bs)
    OBVIOUS
  <1>2. n \in 1..Len(bs)
    BY <1>1
  <1>3. new = [bs EXCEPT ![n] = c]
    BY <1>1
  <1>4. new \in Seq(T) /\ Len(new) = Len(bs) /\ \A i \in 1..Len(bs) : new[i] = IF i = n THEN c ELSE bs[i]
    BY <1>2, <1>3, ExceptSeq
  <1> QED
    BY <1>1, <1>2, <1>4

LEMMA ReplacedKeeps ==
  ASSUME NEW bs, Len(bs) # 0, NEW C, NEW c \in C, NEW new, new = [bs EXCEPT ![Len(bs)] = c]
  PROVE  Keeps(bs, new, C)
  <1>1. ASSUME NEW T, C \subseteq T, bs \in Seq(T) PROVE new \in Seq(T)
    BY <1>1, LastReplaced
  <1> QED
    BY <1>1 DEF Keeps

LEMMA AppendedKeeps ==
  ASSUME NEW bs, NEW C, NEW c \in C
  PROVE  Keeps(bs, Append(bs, c), C)
  <1>1. ASSUME NEW T, C \subseteq T, bs \in Seq(T) PROVE Append(bs, c) \in Seq(T)
    BY <1>1
  <1> QED
    BY <1>1 DEF Keeps

LayoutOf(bs, index, open) == [blocks |-> bs, textBlock |-> index, segmentOpen |-> open]

LEMMA LayoutFields ==
  ASSUME NEW bs, NEW index, NEW open
  PROVE  /\ LayoutOf(bs, index, open).blocks = bs
         /\ LayoutOf(bs, index, open).textBlock = index
         /\ LayoutOf(bs, index, open).segmentOpen = open
  BY DEF LayoutOf

NewBlock(id, f) == [kind |-> "text", item |-> id, text |-> f]

LEMMA FragmentAppended ==
  ASSUME NEW bs, NEW index, NEW open, NEW id, NEW f, NEW next,
         next = AppendFragment(LayoutOf(bs, index, open), id, f)
  PROVE  /\ IsBlank(f) => next = LayoutOf(bs, index, open)
         /\ ~IsBlank(f) => ~next.segmentOpen
         /\ ~IsBlank(f) /\ index # 0 /\ index = Len(bs) =>
              next.blocks = LongerAt(bs, f) /\ next.textBlock = index
         /\ ~IsBlank(f) /\ ~(index # 0 /\ index = Len(bs)) =>
              next.blocks = Append(bs, NewBlock(id, f)) /\ next.textBlock = Len(bs) + 1
  <1>1. PICK L : L = LayoutOf(bs, index, open)
    OBVIOUS
  <1>2. L.blocks = bs /\ L.textBlock = index
    BY <1>1, LayoutFields
  <1>3. \A x : [L EXCEPT !.segmentOpen = FALSE, !.blocks = x] = LayoutOf(x, index, FALSE)
    <2>1. \A o, x : [L EXCEPT !.segmentOpen = o, !.blocks = x] = LayoutOf(x, index, o)
      <3>1. L = [blocks |-> bs, textBlock |-> index, segmentOpen |-> open]
        BY <1>1 DEF LayoutOf
      <3>2. \A o : [L EXCEPT !.segmentOpen = o] = [blocks |-> bs, textBlock |-> index, segmentOpen |-> o]
        BY <3>1
      <3>3. \A o, x : [[blocks |-> bs, textBlock |-> index, segmentOpen |-> o] EXCEPT !.blocks = x]
                        = [blocks |-> x, textBlock |-> index, segmentOpen |-> o]
        OBVIOUS
      <3> QED
        BY <3>2, <3>3 DEF LayoutOf
    <2> QED
      BY <2>1
  <1>4. [L EXCEPT !.segmentOpen = FALSE, !.blocks[L.textBlock].text = @ \o f]
          = LayoutOf([bs EXCEPT ![index].text = @ \o f], index, FALSE)
    <2>1. [L EXCEPT !.segmentOpen = FALSE, !.blocks[L.textBlock].text = @ \o f]
            = [L EXCEPT !.segmentOpen = FALSE, !.blocks = [L.blocks EXCEPT ![L.textBlock].text = @ \o f]]
      OBVIOUS
    <2>2. [L.blocks EXCEPT ![L.textBlock].text = @ \o f] = [bs EXCEPT ![index].text = @ \o f]
      BY <1>2, Zenon
    <2> QED
      BY <1>3, <2>1, <2>2, Zenon
  <1>5. [blocks |-> Append(L.blocks, [kind |-> "text", item |-> id, text |-> f]),
         textBlock |-> Len(L.blocks) + 1, segmentOpen |-> FALSE]
          = LayoutOf(Append(bs, [kind |-> "text", item |-> id, text |-> f]), Len(bs) + 1, FALSE)
    BY <1>2, Zenon DEF LayoutOf
  <1>6. next = IF IsBlank(f) THEN L
               ELSE IF index # 0 /\ index = Len(bs)
                    THEN LayoutOf([bs EXCEPT ![index].text = @ \o f], index, FALSE)
                    ELSE LayoutOf(Append(bs, [kind |-> "text", item |-> id, text |-> f]), Len(bs) + 1, FALSE)
    BY <1>1, <1>2, <1>4, <1>5, Zenon DEF AppendFragment
  <1>7. CASE IsBlank(f)
    BY <1>1, <1>6, <1>7, Zenon
  <1>8. CASE ~IsBlank(f) /\ index # 0 /\ index = Len(bs)
    <2>1. next = LayoutOf(LongerAt(bs, f), index, FALSE)
      BY <1>6, <1>8, Zenon DEF LongerAt
    <2>2. next.blocks = LongerAt(bs, f) /\ next.textBlock = index /\ next.segmentOpen = FALSE
      BY <2>1 DEF LayoutOf
    <2> QED
      BY <1>8, <2>2
  <1>9. CASE ~IsBlank(f) /\ ~(index # 0 /\ index = Len(bs))
    <2>1. next = LayoutOf(Append(bs, NewBlock(id, f)), Len(bs) + 1, FALSE)
      BY <1>6, <1>9, Zenon DEF NewBlock
    <2>2. next.blocks = Append(bs, NewBlock(id, f)) /\ next.textBlock = Len(bs) + 1 /\ next.segmentOpen = FALSE
      BY <2>1 DEF LayoutOf
    <2> QED
      BY <1>9, <2>2
  <1> QED
    BY <1>7, <1>8, <1>9

(* Whatever the layout, text of a message goes to its end.                 *)
TextGoesOn(bs, next, id, f) ==
  /\ LayoutOK(next.blocks, next.textBlock, next.segmentOpen, id)
  /\ TextGrows(bs, next.blocks, id, f)
  /\ Keeps(bs, next.blocks, TextBlocksOf(id))

LEMMA NothingGrows ==
  ASSUME NEW id, NEW bs \in Seq(Blocks), NEW f, Visible(f) = <<>>
  PROVE  TextGrows(bs, bs, id, f) /\ Keeps(bs, bs, TextBlocksOf(id))
  <1>1. Filter(bs, TextBlocksOf(id)) \in Seq(Blocks)
    BY FilterType
  <1>2. Shown(bs) \in Seq(Marks) /\ TextShown(bs, id) \in Seq(Marks)
    BY <1>1, TextOfType, FilterType DEF Shown, TextShown, Visible
  <1>3. Shown(bs) \o <<>> = Shown(bs) /\ TextShown(bs, id) \o <<>> = TextShown(bs, id)
    BY <1>2
  <1> QED
    BY <1>3, AppendExtends DEF TextGrows, Keeps

LEMMA TextAtTheEnd ==
  ASSUME NEW id \in 1..MaxMessages, NEW bs, NEW index, NEW open, LayoutOK(bs, index, open, id),
         NEW f \in Seq(Chars), NEW next, next = AppendFragment(LayoutOf(bs, index, open), id, f)
  PROVE  TextGoesOn(bs, next, id, f)
  <1>1. bs \in Seq(Blocks) /\ Len(bs) \in Nat
    BY DEF LayoutOK
  <1>0. /\ IsBlank(f) => next = LayoutOf(bs, index, open)
        /\ ~IsBlank(f) => ~next.segmentOpen
        /\ ~IsBlank(f) /\ index # 0 /\ index = Len(bs) =>
             next.blocks = LongerAt(bs, f) /\ next.textBlock = index
        /\ ~IsBlank(f) /\ ~(index # 0 /\ index = Len(bs)) =>
             next.blocks = Append(bs, NewBlock(id, f)) /\ next.textBlock = Len(bs) + 1
    <2>1. next = AppendFragment(LayoutOf(bs, index, open), id, f)
      OBVIOUS
    <2> QED
      BY ONLY <2>1, FragmentAppended
  <1>2. CASE IsBlank(f)
    <2>1. next = LayoutOf(bs, index, open)
      BY <1>0, <1>2
    <2>2. next.blocks = bs /\ next.textBlock = index /\ next.segmentOpen = open
      BY <2>1, LayoutFields
    <2>3. TextGrows(bs, bs, id, f) /\ Keeps(bs, bs, TextBlocksOf(id))
      BY <1>1, <1>2, NothingGrows DEF IsBlank
    <2> QED
      BY <2>2, <2>3 DEF TextGoesOn
  <1>3. CASE ~IsBlank(f) /\ index # 0 /\ index = Len(bs)
    <2>1. PICK new : new = LongerAt(bs, f)
      OBVIOUS
    <2>3. next.blocks = new /\ next.textBlock = index /\ ~next.segmentOpen
      BY <1>0, <1>3, <2>1
    <2>4. bs[Len(bs)] \in TextBlocksOf(id) /\ Len(bs) # 0
      BY <1>3 DEF LayoutOK
    <2>5. /\ \E c \in TextBlocksOf(id) : c \in Blocks /\ new = [bs EXCEPT ![Len(bs)] = c]
          /\ TextGrows(bs, new, id, f)
      BY <1>1, <2>1, <2>4, LongerText
    <2>6. PICK c \in TextBlocksOf(id) : c \in Blocks /\ new = [bs EXCEPT ![Len(bs)] = c]
      BY <2>5
    <2>7. new \in Seq(Blocks) /\ Len(new) = Len(bs) /\ new[Len(bs)] = c
      BY <1>1, <2>4, <2>6, LastReplaced
    <2>8. Keeps(bs, new, TextBlocksOf(id))
      BY <2>4, <2>6, ReplacedKeeps
    <2>9. LayoutOK(new, index, next.segmentOpen, id)
      BY <1>1, <1>3, <2>3, <2>6, <2>7 DEF LayoutOK
    <2> QED
      BY <2>3, <2>5, <2>8, <2>9 DEF TextGoesOn
  <1>4. CASE ~IsBlank(f) /\ ~(index # 0 /\ index = Len(bs))
    <2>1. PICK c : c = [kind |-> "text", item |-> id, text |-> f]
      OBVIOUS
    <2>2. PICK new : new = Append(bs, c)
      OBVIOUS
    <2>4. next.blocks = new /\ next.textBlock = Len(bs) + 1 /\ ~next.segmentOpen
      BY <1>0, <1>4, <2>1, <2>2, Zenon DEF NewBlock
    <2>5. c \in TextBlocksOf(id) /\ c \in Blocks /\ TextGrows(bs, new, id, f)
      BY <1>1, <2>1, <2>2, NewTextBlock
    <2>6. Keeps(bs, new, TextBlocksOf(id))
      BY <2>2, <2>5, AppendedKeeps
    <2>7. new \in Seq(Blocks) /\ Len(new) = Len(bs) + 1 /\ new[Len(bs) + 1] = c
      BY <1>1, <2>2, <2>5
    <2>8. LayoutOK(new, Len(bs) + 1, next.segmentOpen, id)
      BY <1>1, <2>4, <2>5, <2>7 DEF LayoutOK
    <2> QED
      BY <2>4, <2>5, <2>6, <2>8 DEF TextGoesOn
  <1> QED
    BY <1>2, <1>3, <1>4

(* And so do the lines of a command.                                       *)
LEMMA LinesAtTheEnd ==
  ASSUME NEW id \in Nat, LayoutOK(blocks, textBlock, segmentOpen, id),
         NEW lines \in Seq(Lines), AppendLines(lines)
  PROVE  /\ LayoutOK(blocks', textBlock, segmentOpen', id)
         /\ LinesGrow(blocks, blocks', id, lines)
         /\ Keeps(blocks, blocks', CommandBlocks)
  <1>1. blocks \in Seq(Blocks) /\ Len(blocks) \in Nat
    BY DEF LayoutOK
  <1>2. CASE segmentOpen
    <2>1. blocks' = LongerAt(blocks, lines) /\ segmentOpen' = segmentOpen
      BY <1>2 DEF AppendLines, LongerAt
    <2>2. blocks # <<>> /\ blocks[Len(blocks)] \in CommandBlocks
      BY <1>2 DEF LayoutOK
    <2>3. Len(blocks) # 0
      BY <1>1, <2>2
    <2>4. PICK new : new = blocks'
      OBVIOUS
    <2>5. /\ \E c \in CommandBlocks : c \in Blocks /\ new = [blocks EXCEPT ![Len(blocks)] = c]
          /\ LinesGrow(blocks, new, id, lines)
      <3>1. new = LongerAt(blocks, lines) /\ id \in Nat /\ blocks \in Seq(Blocks) /\ lines \in Seq(Lines)
        BY <1>1, <2>1, <2>4
      <3> QED
        BY ONLY <3>1, <2>2, <2>3, LongerCommands
    <2>6. PICK c \in CommandBlocks : c \in Blocks /\ new = [blocks EXCEPT ![Len(blocks)] = c]
      BY <2>5
    <2>7. new \in Seq(Blocks) /\ Len(new) = Len(blocks) /\ new[Len(blocks)] = c
      BY <1>1, <2>3, <2>6, LastReplaced
    <2>8. Keeps(blocks, new, CommandBlocks)
      BY <2>3, <2>6, ReplacedKeeps
    <2>9. textBlock # Len(blocks)
      BY <1>1, <2>2, <2>3, CommandsAreNotText DEF LayoutOK
    <2>10. textBlock \in 1..Len(blocks) /\ textBlock # Len(blocks) => new[textBlock] = blocks[textBlock]
      BY <1>1, <2>6
    <2>11. LayoutOK(new, textBlock, segmentOpen, id)
      <3>1. textBlock \in 0..Len(new) /\ new # <<>> /\ new[Len(new)] \in CommandBlocks
        BY <1>1, <2>3, <2>6, <2>7 DEF LayoutOK
      <3>2. textBlock # 0 => new[textBlock] \in TextBlocksOf(id)
        BY <1>1, <2>9, <2>10 DEF LayoutOK
      <3> QED
        BY <2>7, <3>1, <3>2 DEF LayoutOK
    <2> QED
      BY <2>1, <2>4, <2>5, <2>8, <2>11
  <1>3. CASE ~segmentOpen
    <2>1. PICK c : c = [kind |-> "command", item |-> 0, text |-> lines]
      OBVIOUS
    <2>2. PICK new : new = Append(blocks, c)
      OBVIOUS
    <2>3. blocks' = new /\ segmentOpen' = TRUE
      BY <1>3, <2>1, <2>2, Zenon DEF AppendLines
    <2>4. c \in CommandBlocks /\ c \in Blocks /\ LinesGrow(blocks, new, id, lines)
      BY <1>1, <2>1, <2>2, NewCommandBlock
    <2>5. Keeps(blocks, new, CommandBlocks)
      BY <2>2, <2>4, AppendedKeeps
    <2>6. /\ new \in Seq(Blocks) /\ Len(new) = Len(blocks) + 1 /\ new[Len(new)] = c
          /\ \A i \in 1..Len(blocks) : new[i] = blocks[i]
      BY <1>1, <2>2, <2>4
    <2>7. LayoutOK(new, textBlock, TRUE, id)
      BY <1>1, <2>4, <2>6 DEF LayoutOK
    <2> QED
      BY <2>3, <2>4, <2>5, <2>7
  <1> QED
    BY <1>2, <1>3

-----------------------------------------------------------------------------
(* The inductive invariant: what is known of the current message, how the  *)
(* layout shows the active one and goes on from there, and what the layout *)
(* shows altogether.  Blocks of messages to come are what a new message    *)
(* must not find.                                                          *)
KnownInv ==
  /\ MessageIsKnown
  /\ active \in 0..MaxMessages /\ current \in 0..MaxMessages /\ seen \subseteq Commands
  /\ aggregated \in Seq(Chars) /\ said \in Seq(Chars)
  /\ rendered = Len(aggregated)

LayoutInv ==
  /\ LayoutOK(blocks, textBlock, segmentOpen, active)
  /\ blocks \in Seq(ItemsUpTo(active))
  /\ TextShown(blocks, active) = Visible(aggregated)

ShownInv ==
  /\ transcript \in Seq(Marks)
  /\ corrected = {} => Shown(blocks) = transcript
  /\ LinesShown(blocks) = Filter(transcript, Lines)

IInv == KnownInv /\ LayoutInv /\ ShownInv

(* CodexOutputClassifier, and _handle_output_event, on an agent message.   *)
LEMMA DeltaEvent ==
  ASSUME NEW id, NEW text, text # <<>>, Notify("delta", "agentMessage", id, text)
  PROVE  AppendText(id, text) /\ UNCHANGED seen
  <1> PICK e : e = [kind |-> "delta", channel |-> "agentMessage", item |-> id, text |-> text]
    OBVIOUS
  <1>1. Classify([method |-> "delta", type |-> "agentMessage", item |-> id, text |-> text]) = e
    BY DEF Classify, TextTypes
  <1>2. HandleOutputEvent(e)
    BY <1>1, Zenon DEF Notify
  <1>3. IsMessageText(e) /\ ~IsCommandToShow(e) /\ e.kind # "message"
    BY DEF IsMessageText, IsCommandToShow
  <1> QED
    BY <1>2, <1>3 DEF HandleOutputEvent

LEMMA MessageEvent ==
  ASSUME NEW id, NEW text, Notify("item/completed", "agentMessage", id, text)
  PROVE  /\ text # <<>> => ReplaceText(id, text) /\ UNCHANGED seen
         /\ text = <<>> => UNCHANGED replyVars
  <1> PICK e : e = [kind |-> "message", channel |-> "agentMessage", item |-> id, text |-> text]
    OBVIOUS
  <1>1. Classify([method |-> "item/completed", type |-> "agentMessage", item |-> id, text |-> text]) = e
    BY DEF Classify, TextTypes
  <1>2. HandleOutputEvent(e)
    BY <1>1, Zenon DEF Notify
  <1>3. /\ IsMessageText(e) <=> text # <<>>
        /\ ~IsCommandToShow(e) /\ e.kind # "delta"
    BY DEF IsMessageText, IsCommandToShow
  <1> QED
    BY <1>2, <1>3 DEF HandleOutputEvent

(* On a command as it starts, and on whatever else is not shown.           *)
LEMMA CommandEvent ==
  ASSUME NEW id, Notify("item/started", "commandExecution", id, <<>>)
  PROVE  /\ DisplayCommands(id) # <<>> => ShowCommand(id, DisplayCommands(id))
         /\ DisplayCommands(id) = <<>> => UNCHANGED replyVars
  <1> PICK e : e = [kind |-> "command", item |-> id, lines |-> DisplayCommands(id)]
    OBVIOUS
  <1>1. Classify([method |-> "item/started", type |-> "commandExecution", item |-> id, text |-> <<>>]) = e
    BY DEF Classify, TextTypes
  <1>2. HandleOutputEvent(e)
    BY <1>1, Zenon DEF Notify
  <1>3. ~IsMessageText(e) /\ (IsCommandToShow(e) <=> DisplayCommands(id) # <<>>)
    BY DEF IsMessageText, IsCommandToShow
  <1> QED
    BY <1>2, <1>3 DEF HandleOutputEvent

LEMMA OtherEvent ==
  ASSUME NEW method \in {"delta", "item/completed"}, NEW type, type # "agentMessage", NEW id, NEW text,
         Notify(method, type, id, text)
  PROVE  UNCHANGED replyVars
  <1> PICK n : n = [method |-> method, type |-> type, item |-> id, text |-> text]
    OBVIOUS
  <1>1. HandleOutputEvent(Classify(n))
    BY DEF Notify
  <1>2. ~IsMessageText(Classify(n))
    BY DEF Classify, IsMessageText
  <1>3. ~IsCommandToShow(Classify(n))
    BY DEF Classify, IsCommandToShow
  <1> QED
    BY <1>1, <1>2, <1>3 DEF HandleOutputEvent

-----------------------------------------------------------------------------
(* What is known of the message that Codex goes on with, or begins.        *)
SaidOf(id) == IF id = current THEN said ELSE <<>>

LEMMA KnownIsSaid ==
  ASSUME KnownInv, NEW id \in {current, current + 1} \ corrected, id \in 1..MaxMessages
  PROVE  Known(id) = SaidOf(id) /\ RenderedOf(id) = Len(SaidOf(id)) /\ SaidOf(id) \in Seq(Chars)
  <1>1. CASE id = current
    BY <1>1 DEF KnownInv, MessageIsKnown, SaidOf
  <1>2. CASE id # current
    <2>1. NewContext(id)
      BY <1>2 DEF KnownInv, MessageIsKnown, NewContext
    <2> QED
      BY <1>2, <2>1 DEF Known, RenderedOf, SaidOf
  <1> QED
    BY <1>1, <1>2

(* A step after which the service knows the text it was told.              *)
LEMMA ToldText ==
  ASSUME KnownInv, NEW id \in 1..MaxMessages, NEW text \in Seq(Chars), active' = id, current' = id,
         aggregated' = text, rendered' = Len(text), said' = text, seen' = seen
  PROVE  KnownInv'
  <1>1. Known(id)' = text /\ RenderedOf(id)' = Len(text) /\ Len(text) \in Nat
    BY DEF Known, RenderedOf, NewContext
  <1>2. IsPrefix(text, text)
    BY PrefixOfAll
  <1>3. MessageIsKnown'
    BY <1>1, <1>2 DEF MessageIsKnown, Known, RenderedOf, NewContext
  <1> QED
    BY <1>1, <1>3 DEF KnownInv

LEMMA Retyped ==
  ASSUME NEW T, NEW U, NEW s \in Seq(T), ToSet(s) \subseteq U
  PROVE  s \in Seq(U)
  <1>1. Len(s) \in Nat /\ \A i \in 1..Len(s) : s[i] \in U
    BY DEF ToSet
  <1> QED
    BY <1>1

LEMMA FragmentTypes ==
  ASSUME NEW f \in Fragments
  PROVE  f \in Seq(Chars) /\ f # <<>>
  <1>1. f \in Seq(STRING \cup {Blank}) /\ f # <<>>
    BY ReplyTextAssumption
  <1>2. ToSet(f) \subseteq Chars
    BY DEF Chars
  <1> QED
    BY <1>1, <1>2, Retyped

LEMMA CommandTypes ==
  ASSUME NEW id \in Commands
  PROVE  DisplayCommands(id) \in Seq(Lines)
  <1>1. Parts[id] \in Seq(STRING)
    BY ReplyTextAssumption
  <1>2. \E T : DisplayCommands(id) \in Seq(T)
    <2>1. <<CommandLine[id]>> \in Seq({CommandLine[id]}) /\ <<>> \in Seq(STRING)
      OBVIOUS
    <2> QED
      BY <1>1, <2>1, Zenon DEF DisplayCommands
  <1>3. ToSet(DisplayCommands(id)) \subseteq Lines
    BY DEF Lines
  <1> QED
    BY <1>2, <1>3, Retyped

LEMMA DeltaIsKnown ==
  ASSUME KnownInv, NEW id \in 1..MaxMessages, NEW f \in Fragments, Delta(id, f)
  PROVE  KnownInv'
  <1>1. /\ id \in {current, current + 1} \ corrected /\ current' = id /\ said' = SaidOf(id) \o f
        /\ Notify("delta", "agentMessage", id, f)
    BY DEF Delta, SaidOf
  <1>2. Known(id) = SaidOf(id) /\ SaidOf(id) \in Seq(Chars)
    BY <1>1, KnownIsSaid
  <1>3. f \in Seq(Chars) /\ f # <<>>
    BY FragmentTypes
  <1>4. AppendText(id, f) /\ seen' = seen
    BY <1>1, <1>3, DeltaEvent
  <1>5. active' = id /\ aggregated' = SaidOf(id) \o f /\ rendered' = Len(SaidOf(id) \o f)
    BY <1>2, <1>4 DEF AppendText, RenderFrom
  <1>6. SaidOf(id) \o f \in Seq(Chars)
    BY <1>2, <1>3, PrefixOfMore
  <1> QED
    BY <1>1, <1>4, <1>5, <1>6, ToldText

LEMMA WholeMessageIsKnown ==
  ASSUME KnownInv, NEW id \in 1..MaxMessages, NEW more \in Fragments \cup {<<>>}, Message(id, more)
  PROVE  KnownInv'
  <1> PICK text : text = SaidOf(id) \o more
    OBVIOUS
  <1>1. /\ id \in {current, current + 1} \ corrected /\ current' = id /\ said' = text
        /\ corrected' = corrected
        /\ Notify("item/completed", "agentMessage", id, text)
    BY DEF Message, SaidOf
  <1>2. /\ Known(id) = SaidOf(id) /\ RenderedOf(id) = Len(SaidOf(id)) /\ SaidOf(id) \in Seq(Chars)
    BY <1>1, KnownIsSaid
  <1>3. more \in Seq(Chars)
    <2>1. <<>> \in Seq(Chars)
      OBVIOUS
    <2>2. CASE more \in Fragments
      BY <2>2, FragmentTypes
    <2> QED
      BY <2>1, <2>2
  <1>4. IsPrefix(SaidOf(id), text) /\ text \in Seq(Chars)
    BY <1>2, <1>3, PrefixOfMore
  <1>5. /\ text # <<>> => ReplaceText(id, text) /\ UNCHANGED seen
        /\ text = <<>> => UNCHANGED replyVars
    <2>1. Notify("item/completed", "agentMessage", id, text)
      BY <1>1
    <2> QED
      BY ONLY <2>1, MessageEvent
  <1>6. CASE text # <<>>
    <2>1. SubSeq(Known(id), 1, RenderedOf(id)) = SaidOf(id)
      BY <1>2, PrefixOfAll
    <2>2. active' = id /\ aggregated' = text /\ rendered' = Len(text) /\ seen' = seen
      BY <1>4, <1>5, <1>6, <2>1 DEF ReplaceText, RenderFrom
    <2> QED
      BY <1>1, <1>4, <2>2, ToldText
  <1>7. CASE text = <<>>
    <2>1. UNCHANGED <<aggregated, rendered, active, seen>>
      BY <1>5, <1>7 DEF replyVars
    <2>2. SaidOf(id) = <<>>
      <3>1. Len(SaidOf(id) \o more) = Len(SaidOf(id)) + Len(more) /\ Len(SaidOf(id)) \in Nat /\ Len(more) \in Nat
        BY <1>2, <1>3
      <3>2. Len(SaidOf(id) \o more) = 0
        BY <1>7
      <3> QED
        BY <1>2, <3>1, <3>2
    <2>3. Known(id)' = <<>> /\ RenderedOf(id)' = 0
      BY <1>2, <2>1, <2>2 DEF Known, RenderedOf, NewContext
    <2>4. active <= id
      BY <1>1 DEF KnownInv, MessageIsKnown
    <2>5. IsPrefix(text, text) /\ Len(text) = 0
      BY <1>4, <1>7, PrefixOfAll
    <2>6. MessageIsKnown'
      BY <1>1, <1>7, <2>1, <2>3, <2>4, <2>5 DEF MessageIsKnown, Known, RenderedOf, NewContext
    <2> QED
      BY <1>1, <1>4, <2>1, <2>6 DEF KnownInv
  <1> QED
    BY <1>6, <1>7

LEMMA CorrectionIsKnown ==
  ASSUME KnownInv, NEW text \in Fragments, Correction(text)
  PROVE  KnownInv'
  <1>1. /\ current \notin corrected /\ current # 0 /\ ~IsPrefix(said, text)
        /\ corrected' = corrected \cup {current} /\ said' = text /\ current' = current
        /\ Notify("item/completed", "agentMessage", current, text)
    BY DEF Correction
  <1>2. text \in Seq(Chars) /\ text # <<>>
    BY FragmentTypes
  <1>3. current \in 1..MaxMessages
    BY <1>1 DEF KnownInv
  <1>4. Known(current) = said /\ RenderedOf(current) = Len(said) /\ said \in Seq(Chars)
    BY <1>1 DEF KnownInv, MessageIsKnown
  <1>5. ReplaceText(current, text) /\ seen' = seen
    BY <1>1, <1>2, MessageEvent
  <1>6. SubSeq(Known(current), 1, RenderedOf(current)) = said
    BY <1>4, PrefixOfAll
  <1>7. \/ IsPrefix(text, said) /\ aggregated' = said /\ rendered' = Len(said)
        \/ aggregated' = text /\ rendered' = Len(text)
    BY <1>1, <1>4, <1>5, <1>6 DEF ReplaceText, RenderFrom
  <1>8. active' = current
    BY <1>5 DEF ReplaceText
  <1>9. CASE aggregated' = text /\ rendered' = Len(text)
    BY <1>1, <1>2, <1>3, <1>5, <1>8, <1>9, ToldText
  <1>10. CASE IsPrefix(text, said) /\ aggregated' = said /\ rendered' = Len(said)
    <2>1. Known(current)' = said /\ RenderedOf(current)' = Len(said)
      BY <1>1, <1>8, <1>10 DEF Known, RenderedOf, NewContext
    <2>2. MessageIsKnown'
      BY <1>1, <1>3, <1>8, <1>10, <2>1 DEF MessageIsKnown, Known, RenderedOf, NewContext
    <2>3. Len(said) \in Nat
      BY <1>4
    <2> QED
      BY <1>1, <1>2, <1>3, <1>4, <1>5, <1>8, <1>10, <2>2, <2>3 DEF KnownInv
  <1> QED
    BY <1>7, <1>9, <1>10


-----------------------------------------------------------------------------
(* The layout a message is shown in: its own, or that of a new message, of *)
(* which nothing is shown yet.                                             *)
LEMMA ItemsAbove ==
  ASSUME NEW n \in Nat, NEW id \in Nat, n < id
  PROVE  /\ \A bs \in Seq(ItemsUpTo(n)) : bs \in Seq(ItemsUpTo(id))
         /\ TextBlocksOf(id) \cap ItemsUpTo(n) = {}
  <1>1. ItemsUpTo(n) \subseteq ItemsUpTo(id)
    BY DEF ItemsUpTo, Blocks, TextBlocks, CommandBlocks
  <1>2. TextBlocksOf(id) \cap ItemsUpTo(n) = {}
    BY DEF ItemsUpTo, TextBlocksOf
  <1> QED
    BY <1>1, <1>2

LEMMA ItemsAre ==
  ASSUME NEW n \in Nat
  PROVE  /\ CommandBlocks \subseteq ItemsUpTo(n)
         /\ n \in 1..MaxMessages => TextBlocksOf(n) \subseteq ItemsUpTo(n)
  <1>1. CommandBlocks \subseteq ItemsUpTo(n)
    BY DEF ItemsUpTo, Blocks, CommandBlocks
  <1>2. ASSUME n \in 1..MaxMessages PROVE TextBlocksOf(n) \subseteq ItemsUpTo(n)
    <2>1. \A b \in TextBlocksOf(n) : b \in Blocks /\ b.item = n
      BY <1>2, TextBlocksAre
    <2>2. n <= n
      OBVIOUS
    <2> QED
      BY <2>1, <2>2 DEF ItemsUpTo
  <1> QED
    BY <1>1, <1>2

LEMMA NothingShown ==
  ASSUME NEW bs, NEW id, Filter(bs, TextBlocksOf(id)) = <<>>
  PROVE  TextShown(bs, id) = <<>>
  BY TextOfEmpty, FilterEmpty DEF TextShown, Visible

LEMMA ContextShows ==
  ASSUME IInv, NEW id \in 1..MaxMessages, active <= id
  PROVE  /\ \E index, open : LayoutFor(id) = LayoutOf(blocks, index, open) /\ LayoutOK(blocks, index, open, id)
         /\ blocks \in Seq(ItemsUpTo(id))
         /\ TextShown(blocks, id) = Visible(Known(id))
         /\ Known(id) \in Seq(Chars) /\ RenderedOf(id) = Len(Known(id))
  <1>1. CASE id = active
    <2>1. LayoutFor(id) = LayoutOf(blocks, textBlock, segmentOpen) /\ LayoutOK(blocks, textBlock, segmentOpen, id)
      BY <1>1 DEF IInv, LayoutInv, LayoutFor, Layout, NewContext, LayoutOf
    <2>2. blocks \in Seq(ItemsUpTo(id)) /\ TextShown(blocks, id) = Visible(Known(id))
      BY <1>1 DEF IInv, LayoutInv, Known, NewContext
    <2>3. Known(id) \in Seq(Chars) /\ RenderedOf(id) = Len(Known(id))
      BY <1>1 DEF IInv, KnownInv, Known, RenderedOf, NewContext
    <2> QED
      BY <2>1, <2>2, <2>3
  <1>2. CASE id # active
    <2>1. active \in Nat /\ active < id /\ blocks \in Seq(ItemsUpTo(active)) /\ blocks \in Seq(Blocks)
      BY <1>2 DEF IInv, KnownInv, LayoutInv, LayoutOK
    <2>2. LayoutFor(id) = LayoutOf(blocks, 0, FALSE) /\ LayoutOK(blocks, 0, FALSE, id)
      BY <1>2, <2>1 DEF LayoutOK, LayoutFor, NewContext, LayoutOf
    <2>3. blocks \in Seq(ItemsUpTo(id)) /\ TextBlocksOf(id) \cap ItemsUpTo(active) = {}
      BY <2>1, ItemsAbove
    <2>4. Filter(blocks, TextBlocksOf(id)) = <<>>
      BY <2>1, <2>3, FilterNone
    <2>5. Known(id) = <<>> /\ RenderedOf(id) = 0
      BY <1>2 DEF Known, RenderedOf, NewContext
    <2>6. TextShown(blocks, id) = <<>> /\ Visible(<<>>) = <<>>
      BY <2>4, NothingShown, FilterEmpty DEF Visible
    <2>7. \E index, open : LayoutFor(id) = LayoutOf(blocks, index, open) /\ LayoutOK(blocks, index, open, id)
      BY <2>2
    <2>8. <<>> \in Seq(Chars) /\ Len(<<>>) = 0
      OBVIOUS
    <2> QED
      BY <2>3, <2>5, <2>6, <2>7, <2>8
  <1> QED
    BY <1>1, <1>2

(* _append_unrendered_agent_text from a layout that shows what is rendered.*)
LEMMA WhatIsNew ==
  ASSUME NEW T, NEW s \in Seq(T), NEW f \in Seq(T)
  PROVE  SubSeq(s \o f, Len(s) + 1, Len(s \o f)) = f
  OBVIOUS

LEMMA Rendered ==
  ASSUME NEW id \in 1..MaxMessages, NEW bs, NEW index, NEW open, LayoutOK(bs, index, open, id),
         bs \in Seq(ItemsUpTo(id)), NEW known \in Seq(Chars), TextShown(bs, id) = Visible(known),
         NEW f \in Seq(Chars), NEW text, text = known \o f, NEW from, from = Len(known),
         active' = id, RenderFrom(LayoutOf(bs, index, open), id, text, from)
  PROVE  LayoutInv' /\ TextGrows(bs, blocks', id, f) /\ aggregated' = text /\ rendered' = Len(text)
  <1>1. SubSeq(text, from + 1, Len(text)) = f
    BY WhatIsNew
  <1>2. PICK next : next = AppendFragment(LayoutOf(bs, index, open), id, f)
    OBVIOUS
  <1>3. /\ aggregated' = text /\ rendered' = Len(text)
        /\ blocks' = next.blocks /\ textBlock' = next.textBlock /\ segmentOpen' = next.segmentOpen
    BY <1>1, <1>2 DEF RenderFrom
  <1>4. TextGoesOn(bs, next, id, f)
    BY <1>2, TextAtTheEnd
  <1>5. /\ LayoutOK(blocks', textBlock', segmentOpen', id)
        /\ TextGrows(bs, blocks', id, f)
        /\ Keeps(bs, blocks', TextBlocksOf(id))
    BY <1>3, <1>4, Zenon DEF TextGoesOn
  <1>6. blocks' \in Seq(ItemsUpTo(id))
    BY <1>5, ItemsAre DEF Keeps
  <1>7. TextShown(blocks', id) = Visible(text)
    <2>0. known \in Seq(Marks) /\ f \in Seq(Marks)
      BY DEF Marks
    <2>1. Visible(known \o f) = Visible(known) \o Visible(f)
      BY <2>0, VisibleConcat
    <2> QED
      BY <1>5, <2>1 DEF TextGrows
  <1>8. LayoutInv'
    BY <1>3, <1>5, <1>6, <1>7 DEF LayoutInv
  <1> QED
    BY <1>3, <1>5, <1>8

-----------------------------------------------------------------------------
(* New text of the current message, however it arrives.                    *)
LEMMA TextIsShown ==
  ASSUME IInv, NEW id \in 1..MaxMessages, active <= id, NEW f \in Seq(Chars), active' = id,
         RenderFrom(LayoutFor(id), id, Known(id) \o f, RenderedOf(id))
  PROVE  LayoutInv' /\ TextGrows(blocks, blocks', id, f)
  <1>1. /\ \E index, open : LayoutFor(id) = LayoutOf(blocks, index, open) /\ LayoutOK(blocks, index, open, id)
        /\ blocks \in Seq(ItemsUpTo(id))
        /\ TextShown(blocks, id) = Visible(Known(id))
        /\ Known(id) \in Seq(Chars) /\ RenderedOf(id) = Len(Known(id))
    BY ContextShows
  <1>2. PICK index, open : LayoutFor(id) = LayoutOf(blocks, index, open) /\ LayoutOK(blocks, index, open, id)
    BY <1>1
  <1>3. PICK known : known = Known(id)
    OBVIOUS
  <1>4. PICK text : text = known \o f
    OBVIOUS
  <1>5. RenderFrom(LayoutOf(blocks, index, open), id, text, RenderedOf(id))
    BY <1>2, <1>3, <1>4
  <1> QED
    BY <1>1, <1>2, <1>3, <1>4, <1>5, Rendered

LEMMA TextIsTold ==
  ASSUME ShownInv, blocks \in Seq(Blocks), NEW id, NEW f \in Seq(Chars), TextGrows(blocks, blocks', id, f),
         corrected' = corrected, transcript' = transcript \o Visible(f)
  PROVE  ShownInv'
  <1>1. f \in Seq(Marks) /\ transcript \in Seq(Marks)
    BY DEF Marks, ShownInv
  <1>2. Visible(f) \in Seq(Marks) /\ Filter(Visible(f), Lines) = <<>>
    BY <1>1, VisibleConcat, MessageTextHasNoLines
  <1>3. transcript \o Visible(f) \in Seq(Marks)
    BY <1>1, <1>2
  <1>4. Filter(transcript \o Visible(f), Lines) = Filter(transcript, Lines)
    <2>1. Filter(transcript \o Visible(f), Lines) = Filter(transcript, Lines) \o Filter(Visible(f), Lines)
      BY <1>1, <1>2, LinesConcat
    <2>2. Filter(transcript, Lines) \in Seq(Marks)
      BY <1>1, FilterType
    <2>3. Filter(transcript, Lines) \o <<>> = Filter(transcript, Lines)
      BY <2>2
    <2> QED
      BY <1>2, <2>1, <2>3
  <1>5. LinesShown(blocks') = LinesShown(blocks) /\ Shown(blocks') = Shown(blocks) \o Visible(f)
    BY DEF TextGrows
  <1> QED
    BY <1>3, <1>4, <1>5 DEF ShownInv

LEMMA DeltaStep ==
  ASSUME IInv, NEW id \in 1..MaxMessages, NEW f \in Fragments, Delta(id, f)
  PROVE  IInv' /\ Extends(blocks, blocks')
  <1>1. /\ id \in {current, current + 1} \ corrected
        /\ corrected' = corrected /\ transcript' = transcript \o Visible(f)
        /\ Notify("delta", "agentMessage", id, f)
    BY DEF Delta
  <1>2. f \in Seq(Chars) /\ f # <<>>
    BY FragmentTypes
  <1>3. KnownInv'
    BY DeltaIsKnown DEF IInv
  <1>4. active <= id /\ blocks \in Seq(Blocks) /\ ShownInv
    BY <1>1 DEF IInv, KnownInv, MessageIsKnown, LayoutInv, LayoutOK
  <1>5. AppendText(id, f)
    BY <1>1, <1>2, DeltaEvent
  <1>6. active' = id /\ RenderFrom(LayoutFor(id), id, Known(id) \o f, RenderedOf(id))
    BY <1>5 DEF AppendText
  <1>7. LayoutInv' /\ TextGrows(blocks, blocks', id, f)
    BY <1>2, <1>4, <1>6, TextIsShown
  <1>8. ShownInv'
    BY <1>1, <1>2, <1>4, <1>7, TextIsTold
  <1> QED
    BY <1>3, <1>7, <1>8 DEF IInv, TextGrows

LEMMA MessageStep ==
  ASSUME IInv, NEW id \in 1..MaxMessages, NEW more \in Fragments \cup {<<>>}, Message(id, more)
  PROVE  IInv' /\ Extends(blocks, blocks')
  <1>1. PICK text : text = SaidOf(id) \o more
    OBVIOUS
  <1>2. /\ id \in {current, current + 1} \ corrected /\ said' = text
        /\ corrected' = corrected /\ transcript' = transcript \o Visible(more)
        /\ Notify("item/completed", "agentMessage", id, text)
    BY <1>1 DEF Message, SaidOf
  <1>3. KnownInv'
    BY WholeMessageIsKnown DEF IInv
  <1>4. more \in Seq(Chars)
    <2>1. <<>> \in Seq(Chars)
      OBVIOUS
    <2> QED
      BY <2>1, FragmentTypes
  <1>5. active <= id /\ blocks \in Seq(Blocks) /\ ShownInv /\ KnownInv /\ LayoutInv
    BY <1>2 DEF IInv, KnownInv, MessageIsKnown, LayoutInv, LayoutOK
  <1>6. Known(id) = SaidOf(id) /\ RenderedOf(id) = Len(SaidOf(id)) /\ SaidOf(id) \in Seq(Chars)
    BY <1>2, <1>5, KnownIsSaid
  <1>7. /\ text # <<>> => ReplaceText(id, text) /\ UNCHANGED seen
        /\ text = <<>> => UNCHANGED replyVars
    <2>1. Notify("item/completed", "agentMessage", id, text)
      BY <1>2
    <2> QED
      BY ONLY <2>1, MessageEvent
  <1>8. CASE text # <<>>
    <2>1. SubSeq(Known(id), 1, RenderedOf(id)) = SaidOf(id)
      BY <1>6, PrefixOfAll
    <2>2. IsPrefix(SaidOf(id), text)
      BY <1>1, <1>4, <1>6, PrefixOfMore
    <2>3. active' = id /\ RenderFrom(LayoutFor(id), id, text, RenderedOf(id))
      BY <1>7, <1>8, <2>1, <2>2 DEF ReplaceText
    <2>4. RenderFrom(LayoutFor(id), id, Known(id) \o more, RenderedOf(id))
      BY <1>1, <1>6, <2>3
    <2>5. LayoutInv' /\ TextGrows(blocks, blocks', id, more)
      BY <1>4, <1>5, <2>3, <2>4, TextIsShown
    <2>6. ShownInv'
      BY <1>2, <1>4, <1>5, <2>5, TextIsTold
    <2> QED
      BY <1>3, <2>5, <2>6 DEF IInv, TextGrows
  <1>9. CASE text = <<>>
    <2>1. UNCHANGED replyVars
      BY <1>7, <1>9
    <2>2. LayoutInv'
      BY <1>5, <2>1 DEF LayoutInv, replyVars, layoutVars
    <2>3. more = <<>>
      <3>1. Len(SaidOf(id) \o more) = Len(SaidOf(id)) + Len(more) /\ Len(SaidOf(id)) \in Nat /\ Len(more) \in Nat
        BY <1>4, <1>6
      <3>2. Len(SaidOf(id) \o more) = 0
        BY <1>1, <1>9
      <3> QED
        BY <1>4, <3>1, <3>2
    <2>4. Visible(more) = <<>>
      BY <2>3, FilterEmpty DEF Visible
    <2>5. blocks' = blocks
      BY <2>1 DEF replyVars, layoutVars
    <2>6. TextGrows(blocks, blocks, id, more)
      BY <1>5, <2>4, NothingGrows
    <2>7. ShownInv'
      BY <1>2, <1>4, <1>5, <2>5, <2>6, TextIsTold
    <2> QED
      BY <1>3, <2>2, <2>5, <2>6, <2>7 DEF IInv, TextGrows
  <1> QED
    BY <1>8, <1>9

(* A correction: what was shown of the message is a beginning of nothing   *)
(* new, so it stays, or all of it goes and the new text comes at the end.  *)
LEMMA CorrectionStep ==
  ASSUME IInv, NEW text \in Fragments, Correction(text)
  PROVE  IInv'
  <1>1. /\ current \notin corrected /\ current # 0 /\ ~IsPrefix(said, text)
        /\ corrected' = corrected \cup {current} /\ transcript' = transcript
        /\ Notify("item/completed", "agentMessage", current, text)
    BY DEF Correction
  <1>2. KnownInv' /\ KnownInv /\ LayoutInv /\ ShownInv
    BY CorrectionIsKnown DEF IInv
  <1>3. text \in Seq(Chars) /\ text # <<>>
    BY FragmentTypes
  <1>4. current \in 1..MaxMessages
    BY <1>1, <1>2 DEF KnownInv
  <1>5. Known(current) = said /\ RenderedOf(current) = Len(said) /\ said \in Seq(Chars)
    BY <1>1, <1>2 DEF KnownInv, MessageIsKnown
  <1>6. ReplaceText(current, text)
    BY <1>1, <1>3, MessageEvent
  <1>7. SubSeq(Known(current), 1, RenderedOf(current)) = said
    BY <1>5, PrefixOfAll
  <1>8. active = current
    <2>1. CASE active # current
      <3>1. said = <<>>
        BY <1>5, <2>1 DEF Known, NewContext
      <3>2. IsPrefix(<<>>, text)
        BY <1>3 DEF IsPrefix
      <3> QED
        BY <1>1, <3>1, <3>2
    <2> QED
      BY <2>1
  <1>9. ASSUME LinesShown(blocks') = LinesShown(blocks) PROVE ShownInv'
    BY <1>1, <1>2, <1>9 DEF ShownInv
  <1>10. CASE UNCHANGED <<aggregated, blocks, textBlock, segmentOpen, active>>
    <2>1. LayoutInv'
      BY <1>2, <1>10 DEF LayoutInv
    <2>2. ShownInv'
      BY <1>9, <1>10
    <2> QED
      BY <1>2, <2>1, <2>2 DEF IInv
  <1>11. CASE /\ active' = current
              /\ RenderFrom([blocks |-> WithoutTextOf(current), textBlock |-> 0, segmentOpen |-> FALSE],
                            current, text, 0)
    <2>1. PICK kept : kept = WithoutTextOf(current)
      OBVIOUS
    <2>2. blocks \in Seq(Blocks) /\ blocks \in Seq(ItemsUpTo(current))
      BY <1>2, <1>8 DEF LayoutInv, LayoutOK
    <2>3. /\ kept \in Seq(Blocks)
          /\ Filter(kept, TextBlocksOf(current)) = <<>>
          /\ LinesShown(kept) = LinesShown(blocks)
      BY <1>4, <2>1, <2>2, WithoutTextLeavesNone, WithoutTextKeepsLines DEF WithoutTextOf, LinesShown
    <2>4. kept \in Seq(ItemsUpTo(current))
      BY <2>1, <2>2, FilterType DEF WithoutTextOf
    <2>5. <<>> \in Seq(Chars) /\ Len(<<>>) = 0 /\ <<>> \o text = text
      BY <1>3
    <2>6. TextShown(kept, current) = Visible(<<>>)
      BY <2>3, NothingShown, FilterEmpty DEF Visible
    <2>7. LayoutOK(kept, 0, FALSE, current)
      BY <2>3 DEF LayoutOK
    <2>8. PICK none \in Seq(Chars) : none = <<>>
      BY <2>5
    <2>9. PICK zero : zero = 0
      OBVIOUS
    <2>10. PICK no : no = FALSE
      OBVIOUS
    <2>11. RenderFrom(LayoutOf(kept, zero, no), current, text, zero) /\ active' = current
      BY <1>11, <2>1, <2>9, <2>10, Zenon DEF LayoutOf
    <2>12. /\ LayoutOK(kept, zero, no, current) /\ TextShown(kept, current) = Visible(none)
           /\ text = none \o text /\ zero = Len(none)
      BY <2>5, <2>6, <2>7, <2>8, <2>9, <2>10
    <2>13. LayoutInv' /\ TextGrows(kept, blocks', current, text)
      BY <1>3, <1>4, <2>4, <2>8, <2>11, <2>12, Rendered
    <2>14. LinesShown(blocks') = LinesShown(blocks)
      BY <2>3, <2>13 DEF TextGrows
    <2>15. ShownInv'
      BY <1>9, <2>14
    <2> QED
      BY <1>2, <2>13, <2>15 DEF IInv
  <1>12. /\ active' = current
         /\ \/ aggregated' = Known(current) /\ UNCHANGED layoutVars
            \/ RenderFrom([blocks |-> WithoutTextOf(current), textBlock |-> 0, segmentOpen |-> FALSE],
                          current, text, 0)
    BY <1>1, <1>6, <1>7, Zenon DEF ReplaceText
  <1>13. CASE aggregated' = Known(current) /\ UNCHANGED layoutVars
    <2>1. aggregated' = aggregated
      BY <1>8, <1>13 DEF Known, NewContext
    <2> QED
      BY <1>8, <1>10, <1>12, <1>13, <2>1 DEF layoutVars
  <1> QED
    BY <1>11, <1>12, <1>13

(* A command, once: its lines come at the end, whatever the message.       *)
LEMMA LinesAreTold ==
  ASSUME ShownInv, NEW id, NEW lines \in Seq(Lines), LinesGrow(blocks, blocks', id, lines),
         corrected' = corrected, transcript' = transcript \o lines
  PROVE  ShownInv'
  <1>1. lines \in Seq(Marks) /\ transcript \in Seq(Marks)
    BY DEF Marks, ShownInv
  <1>2. transcript \o lines \in Seq(Marks)
    BY <1>1
  <1>3. Filter(transcript \o lines, Lines) = Filter(transcript, Lines) \o lines
    <2>1. Filter(transcript \o lines, Lines) = Filter(transcript, Lines) \o Filter(lines, Lines)
      BY <1>1, FilterConcat
    <2> QED
      BY <2>1, LinesAreVisible
  <1>4. LinesShown(blocks') = LinesShown(blocks) \o lines /\ Shown(blocks') = Shown(blocks) \o lines
    BY DEF LinesGrow
  <1> QED
    BY <1>2, <1>3, <1>4 DEF ShownInv

LEMMA AsideStep ==
  ASSUME IInv, UNCHANGED replyVars, UNCHANGED codexVars
  PROVE  IInv' /\ Extends(blocks, blocks')
  <1>1. KnownInv'
    BY DEF IInv, KnownInv, MessageIsKnown, Known, RenderedOf, NewContext, replyVars, codexVars
  <1>2. LayoutInv' /\ ShownInv'
    BY DEF IInv, LayoutInv, ShownInv, replyVars, layoutVars, codexVars
  <1>3. blocks' = blocks /\ blocks \in Seq(Blocks)
    BY DEF IInv, LayoutInv, LayoutOK, replyVars, layoutVars
  <1>4. Extends(blocks, blocks)
    BY <1>3, AppendExtends
  <1> QED
    BY <1>1, <1>2, <1>3, <1>4 DEF IInv

LEMMA CommandStep ==
  ASSUME IInv, NEW id \in Commands, Command(id)
  PROVE  IInv' /\ Extends(blocks, blocks')
  <1>1. PICK lines : lines = DisplayCommands(id)
    OBVIOUS
  <1>2. /\ transcript' = IF id \in seen THEN transcript ELSE transcript \o lines
        /\ current' = current /\ said' = said /\ corrected' = corrected
        /\ Notify("item/started", "commandExecution", id, <<>>)
    BY <1>1 DEF Command
  <1>3. /\ lines # <<>> => ShowCommand(id, lines)
        /\ lines = <<>> => UNCHANGED replyVars
    BY <1>1, <1>2, CommandEvent
  <1>4. lines \in Seq(Lines)
    BY <1>1, CommandTypes
  <1>5. transcript \in Seq(Marks)
    BY DEF IInv, ShownInv
  <1>6. CASE UNCHANGED replyVars /\ transcript' = transcript
    BY <1>2, <1>6, AsideStep DEF codexVars
  <1>7. CASE lines # <<>> /\ id \notin seen
    <2>1. /\ seen' = seen \cup {id} /\ AppendLines(lines)
          /\ UNCHANGED <<aggregated, rendered, active, textBlock>>
      BY <1>3, <1>7 DEF ShowCommand
    <2>2. active \in Nat /\ LayoutOK(blocks, textBlock, segmentOpen, active) /\ blocks \in Seq(ItemsUpTo(active))
      BY DEF IInv, KnownInv, LayoutInv
    <2>3. /\ LayoutOK(blocks', textBlock, segmentOpen', active)
          /\ LinesGrow(blocks, blocks', active, lines)
          /\ Keeps(blocks, blocks', CommandBlocks)
      BY <1>4, <2>1, <2>2, LinesAtTheEnd
    <2>4. blocks' \in Seq(ItemsUpTo(active))
      BY <2>2, <2>3, ItemsAre DEF Keeps
    <2>5. TextShown(blocks', active) = Visible(aggregated)
      BY <2>3 DEF LinesGrow, IInv, LayoutInv
    <2>6. LayoutInv'
      BY <2>1, <2>3, <2>4, <2>5 DEF LayoutInv
    <2>7. ShownInv
      BY DEF IInv
    <2>8. ShownInv'
      BY <1>2, <1>4, <1>7, <2>3, <2>7, LinesAreTold
    <2>9. KnownInv'
      BY <1>2, <2>1 DEF IInv, KnownInv, MessageIsKnown, Known, RenderedOf, NewContext
    <2> QED
      BY <2>3, <2>6, <2>8, <2>9 DEF IInv, LinesGrow
  <1>8. CASE lines # <<>> /\ id \in seen
    <2>1. UNCHANGED replyVars
      BY <1>3, <1>8 DEF ShowCommand
    <2> QED
      BY <1>2, <1>6, <1>8, <2>1
  <1>9. CASE lines = <<>>
    <2>1. transcript \o lines = transcript
      BY <1>5, <1>9
    <2> QED
      BY <1>2, <1>3, <1>6, <1>9, <2>1
  <1> QED
    BY <1>7, <1>8, <1>9

-----------------------------------------------------------------------------
LEMMA InitEstablishes ==
  Init => IInv
  <1> SUFFICES ASSUME Init PROVE IInv
    OBVIOUS
  <1>1. <<>> \in Seq(Chars) /\ <<>> \in Seq(Marks) /\ <<>> \in Seq(Blocks) /\ <<>> \in Seq(ItemsUpTo(0)) /\ Len(<<>>) = 0
    OBVIOUS
  <1>2. MessageIsKnown
    BY <1>1 DEF Init, MessageIsKnown, Known, RenderedOf, NewContext
  <1>3. KnownInv
    BY <1>1, <1>2, ReplyTextAssumption DEF Init, KnownInv
  <1>4. \A S : Filter(<<>>, S) = <<>>
    BY FilterEmpty
  <1>5. Shown(<<>>) = <<>> /\ TextShown(<<>>, 0) = <<>> /\ LinesShown(<<>>) = <<>> /\ Visible(<<>>) = <<>>
    BY <1>4, TextOfEmpty DEF Shown, TextShown, LinesShown, Visible
  <1>6. LayoutInv
    BY <1>1, <1>5 DEF Init, LayoutInv, LayoutOK
  <1>7. ShownInv
    BY <1>1, <1>4, <1>5 DEF Init, ShownInv
  <1> QED
    BY <1>3, <1>6, <1>7 DEF IInv

LEMMA NextKeepsIInv ==
  IInv /\ [Next]_vars => IInv' /\ (corrected' = corrected => Extends(blocks, blocks'))
  <1> SUFFICES ASSUME IInv, [Next]_vars PROVE IInv' /\ (corrected' = corrected => Extends(blocks, blocks'))
    OBVIOUS
  <1>1. ASSUME NEW id \in 1..MaxMessages, NEW f \in Fragments, Delta(id, f) PROVE IInv' /\ Extends(blocks, blocks')
    BY <1>1, DeltaStep
  <1>2. ASSUME NEW id \in 1..MaxMessages, NEW f \in Fragments \cup {<<>>}, Message(id, f) PROVE IInv' /\ Extends(blocks, blocks')
    BY <1>2, MessageStep
  <1>3. ASSUME NEW f \in Fragments, Correction(f) PROVE IInv' /\ corrected' # corrected
    BY <1>3, CorrectionStep DEF Correction
  <1>4. ASSUME NEW id \in Commands, Command(id) PROVE IInv' /\ Extends(blocks, blocks')
    BY <1>4, CommandStep
  <1>5. ASSUME NEW id \in Commands, CommandGoesOn(id) PROVE IInv' /\ Extends(blocks, blocks')
    <2>1. PICK method \in {"delta", "item/completed"} : Notify(method, "commandExecution", id, <<>>)
      BY <1>5 DEF CommandGoesOn
    <2>2. UNCHANGED replyVars
      BY <2>1, OtherEvent
    <2> QED
      BY <1>5, <2>2, AsideStep DEF CommandGoesOn
  <1>6. ASSUME NEW type \in OtherTypes, OtherItem(type) PROVE IInv' /\ Extends(blocks, blocks')
    <2>1. PICK method \in {"delta", "item/completed"} : Notify(method, type, MaxMessages + 1, Aside)
      BY <1>6 DEF OtherItem
    <2>2. type # "agentMessage"
      BY DEF OtherTypes
    <2>3. UNCHANGED replyVars
      BY <2>1, <2>2, OtherEvent
    <2> QED
      BY <1>6, <2>3, AsideStep DEF OtherItem
  <1>7. CASE UNCHANGED vars
    BY <1>7, AsideStep DEF vars
  <1> QED
    BY <1>1, <1>2, <1>3, <1>4, <1>5, <1>6, <1>7 DEF Next

LEMMA AlwaysIInv ==
  Spec => []IInv
  BY InitEstablishes, NextKeepsIInv, PTL DEF Spec

-----------------------------------------------------------------------------
(* The layout is always one of text and command blocks, with the indices   *)
(* it has.                                                                 *)
THEOREM TypeCorrect == Spec => []TypeOK
  <1>1. IInv => TypeOK
    <2> SUFFICES ASSUME IInv PROVE TypeOK
      OBVIOUS
    <2>1. /\ aggregated \in Seq(Chars) /\ said \in Seq(Chars) /\ seen \subseteq Commands
          /\ active \in 0..MaxMessages /\ current \in 0..MaxMessages
          /\ rendered \in 0..Len(aggregated)
      BY DEF IInv, KnownInv
    <2>2. /\ blocks \in Seq(Blocks) /\ textBlock \in 0..Len(blocks)
          /\ segmentOpen => blocks # <<>> /\ blocks[Len(blocks)] \in CommandBlocks
      BY DEF IInv, LayoutInv, LayoutOK
    <2>3. \A b \in CommandBlocks : b.kind = "command"
      BY DEF CommandBlocks
    <2> QED
      BY <2>1, <2>2, <2>3 DEF TypeOK
  <1> QED
    BY <1>1, AlwaysIInv, PTL

(* After any deltas, whole messages, corrections and commands, the service *)
(* knows of the current message what Codex has said of it.                 *)
THEOREM MessagesAreKnown == Spec => []MessageIsKnown
  <1>1. IInv => MessageIsKnown
    BY DEF IInv, KnownInv
  <1> QED
    BY <1>1, AlwaysIInv, PTL

(* Until a message contradicts its deltas, the display blocks show every   *)
(* command and every visible character once, in the order Codex produced   *)
(* them.                                                                   *)
THEOREM NothingIsLostOrRepeated == Spec => []NothingLostOrRepeated
  <1>1. IInv => NothingLostOrRepeated
    BY DEF IInv, ShownInv, NothingLostOrRepeated, Shown
  <1> QED
    BY <1>1, AlwaysIInv, PTL

(* Corrections included, the commands shown are those Codex ran, each      *)
(* once, in their order.                                                   *)
THEOREM CommandsAreInOrder == Spec => []CommandsInOrder
  <1>1. IInv => CommandsInOrder
    BY DEF IInv, ShownInv, CommandsInOrder, LinesShown
  <1> QED
    BY <1>1, AlwaysIInv, PTL

LEMMA VisiblePrefix ==
  ASSUME NEW s \in Seq(Chars), NEW t \in Seq(Chars), IsPrefix(s, t)
  PROVE  IsPrefix(Visible(s), Visible(t))
  <1>1. PICK rest \in Seq(Chars) : t = s \o rest
    <2>1. Len(s) <= Len(t) /\ SubSeq(s, 1, Len(s)) = SubSeq(t, 1, Len(s))
      BY DEF IsPrefix
    <2>2. SubSeq(t, Len(s) + 1, Len(t)) \in Seq(Chars)
      BY <2>1
    <2>3. t = s \o SubSeq(t, Len(s) + 1, Len(t))
      BY <2>1
    <2> QED
      BY <2>2, <2>3
  <1>2. s \in Seq(Marks) /\ rest \in Seq(Marks)
    BY DEF Marks
  <1>3. Visible(s \o rest) = Visible(s) \o Visible(rest) /\ Visible(s) \in Seq(Marks) /\ Visible(rest) \in Seq(Marks)
    BY <1>2, VisibleConcat
  <1>4. IsPrefix(Visible(s), Visible(s) \o Visible(rest))
    BY <1>3, PrefixOfMore
  <1> QED
    BY <1>1, <1>3, <1>4

(* The visible text of the current message is the last one Codex gave,     *)
(* unless that is a beginning of what was shown: then the longer text      *)
(* stays.                                                                  *)
THEOREM CurrentMessageIsAlwaysShown == Spec => []CurrentMessageIsShown
  <1>1. IInv => CurrentMessageIsShown
    <2> SUFFICES ASSUME IInv PROVE CurrentMessageIsShown
      OBVIOUS
    <2>1. /\ active \in Nat /\ current \in Nat /\ active <= current
          /\ aggregated \in Seq(Chars) /\ said \in Seq(Chars)
          /\ IF current \in corrected THEN IsPrefix(said, Known(current)) ELSE said = Known(current)
      BY DEF IInv, KnownInv, MessageIsKnown
    <2>2. TextShown(blocks, current) = Visible(Known(current)) /\ Known(current) \in Seq(Chars)
      <3>1. CASE current = active
        BY <2>1, <3>1 DEF IInv, LayoutInv, Known, NewContext
      <3>2. CASE current # active
        <4>1. active < current /\ blocks \in Seq(ItemsUpTo(active))
          BY <2>1, <3>2 DEF IInv, LayoutInv
        <4>2. TextBlocksOf(current) \cap ItemsUpTo(active) = {}
          BY <2>1, <4>1, ItemsAbove
        <4>3. Filter(blocks, TextBlocksOf(current)) = <<>>
          BY <4>1, <4>2, FilterNone
        <4>4. Known(current) = <<>> /\ <<>> \in Seq(Chars)
          BY <3>2 DEF Known, NewContext
        <4>5. TextShown(blocks, current) = <<>> /\ Visible(<<>>) = <<>>
          BY <4>3, NothingShown, FilterEmpty DEF Visible
        <4> QED
          BY <4>4, <4>5
      <3> QED
        BY <3>1, <3>2
    <2>3. \/ said = Known(current)
          \/ current \in corrected /\ IsPrefix(Visible(said), Visible(Known(current)))
      BY <2>1, <2>2, VisiblePrefix
    <2>4. Visible(TextOf(BlocksOf(current))) = Visible(Known(current))
      BY <2>2 DEF TextShown, BlocksOf
    <2> QED
      BY <2>3, <2>4 DEF CurrentMessageIsShown
  <1> QED
    BY <1>1, AlwaysIInv, PTL

(* Every step but a correction leaves what is shown as it is and adds to   *)
(* its end, also after corrections.                                        *)
THEOREM ShownTextStays == Spec => OnlyCorrectionsTakeBack
  <1>1. IInv /\ [Next]_vars => [corrected' = corrected => Extends(blocks, blocks')]_vars
    BY NextKeepsIInv
  <1> QED
    BY <1>1, AlwaysIInv, PTL DEF Spec, OnlyCorrectionsTakeBack
=============================================================================
