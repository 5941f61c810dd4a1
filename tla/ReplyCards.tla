---------------------------- MODULE ReplyCards ----------------------------
(***************************************************************************)
(* What the reply to one turn promises the people in the chat: the cards,  *)
(* read from the first to the last, give what Codex has said, each later   *)
(* card what it said later, or said again.  Only the last card may still   *)
(* get more, nothing on a card is taken back unless Codex withdraws it,    *)
(* and a reply that is over lacks nothing and gets nothing more, except    *)
(* notices of an error.  Only when Feishu has failed may something be      *)
(* missing.  Nothing here is a stream, a flush task or a sequence number:  *)
(* ReplyStream implements this specification with them.                    *)
(***************************************************************************)
EXTENDS Naturals, Sequences

VARIABLES
  said,       \* pieces of output so far; they are numbered as Codex says them
  withdrawn,  \* those Codex has withdrawn
  retold,     \* those it has said again
  shown,      \* what each card shows
  over,       \* whether the reply is over
  faulty      \* whether Feishu has failed

codexVars == <<said, withdrawn, retold>>
vars == <<codexVars, shown, over, faulty>>

Notice == 0  \* the text of an error

Init ==
  /\ said = 0 /\ withdrawn = {} /\ retold = {} /\ shown = <<>> /\ over = FALSE
  /\ faulty \in BOOLEAN

(* A text comes after the first n cards, but for what Codex said again.    *)
ComesAfter(text, n) ==
  \A i \in 1..n : \A earlier \in shown[i] : \A piece \in text :
    piece \in retold' \cup {Notice} \/ earlier < piece

(* The last card shows more than before, or no longer what is withdrawn.   *)
Extend(text) ==
  LET last == Len(shown)
  IN  /\ last > 0
      /\ shown' = [shown EXCEPT ![last] = text]
      /\ shown[last] \ withdrawn' \subseteq text
      /\ ComesAfter(text, last - 1)

(* A card of its own for what comes next.                                  *)
Begin(text) ==
  /\ text # {}
  /\ shown' = Append(shown, text)
  /\ ComesAfter(text, Len(shown))

Show ==
  \/ UNCHANGED shown
  \/ \E text \in SUBSET (0..said') : Extend(text) \/ Begin(text)

Shown(piece) == \E i \in DOMAIN shown : piece \in shown[i]

(* Codex says something, says it again, or withdraws it, which may show at *)
(* once.                                                                   *)
Say ==
  /\ ~over /\ said' \in {said, said + 1}
  /\ withdrawn \subseteq withdrawn' /\ retold \subseteq retold'
  /\ withdrawn' \cup retold' \subseteq 1..said
  /\ Show /\ UNCHANGED over

Flush == ~over /\ Show /\ UNCHANGED <<codexVars, over>>

Finish ==
  /\ ~over /\ over'
  /\ Show /\ UNCHANGED codexVars
  /\ \A piece \in 1..said \ withdrawn : faulty' \/ Shown(piece)'

(* A second end of the turn, as by a shutdown, reports its error late.     *)
Report == over /\ shown' = Append(shown, {Notice}) /\ UNCHANGED <<codexVars, over>>

Fail == faulty' /\ UNCHANGED <<codexVars, shown, over>>

Next == (faulty => faulty') /\ (Say \/ Flush \/ Finish \/ Report \/ Fail)

Spec == Init /\ [][Next]_vars
=============================================================================
