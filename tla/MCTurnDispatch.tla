--------------------------- MODULE MCTurnDispatch ---------------------------
(* TurnDispatch for TLC: one direct chat and one group.                    *)
EXTENDS TurnDispatch, TLC

CONSTANTS dm, group, hello, later, clear, what, aside, stranger, d1, d2, d3, join

(* Two texts in the direct chat, sent more than Ttl apart, a command of    *)
(* the group that rotates its thread, and one that is not known; a message *)
(* of the group that is not for the bot, and one of an outsider to it.     *)
MCSessionOf == [m \in Messages |-> IF m \in {hello, later} THEN dm ELSE group]
MCJoinOf == [j \in Joins |-> group]
MCKind == [m \in Messages |->
  CASE m = clear -> "clear" [] m = what -> "unsupported"
    [] m = aside -> "unaddressed" [] m = stranger -> "outsider" [] OTHER -> "text"]
MCSentAt == [m \in Messages |-> IF m = later THEN 2 ELSE 0]

Symmetry == Permutations(Deliveries)
=============================================================================
