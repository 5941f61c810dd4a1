---------------------------- MODULE MCReplyText ----------------------------
(* ReplyText for TLC: short pieces of text, one of white space alone; a    *)
(* command made of two, a plain one, and one with nothing to show.         *)
EXTENDS ReplyText

CONSTANTS c1, c2, c3

MCBlank == " "
MCFragments == {<<"a">>, <<" ">>, <<" ", "b">>}
MCAside == <<"a", "b">>
MCCommandLine == [c \in Commands |-> IF c = c3 THEN None ELSE "make"]
MCParts == [c \in Commands |-> IF c = c1 THEN <<"cd", "ls">> ELSE <<>>]
=============================================================================
