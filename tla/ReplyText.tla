----------------------------- MODULE ReplyText -----------------------------
(***************************************************************************)
(* How ReplyService builds the text of a reply from the notifications of   *)
(* its turn, once CodexOutputClassifier has told them apart: agent         *)
(* messages arrive as deltas and as whole messages, between the commands   *)
(* Codex runs, and are laid out as display blocks.  Each message is        *)
(* rendered up to a length, and only what is new is appended, after any    *)
(* command shown meanwhile.                                                *)
(*                                                                         *)
(* Text is a sequence of characters, Blank standing for white space.       *)
(* Agent messages are numbered in the order Codex begins them, and it      *)
(* begins one only after it is done with the one before.  When a follow-up *)
(* reply begins, everything here starts again (ReplyStream).               *)
(***************************************************************************)
EXTENDS Integers, Sequences, SequencesExt

CONSTANTS
  Fragments,    \* the pieces of text a delta may carry
  Blank,        \* the character that stands for white space
  Commands,     \* item ids of commands
  CommandLine,  \* the command of each of them, None if it has none
  Parts,        \* and its commandActions: the commands in it worth showing
  None,
  Aside,        \* the text of items that are not messages
  MaxMessages,  \* bound on agent messages
  MaxLength     \* bound on the length of a message

(* CodexOutputClassifier: a command is shown as its parts, or else as it is.*)
DisplayCommands(id) ==
  IF Parts[id] # <<>> THEN Parts[id]
  ELSE IF CommandLine[id] # None THEN <<CommandLine[id]>> ELSE <<>>

(* What a reply is made of: characters, and the lines that commands show,  *)
(* each of them one mark that is not a character.                          *)
Chars == UNION {ToSet(f) : f \in Fragments}
Lines == UNION {ToSet(DisplayCommands(id)) : id \in Commands}

ASSUME ReplyTextAssumption ==
  /\ \A f \in Fragments : f \in Seq(STRING \cup {Blank}) /\ f # <<>>
  /\ Aside \in Seq(STRING)
  /\ Parts \in [Commands -> Seq(STRING)] /\ CommandLine \in [Commands -> STRING \cup {None}]
  /\ Lines \cap (Chars \cup {Blank}) = {}
  /\ MaxMessages \in Nat /\ MaxLength \in Nat

VARIABLES
  aggregated,   \* aggregated_text: what is known of the active message
  rendered,     \* rendered_agent_text_length
  active,       \* active_agent_message_item_id, 0 before the first
  blocks,       \* display_blocks
  textBlock,    \* active_text_block_index, 0 for None
  segmentOpen,  \* command_segment_open
  seen,         \* seen_command_item_ids
  current,      \* Codex: the message it is producing
  said,         \* Codex: its text so far
  corrected,    \* Codex: messages that contradicted their deltas
  transcript    \* history: commands and visible characters, as Codex produced them

layoutVars == <<blocks, textBlock, segmentOpen>>
replyVars == <<aggregated, rendered, active, layoutVars, seen>>
codexVars == <<current, said, corrected, transcript>>
vars == <<replyVars, codexVars>>

Init ==
  /\ aggregated = <<>> /\ rendered = 0 /\ active = 0
  /\ blocks = <<>> /\ textBlock = 0 /\ segmentOpen = FALSE
  /\ seen = {}
  /\ current = 0 /\ said = <<>> /\ corrected = {} /\ transcript = <<>>

-----------------------------------------------------------------------------
(* SelectSeq for membership in a set: first-order, so that theorems can be *)
(* about it.                                                               *)
Filter(s, S) == FlattenSeq([i \in DOMAIN s |-> IF s[i] \in S THEN <<s[i]>> ELSE <<>>])

VisibleMarks == (Chars \cup Lines) \ {Blank}
Visible(text) == Filter(text, VisibleMarks)
IsBlank(text) == Visible(text) = <<>>

(* Display blocks: the text of a message, and commands.                    *)
TextBlocksOf(id) == [kind : {"text"}, item : {id}, text : Seq(Chars)]
TextBlocks == [kind : {"text"}, item : 1..MaxMessages, text : Seq(Chars)]
CommandBlocks == [kind : {"command"}, item : {0}, text : Seq(Lines)]
Blocks == TextBlocks \cup CommandBlocks

(* The layout the next step starts from: the blocks, the text block that   *)
(* may grow, and whether the last command block may.                       *)
Layout == [blocks |-> blocks, textBlock |-> textBlock, segmentOpen |-> segmentOpen]

(* _append_text_fragment: a fragment extends the active text block only if *)
(* that is the last block; one of white space alone is not shown at all.   *)
AppendAnywhere(layout, id, fragment) ==  \* mutant: extends a block that commands follow
  IF IsBlank(fragment) THEN layout
  ELSE IF layout.textBlock # 0
       THEN [layout EXCEPT !.segmentOpen = FALSE, !.blocks[layout.textBlock].text = @ \o fragment]
       ELSE [blocks |-> Append(layout.blocks, [kind |-> "text", item |-> id, text |-> fragment]),
             textBlock |-> Len(layout.blocks) + 1, segmentOpen |-> FALSE]

AppendKeepingSegment(layout, id, fragment) ==  \* mutant: the command block may still grow
  IF IsBlank(fragment) THEN layout
  ELSE IF layout.textBlock # 0 /\ layout.textBlock = Len(layout.blocks)
       THEN [layout EXCEPT !.blocks[layout.textBlock].text = @ \o fragment]
       ELSE [layout EXCEPT !.blocks = Append(@, [kind |-> "text", item |-> id, text |-> fragment]),
                           !.textBlock = Len(layout.blocks) + 1]

AppendFragment(layout, id, fragment) ==
  IF IsBlank(fragment) THEN layout
  ELSE IF layout.textBlock # 0 /\ layout.textBlock = Len(layout.blocks)
       THEN [layout EXCEPT !.segmentOpen = FALSE, !.blocks[layout.textBlock].text = @ \o fragment]
       ELSE [blocks |-> Append(layout.blocks, [kind |-> "text", item |-> id, text |-> fragment]),
             textBlock |-> Len(layout.blocks) + 1, segmentOpen |-> FALSE]

(* _append_unrendered_agent_text.                                          *)
RenderFrom(layout, id, text, from) ==
  /\ aggregated' = text
  /\ rendered' = Len(text)
  /\ LET next == AppendFragment(layout, id, SubSeq(text, from + 1, Len(text)))
     IN  blocks' = next.blocks /\ textBlock' = next.textBlock /\ segmentOpen' = next.segmentOpen

(* _ensure_agent_message_context: what a new message starts from.          *)
NewContext(id) == id # active
Known(id) == IF NewContext(id) THEN <<>> ELSE aggregated
RenderedOf(id) == IF NewContext(id) THEN 0 ELSE rendered
LayoutFor(id) ==
  IF NewContext(id) THEN [blocks |-> blocks, textBlock |-> 0, segmentOpen |-> FALSE] ELSE Layout

(* _append_text: a delta.                                                  *)
AppendText(id, fragment) ==
  /\ active' = id
  /\ RenderFrom(LayoutFor(id), id, Known(id) \o fragment, RenderedOf(id))

(* _replace_agent_text: a whole message.  What extends the rendered text   *)
(* is appended; a message the known text already starts with is ignored;   *)
(* any other replaces the message's blocks by one at the end.              *)
WithoutTextOf(id) == Filter(blocks, Blocks \ TextBlocksOf(id))

(* Mutant: the whole message is taken for new text.                        *)
ReplaceByAppending(id, text) ==
  /\ active' = id
  /\ RenderFrom(LayoutFor(id), id, Known(id) \o text, RenderedOf(id))

ReplaceWhole(id, text) ==  \* mutant: a whole message always replaces its deltas
  /\ active' = id
  /\ RenderFrom([blocks |-> WithoutTextOf(id), textBlock |-> 0, segmentOpen |-> FALSE], id, text, 0)

ReplaceText(id, text) ==
  /\ active' = id
  /\ LET shown == SubSeq(Known(id), 1, RenderedOf(id))
     IN  \/ /\ IsPrefix(shown, text)
            /\ RenderFrom(LayoutFor(id), id, text, RenderedOf(id))
         \/ /\ ~IsPrefix(shown, text) /\ IsPrefix(text, Known(id))
            /\ aggregated' = Known(id) /\ rendered' = RenderedOf(id)
            /\ UNCHANGED layoutVars
         \/ /\ ~IsPrefix(shown, text) /\ ~IsPrefix(text, Known(id))
            /\ RenderFrom([blocks |-> WithoutTextOf(id), textBlock |-> 0, segmentOpen |-> FALSE],
                          id, text, 0)

(* _append_command_notice: a command is shown when first heard of, in one  *)
(* block with those just before it.                                        *)
AppendLines(lines) ==
  IF segmentOpen
  THEN blocks' = [blocks EXCEPT ![Len(blocks)].text = @ \o lines] /\ UNCHANGED segmentOpen
  ELSE /\ blocks' = Append(blocks, [kind |-> "command", item |-> 0, text |-> lines])
       /\ segmentOpen' = TRUE

ShowAgain(id, lines) ==  \* mutant: a command reported again is shown again
  /\ seen' = seen \cup {id} /\ AppendLines(lines)
  /\ UNCHANGED <<aggregated, rendered, active, textBlock>>

ShowCommand(id, lines) ==
  \/ id \in seen /\ UNCHANGED replyVars
  \/ /\ id \notin seen
     /\ seen' = seen \cup {id} /\ AppendLines(lines)
     /\ UNCHANGED <<aggregated, rendered, active, textBlock>>

-----------------------------------------------------------------------------
(* CodexOutputClassifier.  A notification is about an item of some type; a *)
(* command is shown only as it starts.                                     *)
TextTypes == {"agentMessage", "plan", "reasoning"}

Classify(n) ==
  LET TextEvent(kind) == [kind |-> kind, channel |-> n.type, item |-> n.item, text |-> n.text]
      CommandEvent(lines) == [kind |-> "command", item |-> n.item, lines |-> lines]
  IN  CASE n.method = "delta" /\ n.type \in TextTypes -> TextEvent("delta")
        [] n.method = "item/completed" /\ n.type \in TextTypes \cup {"dynamicToolCall"} ->
             TextEvent("message")
        [] n.method = "item/started" /\ n.type = "commandExecution" ->
             CommandEvent(DisplayCommands(n.item))
        [] n.method \in {"delta", "item/completed"} /\ n.type = "commandExecution" -> CommandEvent(<<>>)
        [] OTHER -> [kind |-> "other"]

(* _handle_output_event: what does not fit any case is not shown.          *)
IsMessageText(e) == e.kind \in {"delta", "message"} /\ e.channel = "agentMessage" /\ e.text # <<>>
IsCommandToShow(e) == e.kind = "command" /\ e.lines # <<>>

HandleOutputEvent(e) ==
  \/ IsMessageText(e) /\ e.kind = "delta" /\ AppendText(e.item, e.text) /\ UNCHANGED seen
  \/ IsMessageText(e) /\ e.kind = "message" /\ ReplaceText(e.item, e.text) /\ UNCHANGED seen
  \/ IsCommandToShow(e) /\ ShowCommand(e.item, e.lines)
  \/ ~IsMessageText(e) /\ ~IsCommandToShow(e) /\ UNCHANGED replyVars

Notify(method, type, id, text) ==
  HandleOutputEvent(Classify([method |-> method, type |-> type, item |-> id, text |-> text]))

-----------------------------------------------------------------------------
(* item/agentMessage/delta, of the current message or the first of the     *)
(* next.                                                                   *)
Delta(id, fragment) ==
  /\ id \in {current, current + 1} \ corrected
  /\ current' = id
  /\ said' = (IF id = current THEN said ELSE <<>>) \o fragment
  /\ Len(said') <= MaxLength
  /\ transcript' = transcript \o Visible(fragment)
  /\ UNCHANGED corrected
  /\ Notify("delta", "agentMessage", id, fragment)

(* item/completed of an agent message: what its deltas said and, when some *)
(* deltas were not sent, more.                                             *)
Message(id, more) ==
  /\ id \in {current, current + 1} \ corrected
  /\ current' = id
  /\ said' = (IF id = current THEN said ELSE <<>>) \o more
  /\ Len(said') <= MaxLength
  /\ transcript' = transcript \o Visible(more)
  /\ UNCHANGED corrected
  /\ Notify("item/completed", "agentMessage", id, said')

(* item/completed with a text other than the one its deltas made up.       *)
Correction(text) ==
  /\ current \notin corrected \cup {0} /\ ~IsPrefix(said, text)
  /\ corrected' = corrected \cup {current}
  /\ said' = text
  /\ UNCHANGED <<current, transcript>>
  /\ Notify("item/completed", "agentMessage", current, text)

(* item/started of a command, possibly reported more than once.            *)
Command(id) ==
  /\ transcript' = IF id \in seen THEN transcript ELSE transcript \o DisplayCommands(id)
  /\ UNCHANGED <<current, said, corrected>>
  /\ Notify("item/started", "commandExecution", id, <<>>)

(* Its output and its end.                                                 *)
CommandGoesOn(id) ==
  /\ UNCHANGED codexVars
  /\ \E method \in {"delta", "item/completed"} : Notify(method, "commandExecution", id, <<>>)

(* Items of other types: plans, reasoning, results of tools, files, images.*)
OtherTypes == {"plan", "reasoning", "dynamicToolCall", "fileChange", "imageView"}

OtherItem(type) ==
  /\ UNCHANGED codexVars
  /\ \E method \in {"delta", "item/completed"} : Notify(method, type, MaxMessages + 1, Aside)

Next ==
  \/ \E id \in 1..MaxMessages, f \in Fragments : Delta(id, f)
  \/ \E id \in 1..MaxMessages, f \in Fragments \cup {<<>>} : Message(id, f)
  \/ \E f \in Fragments : Correction(f)
  \/ \E id \in Commands : Command(id) \/ CommandGoesOn(id)
  \/ \E type \in OtherTypes : OtherItem(type)

Spec == Init /\ [][Next]_vars

-----------------------------------------------------------------------------
BlocksOf(id) == Filter(blocks, TextBlocksOf(id))
TextOf(bs) == FlattenSeq([i \in DOMAIN bs |-> bs[i].text])

(* The layout is made of text and command blocks, and its indices exist.   *)
TypeOK ==
  /\ aggregated \in Seq(Chars) /\ said \in Seq(Chars)
  /\ rendered \in 0..Len(aggregated)
  /\ active \in 0..MaxMessages /\ current \in 0..MaxMessages
  /\ blocks \in Seq(Blocks)
  /\ textBlock \in 0..Len(blocks)
  /\ segmentOpen => blocks # <<>> /\ blocks[Len(blocks)].kind = "command"
  /\ seen \subseteq Commands

(* What is known of the current message is what Codex has said of it, and  *)
(* all of it counts as rendered, though fragments of white space alone are *)
(* not shown.  (A correction that the known text starts with is ignored.)  *)
MessageIsKnown ==
  /\ active <= current
  /\ RenderedOf(current) = Len(Known(current))
  /\ IF current \in corrected THEN IsPrefix(said, Known(current)) ELSE said = Known(current)

(* Until a message contradicts its deltas, the reply shows every command   *)
(* and every visible character once, in the order Codex produced them,     *)
(* however deltas, whole messages and commands follow one another, and     *)
(* nothing of Codex's plans, reasoning, tool results and files.            *)
NothingLostOrRepeated == corrected = {} => Visible(TextOf(blocks)) = transcript

(* After a correction too, the visible text of the current message is the  *)
(* last one Codex gave, unless that is a beginning of what was shown: then *)
(* the longer text stays.                                                  *)
CurrentMessageIsShown ==
  LET shown == Visible(TextOf(BlocksOf(current)))
  IN  shown = Visible(said) \/ (current \in corrected /\ IsPrefix(Visible(said), shown))

(* Whatever is corrected, the commands shown are those Codex ran, each     *)
(* once, in their order.                                                   *)
CommandsInOrder ==
  Filter(TextOf(blocks), Lines) = Filter(transcript, Lines)

(* Blocks go on from others: only the last of them may be longer.          *)
GoesOn(b, c) == c.kind = b.kind /\ c.item = b.item /\ IsPrefix(b.text, c.text)

Extends(old, new) ==
  /\ Len(old) <= Len(new)
  /\ \A i \in DOMAIN old : new[i] = old[i] \/ (i = Len(old) /\ GoesOn(old[i], new[i]))

(* What a reader has seen stays, and more is added at the end: only a      *)
(* correction takes text back, and no message after it does.               *)
OnlyCorrectionsTakeBack == [][corrected' = corrected => Extends(blocks, blocks')]_vars
=============================================================================
