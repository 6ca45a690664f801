------------------------- MODULE AsyncRolloutRequest -------------------------
(***************************************************************************)
(* The token lists of a multi-turn request (schemas.py): the ids and the   *)
(* loss mask grow with every message, while the prompt of the next         *)
(* generation is rendered afresh from the messages.                        *)
(*                                                                         *)
(* Tokens are told apart by what they are part of.  "end" closes a message *)
(* of the assistant and of a tool alike; every prefix and suffix is taken  *)
(* as one token.                                                           *)
(***************************************************************************)
EXTENDS Integers, Sequences, SequencesExt

CONSTANTS
  PromptLength, ResponseLength,
  MaxModelLen      \* of the configuration

Opening == <<"start">>
Closing == <<"end">>

\* How a format opens a tool's message, wraps its content, and whether the
\* responses to the calls of one turn share a message.
FormatConfig ==
  [chatml |-> [opens |-> <<"tool">>, before |-> <<>>, after |-> <<>>, merges |-> FALSE],
   qwen   |-> [opens |-> <<"user">>, before |-> <<"(">>, after |-> <<")">>, merges |-> TRUE]]

Copies(x, n) == [i \in 1..n |-> x]

\* list[from:][:n]
Slice(list, from, n) ==
  [i \in 1..(IF Len(list) - from < n THEN Len(list) - from ELSE n) |-> list[from + i]]

\* ids[-len(tail):] == tail, of at most one token; for an empty tail the slice
\* is the whole list, which is not empty.
EndsWith(ids, tail) == tail # <<>> /\ ids[Len(ids)] = tail[1]

Grow(req, ids, loss, message) ==
  [req EXCEPT !.ids = req.ids \o ids, !.loss = req.loss \o loss,
              !.messages = Append(req.messages, message)]

\* Both raise a ValueError on any other end of the list.
CanAddAssistant(req) == EndsWith(req.ids, Opening) \/ EndsWith(req.ids, Closing)

AddAssistantMessage_TrainsPrefix(req, size, over_long) ==
  LET opened == EndsWith(req.ids, Opening)
      head   == IF opened THEN <<>> ELSE Opening
      text   == Copies("text", size) \o (IF over_long THEN <<>> ELSE Closing)
  IN  Grow(req, head \o text, Copies(1, Len(head) + Len(text)),
           [role |-> "assistant", size |-> size])

AddAssistantMessage(req, size, over_long) ==
  LET opened == EndsWith(req.ids, Opening)
      head   == IF opened THEN <<>> ELSE Opening
      text   == Copies("text", size) \o (IF over_long THEN <<>> ELSE Closing)
  IN  Grow(req, head \o text, Copies(0, Len(head)) \o Copies(1, Len(text)),
           [role |-> "assistant", size |-> size])

\* Any other end raises a ValueError.
CanAddToolResponse(req) ==
  LET f == FormatConfig[req.format]
  IN  \E end \in {f.opens, f.after, f.before, Closing} : EndsWith(req.ids, end)

\* What the response of a tool is wrapped in, by how the list ends.
ToolHead(f, ids) ==
  CASE EndsWith(ids, f.opens) \/ EndsWith(ids, f.after) -> f.before
    [] EndsWith(ids, f.before) -> <<>>
    [] EndsWith(ids, Closing) -> f.opens \o f.before

AddToolResponse(req, tool, ok, last_tool) ==
  LET f    == FormatConfig[req.format]
      tail == f.after \o (IF last_tool \/ ~f.merges THEN Closing ELSE <<>>)
      ids  == ToolHead(f, req.ids) \o <<"response">> \o tail
  IN  Grow(req, ids, Copies(0, Len(ids)), [role |-> "tool", tool |-> tool, ok |-> ok])

\* COMPLETED; the lists are cut to the model's length and to the response's.
Finalize(req, scores) ==
  LET Cut(list)      == Slice(list, 0, req.max_model_len)
      Response(list) == Slice(list, req.prompt, ResponseLength)
  IN  [req EXCEPT !.state = "COMPLETED", !.scores = scores,
                  !.ids = Cut(req.ids), !.loss = Cut(req.loss),
                  !.response = Response(Cut(req.ids)),
                  !.response_loss = Response(Cut(req.loss))]

-----------------------------------------------------------------------------
(* The chat template of the tokenizer: a message at a time, a run of tool  *)
(* messages together if the format merges them.                            *)

IsTool(ms, i) == i \in DOMAIN ms /\ ms[i].role = "tool"

MessageTokens(f, ms, i) ==
  IF ~IsTool(ms, i) THEN Opening \o Copies("text", ms[i].size) \o Closing
  ELSE (IF f.merges /\ IsTool(ms, i - 1) THEN <<>> ELSE f.opens)
         \o f.before \o <<"response">> \o f.after
         \o (IF f.merges /\ IsTool(ms, i + 1) THEN <<>> ELSE Closing)

Conversation(req, prompt) ==
  LET f  == FormatConfig[req.format]
      ms == req.messages
  IN  prompt \o FlattenSeq([i \in DOMAIN ms |-> MessageTokens(f, ms, i)])

Rendered(req) == Conversation(req, req.text)

\* get_generation_prompt.
GenerationPrompt(req) == Rendered(req) \o Opening
=============================================================================
