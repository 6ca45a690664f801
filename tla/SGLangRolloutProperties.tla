------------------------ MODULE SGLangRolloutProperties ------------------------
(* What the multi-turn rollout of the SGLang worker promises.              *)
EXTENDS SGLangRollout

TypeOK ==
  /\ phase \in {"idle", "running", "returned", "no room", "prompt cut",
                "tool without kwargs", "sandbox failed"}
  /\ mode \in Modes \cup {"train"}
  /\ DOMAIN reqs \subseteq Rows
  /\ DOMAIN instances \subseteq Tools \X Rows

\* What the assistant says, though it be nothing, with the token that closes it:
\* neither the opening of its turn nor anything of a prompt or a tool.
IsSaid(ids, i) ==
  \/ ids[i] = "text"
  \/ ids[i] = "end" /\ i > 1 /\ ids[i - 1] \in {"text", "start"}

Said(ids) == [i \in DOMAIN ids |-> IF IsSaid(ids, i) THEN 1 ELSE 0]

\* What the ids keep of the prompt: all of it, if it fits; if not, its beginning,
\* less an opening at the cut, which opens the answer.
Begun(req) ==
  IF Len(req.text) < PromptLength THEN req.text
  ELSE Slice(req.text, 0, IF req.text[PromptLength] = "start" THEN PromptLength - 1
                          ELSE PromptLength)

\* The messages after what is kept of the prompt: Rendered, if it fits.
Retold(req) == Conversation(req, Begun(req))

\* The ids are the prompt, or lack the opening of the answer.
AsShown(req) ==
  LET prompt == Retold(req) \o Opening
  IN  /\ IsPrefix(req.ids, prompt)
      /\ Len(req.ids) >= Len(prompt) - 1
      /\ req.loss = Said(req.ids)

\* The ids are the messages, or lack the closing of the last one, or are cut.
AsRendered(req) ==
  LET whole == Retold(req)
  IN  /\ IsPrefix(req.ids, whole)
      /\ Len(req.ids) \in {Len(whole), Len(whole) - 1, req.max_model_len}
      /\ req.loss = Said(req.ids)
      /\ Len(req.response) = Len(req.response_loss)
      /\ Len(req.response) <= ResponseLength
      /\ IsPrefix(req.response, Slice(req.ids, req.prompt, Len(req.ids)))

\* What is trained is what was generated, after the prompt or what is kept of it:
\* before a call of the engine the ids of a request are the prompt that is
\* rendered from its messages, though they are put together message by
\* message; when it is done they are the rendered messages, cut to the
\* length of the model, the closing token of an answer cut off by its length
\* missing.  Of a prompt that fits this is what the engine was shown.  One that
\* does not fit is cut in the ids and nowhere else: they go on from the cut with
\* what was told, and the engine is shown the whole prompt.  At both times
\* the loss is over the answers and nothing else.
TrainedAsShown ==
  \A r \in DOMAIN reqs :
    /\ reqs[r].at = "engine" => AsShown(reqs[r])
    /\ reqs[r].at = "done" => AsRendered(reqs[r])

\* The messages with the result of a search.
FoundIn(ms) ==
  {i \in DOMAIN ms : ms[i].role = "tool" /\ ms[i].tool = "search" /\ ms[i].ok}

\* A tool has an instance for a request exactly from before its first call
\* until its result has been read: no call of a tool is under way without
\* one, none is left when the batch returns, and a finished request has got
\* the search results that were put into its messages.
ToolsLiveWithTheirRequest ==
  /\ phase = "running" =>
       \A c \in Calls : stage[c] # "none" => <<c[3], c[1]>> \in DOMAIN instances
  /\ phase = "returned" => instances = <<>> /\ \A c \in Calls : stage[c] = "none"
  /\ \A r \in DOMAIN reqs :
       reqs[r].at = "done" /\ "search" \in reqs[r].kwargs =>
         \/ reqs[r].scores["search"] = Cardinality(FoundIn(reqs[r].messages))
         \/ Len(Retold(reqs[r])) >= MaxModelLen

\* Every batch ends, though the calls of all its requests wait for the tokens
\* of one limiter; and it only fails for what comes from outside: a prompt
\* that was cut, an answer that leaves no room for another, a call of a tool
\* the row does not have, a sandbox that fails, but never on the worker's own
\* checks of a request's state, its finish reason, its lengths or its tools.
FailsFromOutside ==
  phase \in {"idle", "running", "returned", "no room", "prompt cut",
            "tool without kwargs", "sandbox failed"}

BatchEnds ==
  /\ (phase = "running") ~> (phase # "running")
  /\ []FailsFromOutside

\* update_sampling_params: "Parameters are automatically fall back to their
\* original values upon exiting the block."
ParametersFallBack == phase = "returned" => sampling = Configured
=============================================================================
