---------------------------- MODULE SGLangRollout ----------------------------
(***************************************************************************)
(* The multi-turn rollout of the SGLang worker, on the rank that drives    *)
(* the engine: one asyncio task for every request of a batch, which asks   *)
(* the engine, runs the tools the answer calls, and asks again.  A step is *)
(* what a task does between two awaits.  The tasks share the sampling      *)
(* parameters of the worker, the tools with their instances, and behind    *)
(* those the pools and the rate limiter.                                   *)
(*                                                                         *)
(* The tools are "search" and "sandbox", with the global rate limit.  The  *)
(* engine and the services are external: they answer anything.             *)
(***************************************************************************)
EXTENDS AsyncRolloutRequest, TokenBucket, FiniteSetsExt, Functions, TLC

CONSTANTS
  Prompts,      \* rows of the batch as it comes
  N,            \* samples of a prompt in training
  MaxTurns,
  Formats,      \* subset of {"chatml", "qwen"}
  Modes,        \* subset of {"train", "validate", "greedy"}
  PromptSizes,  \* sizes of the prompts with the chat template
  Texts,        \* sizes of the answers that end by themselves
  MaxCalls      \* of one answer

Rows == (1..Prompts) \X (1..N)

ASSUME BatchAssumption ==
  /\ PromptLength \in Nat \ {0} /\ ResponseLength \in Nat /\ MaxModelLen \in Nat
  /\ Prompts \in Nat /\ N \in Nat /\ MaxTurns \in Nat /\ MaxCalls \in Nat
  /\ Formats \subseteq {"chatml", "qwen"} /\ Modes \subseteq {"train", "validate", "greedy"}
  /\ PromptSizes \subseteq Nat \ {0} /\ Texts \subseteq Nat

ASSUME RolloutAssumption ==
  /\ Calls = Rows \X (1..MaxCalls) \X Tools
  /\ PoolOf = [c \in Calls |-> c[3]]
  /\ Tools \subseteq {"search", "sandbox"}
  /\ MaxModelLen >= PromptLength + ResponseLength   \* _verify_config

VARIABLES
  phase,      \* "idle", "running", "returned", or what the batch was ended by
  mode,       \* of the batch
  reqs,       \* the requests of the batch
  sampling,   \* self.sampling_params
  instances   \* of every tool, _instance_dict: the results kept for a request

vars == <<phase, mode, reqs, sampling, instances, bucket>>

\* The parameters of the decoding (temperature, top_p, top_k) go together; n
\* and max_new_tokens, which every call sets, are left out.
Configured == [decoding |-> "config"]

Init ==
  /\ phase = "idle"
  /\ mode = "train"
  /\ reqs = <<>>
  /\ sampling = Configured
  /\ instances = <<>>
  /\ BucketInit

Live(r) == phase = "running" /\ r \in DOMAIN reqs
Put(r, req) == reqs' = [reqs EXCEPT ![r] = req]
Raise(what) == phase' = what /\ UNCHANGED <<reqs, instances>>

-----------------------------------------------------------------------------
(* One request.                                                            *)

\* The prompts without the opening of the answer.  Of one that is too long it
\* matters what its cut is after: a token within a message, the closing of one,
\* or the opening of an answer that is given as an example.
PromptTexts ==
  {text \in UNION {[1..size - 1 -> {"prompt", "end", "start"}] : size \in PromptSizes} :
     \A i \in DOMAIN text :
       text[i] # "prompt" => i = PromptLength /\ (text[i] = "start" => i < Len(text))}

NewRequest(format, text, kwargs) ==
  LET ids == Slice(text \o Opening, 0, PromptLength)
  IN  [format |-> format, state |-> "PENDING", at |-> "created", turns |-> 0, ids |-> ids,
       loss |-> Copies(0, Len(ids)), prompt |-> Len(ids), text |-> text,
       messages |-> <<>>, kwargs |-> kwargs, calls |-> <<>>, saved |-> <<>>,
       reason |-> "none", scores |-> <<>>, response |-> <<>>, response_loss |-> <<>>,
       max_model_len |-> IF MaxModelLen < PromptLength + ResponseLength
                         THEN MaxModelLen ELSE PromptLength + ResponseLength]

\* Validation batches come with their samples.
StartBatch ==
  /\ phase = "idle"
  /\ mode' \in Modes
  /\ \E format \in Formats, texts \in [1..Prompts -> PromptTexts],
        kwargs \in [1..Prompts -> SUBSET Tools] :
       /\ Tools = {} => \A p \in 1..Prompts : Len(texts[p]) < PromptLength
       /\ reqs' = [r \in {row \in Rows : mode' # "train" => row[2] = 1}
                     |-> NewRequest(format, texts[r[1]], kwargs[r[1]])]
  /\ phase' = "running"
  /\ UNCHANGED <<sampling, instances, bucket>>

InstancesOf(r) == {<<tool, r>> : tool \in reqs[r].kwargs}

CreateTools(r) ==
  /\ Live(r) /\ reqs[r].at = "created"
  /\ instances' = [i \in DOMAIN instances \cup InstancesOf(r) |->
                     IF i \in InstancesOf(r) THEN 0 ELSE instances[i]]
  /\ Put(r, [reqs[r] EXCEPT !.state = "RUNNING", !.at = "ready"])
  /\ UNCHANGED <<phase, mode, sampling, bucket>>

MaxNewTokens(req) ==
  LET room == MaxModelLen - Len(GenerationPrompt(req)) - 1
  IN  IF room < ResponseLength THEN room ELSE ResponseLength

\* What the call of a request asks for.
Wanted ==
  CASE mode = "greedy"   -> [decoding |-> "greedy"]
    [] mode = "validate" -> [decoding |-> "val_kwargs"]
    [] mode = "train"    -> <<>>

\* The old values are kept in the task, the new ones are set for everybody.
\* The engine refuses to generate a negative number of tokens.
CallEngine(r) ==
  /\ Live(r) /\ reqs[r].at = "ready"
  /\ IF MaxNewTokens(reqs[r]) < 0
     THEN Raise("no room") /\ UNCHANGED sampling
     ELSE /\ sampling' = Wanted @@ sampling
          /\ Put(r, [reqs[r] EXCEPT !.at = "engine",
                                    !.saved = Restrict(sampling, DOMAIN Wanted)])
          /\ UNCHANGED <<phase, instances>>
  /\ UNCHANGED <<mode, bucket>>

-----------------------------------------------------------------------------
(* The answer of the engine.                                               *)

\* Cut off by its length; asked for no token, the engine may make one.
OverLong(req) ==
  {[kind |-> "length", size |-> size, calls |-> <<>>] :
     size \in {MaxNewTokens(req)} \cup (IF MaxNewTokens(req) = 0 THEN {1} ELSE {})}

\* Without a call that can be decoded; the closing token counts.
Plain(req) ==
  {[kind |-> "stop", size |-> size, calls |-> <<>>] :
     size \in {s \in Texts : s < MaxNewTokens(req)}}

\* With calls, rendered again from what was parsed.  A search without a
\* list of queries is answered on the spot.
Parsed ==
  {[tool |-> tool, result |-> "asked"] : tool \in Tools}
    \cup {[tool |-> tool, result |-> "refused"] : tool \in Tools \cap {"search"}}

CallLists == BoundedSeq(Parsed, MaxCalls) \ {<<>>}

WithCalls(req) ==
  IF MaxNewTokens(req) < 2 THEN {}
  ELSE {[kind |-> "tool_calls", size |-> size, calls |-> calls] :
          size \in Texts, calls \in CallLists}

\* The calls that go to the pools.
Places(r, calls) ==
  {<<r, i, calls[i].tool>> : i \in {j \in DOMAIN calls : calls[j].result = "asked"}}

\* Calls of the last turn are left alone; the others need an entry in the
\* request's tools_kwargs.
TakeAnswer(r, answer) ==
  LET req   == reqs[r]
      grown == AddAssistantMessage(req, answer.size, answer.kind = "length")
      turns == req.turns + 1
      calls == IF turns < MaxTurns THEN answer.calls ELSE <<>>
  IN  CASE ~CanAddAssistant(req) -> Raise("prompt cut") /\ UNCHANGED bucket
        [] \E i \in DOMAIN calls : calls[i].tool \notin req.kwargs ->
             Raise("tool without kwargs") /\ UNCHANGED bucket
        [] OTHER ->
             /\ Put(r, [grown EXCEPT !.turns = turns, !.saved = <<>>, !.reason = answer.kind,
                                     !.calls = calls,
                                     !.at = IF calls = <<>> THEN "finishing" ELSE "tools",
                                     !.state = IF answer.calls = <<>> THEN grown.state
                                               ELSE "TOOL_CALLING"])
             /\ Submit(Places(r, calls))
             /\ UNCHANGED <<phase, instances>>

\* The values of the task go back, to everybody.
Restore(r) == sampling' = reqs[r].saved @@ sampling

Answer(r) ==
  /\ Live(r) /\ reqs[r].at = "engine"
  /\ Restore(r)
  /\ \E answer \in OverLong(reqs[r]) \cup Plain(reqs[r]) \cup WithCalls(reqs[r]) :
       TakeAnswer(r, answer)
  /\ UNCHANGED mode

-----------------------------------------------------------------------------
(* The tools.                                                              *)

\* A search keeps its result in its instance, and turns a failure into a text.
Kept(r, result) == IF result = "ok" THEN [instances EXCEPT ![<<"search", r>>] = @ + 1] ELSE instances

\* The result of one call arrives.  The sandbox fails without a result.
ToolAnswers(r, i) ==
  /\ Live(r) /\ reqs[r].at = "tools" /\ i \in DOMAIN reqs[r].calls
  /\ reqs[r].calls[i].result = "asked"
  /\ LET tool == reqs[r].calls[i].tool
         c    == <<r, i, tool>>
     IN  /\ Take({c})
         /\ IF tool = "sandbox" /\ stage[c] = "failed"
            THEN Raise("sandbox failed")
            ELSE /\ Put(r, [reqs[r] EXCEPT !.calls[i].result = stage[c]])
                 /\ instances' = IF tool = "search" THEN Kept(r, stage[c]) ELSE instances
                 /\ UNCHANGED phase
  /\ UNCHANGED <<mode, sampling>>

\* The responses in the order of the calls, until the model's length is reached.
Responses(req) ==
  LET n == Len(req.calls)
      Add(q, i) == IF i > 1 /\ Len(q.ids) >= MaxModelLen THEN q
                   ELSE AddToolResponse(q, req.calls[i].tool, req.calls[i].result = "ok", i = n)
      after[i \in 0..n] == IF i = 0 THEN req ELSE Add(after[i - 1], i)
  IN  after[n]

\* All results are there.  After a response another one can always follow.
Respond(r) ==
  /\ Live(r) /\ reqs[r].at = "tools"
  /\ \A i \in DOMAIN reqs[r].calls : reqs[r].calls[i].result # "asked"
  /\ IF ~CanAddToolResponse(reqs[r])
     THEN Raise("bad end")
     ELSE /\ LET grown == Responses(reqs[r])
             IN  Put(r, IF Len(grown.ids) >= MaxModelLen
                        THEN [grown EXCEPT !.calls = <<>>, !.reason = "stop", !.at = "finishing"]
                        ELSE [grown EXCEPT !.calls = <<>>, !.state = "RUNNING", !.at = "ready"])
          /\ UNCHANGED <<phase, instances>>
  /\ UNCHANGED <<mode, sampling, bucket>>

-----------------------------------------------------------------------------
(* The end of a request, and of the batch.                                 *)

Reason(req) == IF req.turns >= MaxTurns THEN "stop" ELSE req.reason

Released_SearchOnly(r) == {i \in InstancesOf(r) : i[1] = "search"}

Released(r) == InstancesOf(r)

Finish(r) ==
  /\ Live(r) /\ reqs[r].at = "finishing"
  /\ CASE ~(InstancesOf(r) \subseteq DOMAIN instances) -> Raise("no instance")
       [] Reason(reqs[r]) \notin {"stop", "length"} -> Raise("finish reason")
       [] OTHER ->
            /\ instances' = Restrict(instances, DOMAIN instances \ Released(r))
            /\ Put(r, [Finalize(reqs[r], [tool \in reqs[r].kwargs |-> instances[<<tool, r>>]])
                         EXCEPT !.at = "done"])
            /\ UNCHANGED phase
  /\ UNCHANGED <<mode, sampling, bucket>>

ReturnBatch ==
  /\ phase = "running"
  /\ \A r \in DOMAIN reqs : reqs[r].at = "done"
  /\ phase' = IF \A r \in DOMAIN reqs : /\ reqs[r].state = "COMPLETED"
                                        /\ Len(reqs[r].ids) = Len(reqs[r].loss)
                                        /\ Len(reqs[r].ids) <= MaxModelLen
              THEN "returned" ELSE "bad request"
  /\ UNCHANGED <<mode, reqs, sampling, instances, bucket>>

\* The threads of the pools and of the limiter.
Pools ==
  /\ \/ \E c \in Calls : Start(c)
     \/ Acquire
     \/ \E c \in Calls, answer \in {"ok", "failed"} : Return(c, answer)
     \/ Release
  /\ UNCHANGED <<phase, mode, reqs, sampling, instances>>

Next ==
  \/ StartBatch
  \/ \E r \in Rows : \/ CreateTools(r)
                     \/ CallEngine(r)
                     \/ Answer(r)
                     \/ \E i \in 1..MaxCalls : ToolAnswers(r, i)
                     \/ Respond(r)
                     \/ Finish(r)
  \/ ReturnBatch
  \/ Pools

\* The event loop runs what is ready, the engine and the services answer (or
\* time out), threads run.
Spec == Init /\ [][Next]_vars /\ WF_vars(Next)
=============================================================================
