------------------------ MODULE HybridEngineProperties ------------------------
(* What a worker that trains and generates must keep apart.                *)
EXTENDS HybridEngine, Sequences

\* The weights a generation is made with.
Effective == IF lora_request # NoWeights THEN lora_request ELSE engine.base

\* A generation is made with the weights the actor has, whatever was trained,
\* loaded or validated before: vLLM is brought up to date in every call.  With
\* one exception: in a launch that trains an adapter in a vLLM without weights
\* of its own, the first call brings it the base model and no adapter, so it is
\* made with the pretrained weights, although the adapter may have been
\* loaded from a checkpoint.
GeneratesWithActorWeights ==
  at = "generating" =>
    Effective = IF first_call /\ config.lora /\ ~config.preloaded
                THEN <<0>> ELSE <<weights>>

\* The random numbers of training and of generation are two streams, and both
\* go on where they stopped: no generation repeats the numbers of an earlier
\* one of its launch, and the training draws what it would without generations,
\* also after a restart from a full checkpoint.
StreamsContinue ==
  stage # "down" =>
    IF at \in {"ready", "generating", "generated"}
    THEN /\ rng = <<"gen", drawn["gen"]>>
         /\ torch_random_states = <<"torch", drawn["torch"]>>
    ELSE /\ rng = <<"torch", drawn["torch"]>>
         /\ gen_random_states = <<"gen", drawn["gen"]>>

\* A generation samples as its call asks, however the calls before it did: a
\* greedy validation leaves no trace in the training that follows.
SamplingAsAsked ==
  at = "generating" =>
    /\ sampling_params.common = IF ~call.do_sample THEN "greedy"
                                ELSE IF call.validate THEN "val" ELSE "train"
    /\ sampling_params.rest = IF call.do_sample THEN "train" ELSE "greedy"

\* The cache of vLLM and what is configured to be offloaded are never on the
\* GPU together, and a pass finds what it needs there and vLLM asleep.
GpuIsShared ==
  stage \notin {"down", "raised"} =>
    /\ "kv_cache" \in engine.awake => on_gpu = Resident
    /\ at \in {"loaded", "passed"} => Needs \subseteq on_gpu /\ engine.awake = {}
    /\ at = "idle" => on_gpu = Resident

-----------------------------------------------------------------------------
(* The inductive invariant behind them.                                    *)

InCall == {"entered", "synced", "ready", "generating", "generated"}
Synced == InCall \ {"entered"}
InPass == {"loaded", "passed"}
GenStages  == {"validate_first", "rollout", "validate"}
PassStages == {"log_prob", "ref", "update", "save"}

Weights == Seq(Nat)
Params  == [common : {"train", "val", "greedy"}, rest : {"train", "greedy"}]
States  == {"torch", "gen"} \X Nat

TypeOK ==
  /\ config \in Configs
  /\ stage \in {"down", "raised"} \cup GenStages \cup PassStages
  /\ at \in {"idle"} \cup InCall \cup InPass
  /\ call \in [do_sample : BOOLEAN, validate : BOOLEAN]
  /\ turns \in Nat /\ steps \in Nat /\ launches \in Nat /\ weights \in Nat
  /\ saved \in [weights : Nat, rng : States, drawn : Nat]
  /\ on_gpu \subseteq {"param", "optimizer"}
  /\ base_sync_done \in BOOLEAN /\ first_call \in BOOLEAN
  /\ engine \in [base : Weights, adapter : Weights, awake : SUBSET {"weights", "kv_cache"}]
  /\ lora_request \in Weights
  /\ sampling_params \in Params /\ old_sampling_params \in Params
  /\ rng \in States /\ torch_random_states \in States /\ gen_random_states \in States
  /\ drawn \in [torch : Nat, gen : Nat]

\* Which calls go with which stages of fit.
StageInv ==
  /\ at \in InCall => stage \in GenStages
  /\ at \in InPass => stage \in PassStages

\* What vLLM has: once a call has brought it up to date, the weights of the
\* actor, on either path; until the first call of a launch has ended, no
\* adapter can have reached a vLLM that had to be given the base model.
WeightsInv ==
  LET base_only == first_call /\ config.lora /\ ~config.preloaded
  IN  stage # "down" =>
        /\ config.preloaded \/ ~first_call \/ at \in Synced => base_sync_done
        /\ ~config.preloaded /\ first_call /\ at \notin Synced => ~base_sync_done
        /\ config.lora /\ base_sync_done => engine.base = <<0>>
        /\ ~config.lora \/ base_only => engine.adapter = NoWeights
        /\ at \in Synced /\ ~config.lora => engine.base = <<weights>>
        /\ at \in Synced /\ config.lora /\ ~base_only => engine.adapter = <<weights>>
        /\ at = "generating" => lora_request = engine.adapter

\* The sampling parameters are those of the configuration, but for a call.
SamplingInv ==
  stage # "down" =>
    /\ at = "generating" => old_sampling_params = FromConfig /\ SamplingAsAsked
    /\ at # "generating" => sampling_params = FromConfig

\* A checkpoint holds the stream of the training where it was.
StreamsInv ==
  /\ saved.rng = <<"torch", saved.drawn>>
  /\ StreamsContinue

\* Who is on the GPU at every point of a call.
GpuInv ==
  stage \notin {"down", "raised"} =>
    /\ at \notin {"entered"} \cup InPass => on_gpu = Resident
    /\ at = "entered" => on_gpu = Resident \cup {"param"}
    /\ at \in InPass => on_gpu = Resident \cup Needs
    /\ at \notin Synced => engine.awake = {}

EngineInv == TypeOK /\ StageInv /\ WeightsInv /\ SamplingInv /\ StreamsInv /\ GpuInv
=============================================================================
