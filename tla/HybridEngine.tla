----------------------------- MODULE HybridEngine -----------------------------
(***************************************************************************)
(* One worker that trains and generates on the same GPU, through the calls *)
(* of RayPPOTrainer.fit: generation enters FSDPVLLMShardingManager, which  *)
(* brings the actor's weights into vLLM and exchanges the random states,   *)
(* and leaves it again; log probabilities, updates and checkpoints load    *)
(* offloaded parameters and offload them again.                            *)
(*                                                                         *)
(* Weights are known by the number of updates behind them, 0 being the     *)
(* pretrained ones, as <<n>>; a random state by its stream and the draws   *)
(* made from it; the sampling parameters that every kind of call sets      *)
(* (common) and those only greedy decoding sets (rest) by what they were   *)
(* set for.                                                                *)
(***************************************************************************)
EXTENDS Naturals

CONSTANTS MaxTurns, MaxSteps, MaxLaunches   \* bounds, MaxSteps of a launch

ASSUME BoundsAssumption == {MaxTurns, MaxSteps, MaxLaunches} \subseteq Nat

VARIABLES
  config,      \* adapter only (lora), how vLLM starts, what is offloaded, what is saved
  stage,       \* where fit is
  at,          \* where the worker is in the call
  call,        \* meta_info of a generation
  turns,       \* generations of the rollout or validation
  steps,       \* rollouts of the launch
  launches,
  weights,     \* updates behind the actor's weights
  saved,       \* the checkpoint, or what a launch starts with without one
  on_gpu,      \* which of the actor's tensors are on the GPU
  base_sync_done,
  engine,      \* vLLM: base weights, adapter, which parts are awake
  first_call,  \* no generation has ended since the launch
  lora_request,
  sampling_params, old_sampling_params,
  rng,         \* the random state of the device
  torch_random_states, gen_random_states,
  drawn        \* draws made of every stream: since the launch for the generation,
               \* in the run that the launch goes on with for the training

driver  == <<stage, turns, steps, launches, saved>>
randoms == <<rng, torch_random_states, gen_random_states, drawn>>
vllm    == <<base_sync_done, engine, first_call, lora_request, sampling_params,
             old_sampling_params>>
vars    == <<config, driver, at, call, weights, on_gpu, vllm, randoms>>

Configs == {c \in [lora : BOOLEAN, preloaded : BOOLEAN, layered_summon : BOOLEAN,
                   offload_param : BOOLEAN, offload_optimizer : BOOLEAN,
                   lora_only : BOOLEAN] :
              (c.layered_summon \/ c.lora_only) => c.lora}

NoWeights == << >>    \* none, or randomly initialised ones
NoSave    == [weights |-> 0, rng |-> <<"torch", 0>>, drawn |-> 0]
NoCall    == [do_sample |-> TRUE, validate |-> FALSE]

Resident == (IF config.offload_param THEN {} ELSE {"param"})
              \cup (IF config.offload_optimizer THEN {} ELSE {"optimizer"})

\* load_fsdp_model_to_gpu and offload_fsdp_model_to_cpu, if so configured
LoadParam    == on_gpu \cup {"param"}
OffloadParam == IF config.offload_param THEN on_gpu \ {"param"} ELSE on_gpu

FromConfig == [common |-> "train", rest |-> "train"]

-----------------------------------------------------------------------------
Init ==
  /\ config \in Configs
  /\ stage = "down" /\ at = "idle" /\ call = NoCall
  /\ turns = 0 /\ steps = 0 /\ launches = 0 /\ weights = 0 /\ saved = NoSave
  /\ on_gpu = {} /\ base_sync_done = FALSE
  /\ engine = [base |-> NoWeights, adapter |-> NoWeights, awake |-> {}]
  /\ first_call = TRUE /\ lora_request = NoWeights
  /\ sampling_params = FromConfig /\ old_sampling_params = FromConfig
  /\ rng = <<"torch", 0>>
  /\ torch_random_states = rng /\ gen_random_states = <<"gen", 0>>
  /\ drawn = [torch |-> 0, gen |-> 0]

\* init_model builds the actor and vLLM, which goes to sleep, and offloads;
\* load_checkpoint loads what was saved.  vLLM loads the pretrained weights
\* itself, or none.
Launch ==
  /\ stage = "down" /\ launches < MaxLaunches
  /\ launches' = launches + 1
  /\ stage' \in {"validate_first", "rollout"}
  /\ steps' = IF stage' = "rollout" THEN 1 ELSE 0
  /\ at' = "idle" /\ call' = NoCall /\ turns' = 0
  /\ weights' = saved.weights
  /\ on_gpu' = Resident
  /\ base_sync_done' = config.preloaded
  /\ engine' = [base |-> IF config.preloaded THEN <<0>> ELSE NoWeights,
                adapter |-> NoWeights, awake |-> {}]
  /\ first_call' = TRUE /\ lora_request' = NoWeights
  /\ sampling_params' = FromConfig /\ old_sampling_params' = FromConfig
  /\ torch_random_states' = NoSave.rng /\ gen_random_states' = <<"gen", 0>>
  /\ LET extra == IF config.lora_only THEN NoSave ELSE saved
     IN  rng' = extra.rng /\ drawn' = [torch |-> extra.drawn, gen |-> 0]
  /\ UNCHANGED <<config, saved>>

\* The job is killed, wherever it is.
Crash ==
  /\ stage # "down"
  /\ stage' = "down" /\ at' = "idle"
  /\ UNCHANGED <<config, turns, steps, launches, saved, call, weights, on_gpu, vllm, randoms>>

-----------------------------------------------------------------------------
(* generate_sequences.                                                     *)

Validating == stage \in {"validate_first", "validate"}

\* __enter__ up to the state dict.  An adapter can only be gathered layer by
\* layer when vLLM has the base model.
Enter ==
  /\ at = "idle" /\ turns < MaxTurns
  /\ stage = "rollout" \/ Validating
  /\ \E do_sample \in (IF Validating THEN BOOLEAN ELSE {TRUE}) :
       call' = [do_sample |-> do_sample, validate |-> Validating]
  /\ IF config.layered_summon /\ ~base_sync_done
     THEN stage' = "raised" /\ UNCHANGED <<at, turns>>
     ELSE at' = "entered" /\ turns' = turns + 1 /\ UNCHANGED stage
  /\ on_gpu' = LoadParam
  /\ UNCHANGED <<config, steps, launches, saved, weights, vllm, randoms>>

UpdateParams_Once ==
  IF engine.adapter # NoWeights THEN engine
  ELSE IF config.lora /\ base_sync_done
  THEN [engine EXCEPT !.adapter = <<weights>>]
  ELSE [engine EXCEPT !.base = IF config.lora THEN <<0>> ELSE <<weights>>]

\* update_params: all weights; or the adapter, which takes the place of the
\* last one (max_loras is 1), but the base weights first.
UpdateParams ==
  IF config.lora /\ base_sync_done
  THEN [engine EXCEPT !.adapter = <<weights>>]
  ELSE [engine EXCEPT !.base = IF config.lora THEN <<0>> ELSE <<weights>>]

WakeUp ==
  /\ at = "entered"
  /\ engine' = [UpdateParams EXCEPT !.awake = {"weights"}]
  /\ base_sync_done' = TRUE
  /\ on_gpu' = OffloadParam
  /\ at' = "synced"
  /\ UNCHANGED <<config, driver, call, weights, first_call, lora_request, sampling_params,
                 old_sampling_params, randoms>>

\* __enter__ ends with the cache and the random states of the generation.
WakeCache ==
  /\ at = "synced"
  /\ engine' = [engine EXCEPT !.awake = @ \cup {"kv_cache"}]
  /\ torch_random_states' = rng
  /\ rng' = gen_random_states
  /\ at' = "ready"
  /\ UNCHANGED <<config, driver, call, weights, on_gpu, base_sync_done, first_call,
                 lora_request, sampling_params, old_sampling_params, gen_random_states, drawn>>

\* What generate_sequences asks for: greedy decoding comes first.
Wanted ==
  IF ~call.do_sample THEN [common |-> "greedy", rest |-> "greedy"]
  ELSE IF call.validate THEN [sampling_params EXCEPT !.common = "val"]
  ELSE sampling_params

\* The request names the adapter vLLM has, if any; the sampling parameters
\* are changed in place.
BeginGenerate ==
  /\ at = "ready"
  /\ lora_request' = IF config.lora THEN engine.adapter ELSE NoWeights
  /\ sampling_params' = Wanted
  /\ old_sampling_params' = sampling_params
  /\ at' = "generating"
  /\ UNCHANGED <<config, driver, call, weights, on_gpu, base_sync_done, engine, first_call, randoms>>

\* update_sampling_params puts back what it has changed.
Restored_CommonOnly == [sampling_params EXCEPT !.common = old_sampling_params.common]

Restored == old_sampling_params

Draw(n) ==
  /\ rng' = <<rng[1], rng[2] + n>>
  /\ drawn' = [drawn EXCEPT ![rng[1]] = @ + n]

EndGenerate ==
  /\ at = "generating"
  /\ Draw(IF call.do_sample THEN 1 ELSE 0)
  /\ sampling_params' = Restored
  /\ at' = "generated"
  /\ UNCHANGED <<config, driver, call, weights, on_gpu, base_sync_done, engine, first_call,
                 lora_request, old_sampling_params, torch_random_states, gen_random_states>>

GenRandomStates_Kept == gen_random_states

\* __exit__ remembers where the stream of the generation is.
GenRandomStates == rng

Exit ==
  /\ at = "generated"
  /\ engine' = [engine EXCEPT !.awake = {}]
  /\ gen_random_states' = GenRandomStates
  /\ rng' = torch_random_states
  /\ at' = "idle" /\ call' = NoCall /\ first_call' = FALSE
  /\ UNCHANGED <<config, driver, weights, on_gpu, base_sync_done, lora_request,
                 sampling_params, old_sampling_params, torch_random_states, drawn>>

-----------------------------------------------------------------------------
(* Passes of the actor.                                                    *)

\* What a pass needs on the GPU.
Needs == IF stage = "update" THEN {"param", "optimizer"} ELSE {"param"}

BeginPass ==
  /\ at = "idle"
  /\ stage \in {"log_prob", "ref", "update", "save"}
  /\ on_gpu' = on_gpu \cup Needs
  /\ at' = "loaded"
  /\ UNCHANGED <<config, driver, call, weights, vllm, randoms>>

\* An update draws random numbers (dropout).
Pass ==
  /\ at = "loaded"
  /\ weights' = IF stage = "update" THEN weights + 1 ELSE weights
  /\ saved' = IF stage = "save"
              THEN [weights |-> weights, rng |-> rng, drawn |-> drawn["torch"]]
              ELSE saved
  /\ Draw(IF stage = "update" THEN 1 ELSE 0)
  /\ at' = "passed"
  /\ UNCHANGED <<config, stage, turns, steps, launches, call, on_gpu, vllm, torch_random_states,
                 gen_random_states>>

\* The driver goes on, with a new step if with a rollout.
Continue(next) ==
  /\ stage' = next
  /\ next = "rollout" => steps < MaxSteps
  /\ steps' = IF next = "rollout" THEN steps + 1 ELSE steps

\* The reference is the actor without its adapter, or none or another model;
\* no update during the warm-up of the critic; saves and validations by their
\* frequencies.
AfterPass ==
  CASE stage = "log_prob" -> {"update", "save", "validate", "rollout"}
                               \cup (IF config.lora THEN {"ref"} ELSE {})
    [] stage = "ref"      -> {"update", "save", "validate", "rollout"}
    [] stage = "update"   -> {"save", "validate", "rollout"}
    [] stage = "save"     -> {"validate", "rollout"}

Offloaded_ParamOnly == OffloadParam

\* What is configured to be offloaded is, when the call ends.
Offloaded == on_gpu \cap Resident

EndPass ==
  /\ at = "passed"
  /\ on_gpu' = Offloaded
  /\ \E next \in AfterPass : Continue(next)
  /\ at' = "idle"
  /\ UNCHANGED <<config, turns, launches, saved, call, weights, vllm, randoms>>

\* A rollout, or a validation, has played its turns.
EndTurns ==
  /\ at = "idle" /\ turns > 0
  /\ \/ stage = "rollout" /\ Continue("log_prob")
     \/ Validating /\ Continue("rollout")
  /\ turns' = 0
  /\ UNCHANGED <<config, launches, saved, at, call, weights, on_gpu, vllm, randoms>>

Next ==
  \/ Launch
  \/ Crash
  \/ Enter
  \/ WakeUp
  \/ WakeCache
  \/ BeginGenerate
  \/ EndGenerate
  \/ Exit
  \/ BeginPass
  \/ Pass
  \/ EndPass
  \/ EndTurns

Spec == Init /\ [][Next]_vars
=============================================================================
