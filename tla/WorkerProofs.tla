------------------------------ MODULE WorkerProofs ------------------------------
(***************************************************************************)
(* Proofs about a worker of the trainer, in three parts.                   *)
(*                                                                         *)
(* The hybrid engine, which trains and generates: for every number of      *)
(* turns, steps and launches and every configuration.                      *)
(*                                                                         *)
(* Activation offloading, which keeps at most two groups on the GPU and    *)
(* brings every group back in time: for every number of layers and of      *)
(* micro-batches.  The invariant says at every commit which group is where *)
(* and what the counter of offloaded groups is: one behind the current     *)
(* group, but for the first.                                               *)
(*                                                                         *)
(* Token rows, which every rank pads, packs, slices and shares: the number *)
(* that a token is trained with is its own.                                *)
(***************************************************************************)
EXTENDS HybridEngineProperties, ActivationOffloadProperties, TokenRowsProperties,
        SequenceLemmas

USE BoundsAssumption

-----------------------------------------------------------------------------
(* Lemmas about the operators of the model.                                *)

\* A configuration is a record of switches.
LEMMA ConfigFields ==
  ASSUME config \in Configs
  PROVE  /\ config.lora \in BOOLEAN /\ config.preloaded \in BOOLEAN
         /\ config.offload_param \in BOOLEAN /\ config.offload_optimizer \in BOOLEAN
BY DEF Configs

\* Weights that are there are not the absent ones.
LEMMA WeightsArePresent == \A n \in Nat : <<n>> \in Weights /\ <<n>> # NoWeights
BY DEF Weights, NoWeights

\* Some tensors stay on the GPU, and only tensors do.
LEMMA ResidentTensors == Resident \subseteq {"param", "optimizer"}
BY DEF Resident

\* Offloading the parameters undoes loading them, and offloading what is
\* configured undoes loading what a pass needs.
LEMMA OffloadUndoesLoad ==
  ASSUME config \in Configs
  PROVE  /\ on_gpu = Resident => LoadParam = Resident \cup {"param"}
         /\ on_gpu = Resident \cup {"param"} => OffloadParam = Resident
         /\ on_gpu = Resident \cup Needs => Offloaded = Resident
<1>1. on_gpu = Resident => LoadParam = Resident \cup {"param"}
  BY DEF LoadParam
<1>2. ASSUME on_gpu = Resident \cup {"param"} PROVE OffloadParam = Resident
  <2>1. CASE config.offload_param
    BY <1>2, <2>1 DEF OffloadParam, Resident
  <2>2. CASE ~config.offload_param
    BY <1>2, <2>2 DEF OffloadParam, Resident
  <2> QED BY <2>1, <2>2
<1>3. on_gpu = Resident \cup Needs => Offloaded = Resident
  BY DEF Offloaded
<1> QED BY <1>1, <1>2, <1>3

\* A draw moves one stream on, and counts it.
LEMMA DrawCounts ==
  ASSUME NEW n \in Nat, NEW s \in {"torch", "gen"}, rng = <<s, drawn[s]>>,
         drawn \in [torch : Nat, gen : Nat], Draw(n)
  PROVE  /\ rng' = <<s, drawn'[s]>>
         /\ drawn' \in [torch : Nat, gen : Nat]
         /\ \A t \in {"torch", "gen"} : t # s => drawn'[t] = drawn[t]
BY DEF Draw

-----------------------------------------------------------------------------
(* Types.                                                                  *)

\* The starting values are well typed.
LEMMA StartTypes ==
  /\ FromConfig \in Params /\ NoWeights \in Weights /\ <<0>> \in Weights
  /\ NoCall \in [do_sample : BOOLEAN, validate : BOOLEAN]
  /\ NoSave \in [weights : Nat, rng : States, drawn : Nat]
BY DEF FromConfig, Params, NoWeights, Weights, NoCall, NoSave, States

LEMMA TypeInit == Init => TypeOK
<1> SUFFICES ASSUME Init PROVE TypeOK
  OBVIOUS
<1>1. engine \in [base : Weights, adapter : Weights, awake : SUBSET {"weights", "kv_cache"}]
  BY StartTypes DEF Init
<1>2. rng \in States /\ torch_random_states \in States /\ gen_random_states \in States
  BY DEF Init, States
<1>3. /\ call \in [do_sample : BOOLEAN, validate : BOOLEAN]
      /\ saved \in [weights : Nat, rng : States, drawn : Nat]
      /\ drawn \in [torch : Nat, gen : Nat]
      /\ lora_request \in Weights /\ sampling_params \in Params
      /\ old_sampling_params \in Params
  BY StartTypes DEF Init
<1> QED BY <1>1, <1>2, <1>3 DEF Init, TypeOK

\* Bringing vLLM up to date keeps it a vLLM.
LEMMA UpdateParamsType ==
  ASSUME TypeOK
  PROVE  UpdateParams \in [base : Weights, adapter : Weights, awake : SUBSET {"weights", "kv_cache"}]
BY StartTypes, WeightsArePresent DEF TypeOK, UpdateParams

\* What a call asks for are sampling parameters.
LEMMA WantedType ==
  ASSUME TypeOK
  PROVE  Wanted \in Params
BY DEF TypeOK, Wanted, Params

\* A draw keeps the types of the streams.
LEMMA DrawType ==
  ASSUME rng \in States, drawn \in [torch : Nat, gen : Nat], NEW n \in Nat, Draw(n)
  PROVE  rng' \in States /\ drawn' \in [torch : Nat, gen : Nat]
<1>1. PICK t \in {"torch", "gen"}, k \in Nat : rng = <<t, k>>
  BY DEF States
<1>2. rng' = <<t, k + n>> /\ drawn' = [drawn EXCEPT ![t] = @ + n]
  BY <1>1 DEF Draw
<1>3. k + n \in Nat
  OBVIOUS
<1> QED BY <1>1, <1>2, <1>3 DEF States

LEMMA TypeStep == TypeOK /\ StageInv /\ [Next]_vars => TypeOK'
<1> SUFFICES ASSUME TypeOK, StageInv, [Next]_vars PROVE TypeOK'
  OBVIOUS
<1> USE DEF InCall, InPass, GenStages, PassStages
<1>1. CASE Launch
  <2>1. saved.weights \in Nat /\ saved.rng \in States /\ saved.drawn \in Nat
    BY DEF TypeOK
  <2>2. on_gpu' \subseteq {"param", "optimizer"}
    BY <1>1, ResidentTensors DEF Launch
  <2>3. rng' \in States /\ drawn' \in [torch : Nat, gen : Nat]
    BY <1>1, <2>1, StartTypes DEF Launch, NoSave
  <2>4. engine' \in [base : Weights, adapter : Weights, awake : SUBSET {"weights", "kv_cache"}]
    BY <1>1, StartTypes DEF Launch
  <2>5. torch_random_states' \in States /\ gen_random_states' \in States
    BY <1>1, StartTypes DEF Launch, States, NoSave
  <2>6. config \in Configs /\ config.preloaded \in BOOLEAN
    BY ConfigFields DEF TypeOK
  <2> QED BY <1>1, <2>1, <2>2, <2>3, <2>4, <2>5, <2>6, StartTypes DEF Launch, TypeOK
<1>2. CASE Crash
  BY <1>2 DEF Crash, TypeOK, vllm, randoms
<1>3. CASE Enter
  <2>1. on_gpu' \subseteq {"param", "optimizer"}
    BY <1>3 DEF Enter, LoadParam, TypeOK
  <2>2. call' \in [do_sample : BOOLEAN, validate : BOOLEAN]
    <3>1. Validating \in BOOLEAN
      BY DEF Validating
    <3> HIDE DEF Validating
    <3>2. PICK b \in BOOLEAN : call' = [do_sample |-> b, validate |-> Validating]
      BY <1>3 DEF Enter
    <3> QED BY <3>1, <3>2
  <2> QED BY <1>3, <2>1, <2>2 DEF Enter, TypeOK, vllm, randoms
<1>4. CASE WakeUp
  <2>1. engine' \in [base : Weights, adapter : Weights, awake : SUBSET {"weights", "kv_cache"}]
    BY <1>4, UpdateParamsType DEF WakeUp
  <2>2. on_gpu' \subseteq {"param", "optimizer"}
    BY <1>4 DEF WakeUp, OffloadParam, TypeOK
  <2> QED BY <1>4, <2>1, <2>2 DEF WakeUp, TypeOK, driver, randoms
<1>5. CASE WakeCache
  <2>1. engine' \in [base : Weights, adapter : Weights, awake : SUBSET {"weights", "kv_cache"}]
    BY <1>5 DEF WakeCache, TypeOK
  <2> QED BY <1>5, <2>1 DEF WakeCache, TypeOK, driver
<1>6. CASE BeginGenerate
  <2>1. sampling_params' \in Params
    BY <1>6, WantedType DEF BeginGenerate
  <2>2. lora_request' \in Weights
    BY <1>6, StartTypes DEF BeginGenerate, TypeOK
  <2> QED BY <1>6, <2>1, <2>2 DEF BeginGenerate, TypeOK, driver, randoms
<1>7. CASE EndGenerate
  <2>1. rng' \in States /\ drawn' \in [torch : Nat, gen : Nat]
    BY <1>7, DrawType DEF EndGenerate, TypeOK
  <2> QED BY <1>7, <2>1 DEF EndGenerate, Restored, TypeOK, driver
<1>8. CASE Exit
  <2>1. engine' \in [base : Weights, adapter : Weights, awake : SUBSET {"weights", "kv_cache"}]
    BY <1>8 DEF Exit, TypeOK
  <2> QED BY <1>8, <2>1, StartTypes DEF Exit, GenRandomStates, TypeOK, driver
<1>9. CASE BeginPass
  <2>1. on_gpu' \subseteq {"param", "optimizer"}
    BY <1>9 DEF BeginPass, Needs, TypeOK
  <2> QED BY <1>9, <2>1 DEF BeginPass, TypeOK, driver, vllm, randoms
<1>10. CASE Pass
  <2>1. rng' \in States /\ drawn' \in [torch : Nat, gen : Nat]
    BY <1>10, DrawType DEF Pass, TypeOK
  <2>2. saved' \in [weights : Nat, rng : States, drawn : Nat]
    BY <1>10 DEF Pass, TypeOK
  <2> QED BY <1>10, <2>1, <2>2 DEF Pass, TypeOK, vllm
<1>11. CASE EndPass
  <2>1. on_gpu' \subseteq {"param", "optimizer"}
    BY <1>11, ResidentTensors DEF EndPass, Offloaded
  <2>2. stage \in PassStages
    BY <1>11 DEF EndPass, StageInv
  <2>3. AfterPass \subseteq GenStages \cup PassStages
    BY <2>2 DEF AfterPass
  <2>4. stage' \in GenStages \cup PassStages /\ steps' \in Nat
    BY <1>11, <2>3 DEF EndPass, Continue, TypeOK
  <2> QED BY <1>11, <2>1, <2>4 DEF EndPass, TypeOK, vllm, randoms
<1>12. CASE EndTurns
  <2>1. stage' \in GenStages \cup PassStages /\ steps' \in Nat
    BY <1>12 DEF EndTurns, Continue, TypeOK
  <2> QED BY <1>12, <2>1 DEF EndTurns, TypeOK, vllm, randoms
<1>13. CASE UNCHANGED vars
  BY <1>13 DEF vars, driver, vllm, randoms, TypeOK
<1> QED BY <1>1, <1>2, <1>3, <1>4, <1>5, <1>6, <1>7, <1>8, <1>9, <1>10, <1>11, <1>12, <1>13 DEF Next

\* A call of a kind is only made in the stages of that kind.
LEMMA StageStep == StageInv /\ [Next]_vars => StageInv'
<1> SUFFICES ASSUME StageInv, [Next]_vars PROVE StageInv'
  OBVIOUS
<1> USE DEF StageInv, InCall, InPass, GenStages, PassStages
<1>1. CASE Launch \/ Crash
  BY <1>1 DEF Launch, Crash
<1>2. CASE Enter
  BY <1>2 DEF Enter, Validating
<1>3. CASE WakeUp \/ WakeCache \/ BeginGenerate \/ EndGenerate \/ Exit
  BY <1>3 DEF WakeUp, WakeCache, BeginGenerate, EndGenerate, Exit, driver
<1>4. CASE BeginPass \/ Pass \/ EndPass \/ EndTurns
  BY <1>4 DEF BeginPass, Pass, EndPass, EndTurns, driver
<1>5. CASE UNCHANGED vars
  BY <1>5 DEF vars, driver
<1> QED BY <1>1, <1>2, <1>3, <1>4, <1>5 DEF Next

-----------------------------------------------------------------------------
(* The GPU.                                                                *)

LEMMA GpuStep == TypeOK /\ StageInv /\ GpuInv /\ [Next]_vars => GpuInv'
<1> SUFFICES ASSUME TypeOK, StageInv, GpuInv, [Next]_vars, stage' \notin {"down", "raised"}
             PROVE  GpuInv'
  BY DEF GpuInv
<1> USE DEF Synced, InCall, InPass, GenStages, PassStages
<1>1. config \in Configs
  BY DEF TypeOK
<1>a. UNCHANGED config => Resident' = Resident
  BY DEF Resident
<1>b. UNCHANGED stage => Needs' = Needs
  BY DEF Needs
<1>2. CASE Launch
  BY <1>2, <1>a DEF Launch, GpuInv
<1>3. CASE Crash
  BY <1>3 DEF Crash
<1>4. CASE Enter
  <2>1. stage' = stage /\ at' = "entered" /\ on_gpu' = LoadParam /\ UNCHANGED <<config, engine>>
    BY <1>4 DEF Enter, vllm
  <2>2. on_gpu = Resident /\ engine.awake = {}
    BY <1>4, <2>1 DEF Enter, GpuInv
  <2> QED BY <1>1, <1>a, <2>1, <2>2, OffloadUndoesLoad DEF GpuInv
<1>5. CASE WakeUp
  <2>1. on_gpu = Resident \cup {"param"}
    BY <1>5 DEF WakeUp, GpuInv, driver
  <2> QED BY <1>1, <1>5, <1>a, <2>1, OffloadUndoesLoad DEF WakeUp, GpuInv, driver
<1>6. CASE WakeCache \/ BeginGenerate \/ EndGenerate
  BY <1>6, <1>a DEF WakeCache, BeginGenerate, EndGenerate, GpuInv, driver
<1>7. CASE Exit
  <2>1. engine'.awake = {}
    BY <1>7 DEF Exit, TypeOK
  <2> QED BY <1>7, <1>a, <2>1 DEF Exit, GpuInv, driver
<1>8. CASE BeginPass
  BY <1>8, <1>a, <1>b DEF BeginPass, GpuInv, driver, vllm
<1>9. CASE Pass
  BY <1>9, <1>a, <1>b DEF Pass, GpuInv, vllm
<1>10. CASE EndPass
  <2>1. on_gpu = Resident \cup Needs /\ engine.awake = {}
    BY <1>10 DEF EndPass, GpuInv, StageInv
  <2> QED BY <1>1, <1>10, <1>a, <2>1, OffloadUndoesLoad DEF EndPass, GpuInv, vllm
<1>11. CASE EndTurns
  BY <1>11, <1>a DEF EndTurns, GpuInv, Validating, vllm
<1>12. CASE UNCHANGED vars
  BY <1>12, <1>a, <1>b DEF vars, driver, vllm, GpuInv
<1> QED BY <1>2, <1>3, <1>4, <1>5, <1>6, <1>7, <1>8, <1>9, <1>10, <1>11, <1>12 DEF Next

-----------------------------------------------------------------------------
(* The sampling parameters.                                                *)

\* A call starting from the configuration samples as it asks.
LEMMA WantedFromConfig ==
  ASSUME sampling_params = FromConfig
  PROVE  /\ Wanted.common = IF ~call.do_sample THEN "greedy"
                            ELSE IF call.validate THEN "val" ELSE "train"
         /\ Wanted.rest = IF call.do_sample THEN "train" ELSE "greedy"
BY DEF Wanted, FromConfig

LEMMA SamplingStep == StageInv /\ SamplingInv /\ [Next]_vars => SamplingInv'
<1> SUFFICES ASSUME StageInv, SamplingInv, [Next]_vars, stage' # "down"
             PROVE  SamplingInv'
  BY DEF SamplingInv
<1>1. CASE Launch
  BY <1>1 DEF Launch, SamplingInv
<1>2. CASE Crash
  BY <1>2 DEF Crash
<1>3. CASE Enter \/ WakeUp \/ WakeCache \/ Exit
  BY <1>3 DEF Enter, WakeUp, WakeCache, Exit, SamplingInv, driver, vllm, Validating
<1>4. CASE BeginGenerate
  <2>1. sampling_params = FromConfig
    BY <1>4 DEF BeginGenerate, SamplingInv, driver
  <2>2. /\ at' = "generating" /\ old_sampling_params' = FromConfig
        /\ sampling_params' = Wanted /\ call' = call
    BY <1>4, <2>1 DEF BeginGenerate
  <2>3. SamplingAsAsked'
    BY <2>1, <2>2, WantedFromConfig DEF SamplingAsAsked
  <2> QED BY <2>2, <2>3 DEF SamplingInv
<1>5. CASE EndGenerate
  BY <1>5 DEF EndGenerate, Restored, SamplingInv, driver
<1>6. CASE BeginPass \/ Pass \/ EndPass \/ EndTurns
  <2>1. stage # "down" /\ at # "generating" /\ at' # "generating"
    BY <1>6 DEF BeginPass, Pass, EndPass, EndTurns, Validating, StageInv, InPass, PassStages
  <2>2. UNCHANGED sampling_params
    BY <1>6 DEF BeginPass, Pass, EndPass, EndTurns, vllm
  <2> QED BY <2>1, <2>2 DEF SamplingInv
<1>7. CASE UNCHANGED vars
  BY <1>7 DEF vars, driver, vllm, SamplingInv, SamplingAsAsked
<1> QED BY <1>1, <1>2, <1>3, <1>4, <1>5, <1>6, <1>7 DEF Next

-----------------------------------------------------------------------------
(* The random streams.                                                     *)

LEMMA StreamsStep == TypeOK /\ StageInv /\ StreamsInv /\ [Next]_vars => StreamsInv'
<1> SUFFICES ASSUME TypeOK, StageInv, StreamsInv, [Next]_vars PROVE StreamsInv'
  OBVIOUS
<1> USE DEF InCall, InPass, GenStages, PassStages
<1>1. /\ drawn \in [torch : Nat, gen : Nat]
      /\ saved \in [weights : Nat, rng : States, drawn : Nat]
  BY DEF TypeOK
<1>2. CASE Launch
  <2>1. /\ rng' = <<"torch", drawn'["torch"]>> /\ gen_random_states' = <<"gen", drawn'["gen"]>>
        /\ at' = "idle" /\ saved' = saved
    BY <1>2 DEF Launch, StreamsInv, NoSave
  <2> QED BY <2>1 DEF StreamsInv, StreamsContinue
<1>3. CASE Crash
  BY <1>3 DEF Crash, StreamsInv, StreamsContinue
<1>4. CASE Enter
  BY <1>4 DEF Enter, StreamsInv, StreamsContinue, randoms, Validating
<1>5. CASE WakeUp \/ BeginGenerate
  BY <1>5 DEF WakeUp, BeginGenerate, StreamsInv, StreamsContinue, driver, randoms
<1>6. CASE WakeCache \/ Exit
  BY <1>6 DEF WakeCache, Exit, GenRandomStates, StreamsInv, StreamsContinue, driver
<1>7. CASE EndGenerate
  <2>1. stage # "down" /\ rng = <<"gen", drawn["gen"]>>
    BY <1>7 DEF EndGenerate, StageInv, StreamsInv, StreamsContinue
  <2>2. PICK n \in Nat : Draw(n)
    BY <1>7 DEF EndGenerate
  <2>3. rng' = <<"gen", drawn'["gen"]>> /\ drawn'["torch"] = drawn["torch"]
    BY <1>1, <2>1, <2>2, DrawCounts
  <2> QED BY <1>7, <2>1, <2>3 DEF EndGenerate, StreamsInv, StreamsContinue, driver
<1>8. CASE Pass
  <2>1. stage # "down" /\ rng = <<"torch", drawn["torch"]>> /\ gen_random_states = <<"gen", drawn["gen"]>>
    BY <1>8 DEF Pass, StageInv, StreamsInv, StreamsContinue
  <2>2. PICK n \in Nat : Draw(n)
    BY <1>8 DEF Pass
  <2>3. rng' = <<"torch", drawn'["torch"]>> /\ drawn'["gen"] = drawn["gen"]
    BY <1>1, <2>1, <2>2, DrawCounts
  <2>4. saved'.rng = <<"torch", saved'.drawn>>
    BY <1>8, <2>1 DEF Pass, StreamsInv
  <2> QED BY <1>8, <2>1, <2>3, <2>4 DEF Pass, StreamsInv, StreamsContinue
<1>9. CASE BeginPass
  BY <1>9 DEF BeginPass, StreamsInv, StreamsContinue, driver, randoms
<1>10. CASE EndPass
  BY <1>10 DEF EndPass, StageInv, StreamsInv, StreamsContinue, randoms
<1>11. CASE EndTurns
  BY <1>11 DEF EndTurns, Validating, StreamsInv, StreamsContinue, randoms
<1>12. CASE UNCHANGED vars
  BY <1>12 DEF vars, driver, randoms, StreamsInv, StreamsContinue
<1> QED BY <1>2, <1>3, <1>4, <1>5, <1>6, <1>7, <1>8, <1>9, <1>10, <1>11, <1>12 DEF Next

-----------------------------------------------------------------------------
(* The weights.                                                            *)

LEMMA WeightsStep == TypeOK /\ StageInv /\ WeightsInv /\ [Next]_vars => WeightsInv'
<1> SUFFICES ASSUME TypeOK, StageInv, WeightsInv, [Next]_vars, stage' # "down"
             PROVE  WeightsInv'
  BY DEF WeightsInv
<1> USE DEF Synced, InCall, InPass, GenStages, PassStages
<1>1. /\ config.lora \in BOOLEAN /\ config.preloaded \in BOOLEAN
      /\ base_sync_done \in BOOLEAN /\ first_call \in BOOLEAN /\ weights \in Nat
      /\ engine \in [base : Weights, adapter : Weights, awake : SUBSET {"weights", "kv_cache"}]
  BY ConfigFields DEF TypeOK
<1>2. CASE Launch
  BY <1>1, <1>2 DEF Launch, WeightsInv
<1>3. CASE Crash
  BY <1>3 DEF Crash
<1>4. CASE Enter
  BY <1>4 DEF Enter, WeightsInv, vllm, Validating
<1>5. CASE WakeUp
  <2>1. stage # "down" /\ at = "entered" /\ at' = "synced" /\ base_sync_done'
    BY <1>5 DEF WakeUp, StageInv, driver
  <2>2. UNCHANGED <<config, weights, first_call, stage>>
    BY <1>5 DEF WakeUp, driver
  <2>3. engine'.base = UpdateParams.base /\ engine'.adapter = UpdateParams.adapter
    BY <1>5, UpdateParamsType DEF WakeUp
  <2>4. CASE config.lora /\ base_sync_done
    <3>1. UpdateParams.base = engine.base /\ UpdateParams.adapter = <<weights>>
      BY <1>1, <2>4 DEF UpdateParams
    <3> QED BY <1>1, <2>1, <2>2, <2>3, <2>4, <3>1 DEF WeightsInv
  <2>5. CASE ~(config.lora /\ base_sync_done)
    <3>1. /\ UpdateParams.base = IF config.lora THEN <<0>> ELSE <<weights>>
          /\ UpdateParams.adapter = engine.adapter
      BY <1>1, <2>5 DEF UpdateParams
    <3> QED BY <1>1, <2>1, <2>2, <2>3, <2>5, <3>1 DEF WeightsInv
  <2> QED BY <2>4, <2>5
<1>6. CASE WakeCache
  <2>1. engine'.base = engine.base /\ engine'.adapter = engine.adapter
    BY <1>1, <1>6 DEF WakeCache
  <2> QED BY <1>6, <2>1 DEF WakeCache, WeightsInv, driver
<1>7. CASE BeginGenerate
  <2>1. config.lora \/ engine.adapter = NoWeights
    BY <1>7 DEF BeginGenerate, WeightsInv, driver
  <2> QED BY <1>7, <2>1 DEF BeginGenerate, WeightsInv, driver
<1>8. CASE EndGenerate
  BY <1>8 DEF EndGenerate, WeightsInv, driver
<1>9. CASE Exit
  <2>1. engine'.base = engine.base /\ engine'.adapter = engine.adapter
    BY <1>1, <1>9 DEF Exit
  <2>2. stage # "down" /\ base_sync_done /\ ~first_call'
    BY <1>9 DEF Exit, StageInv, WeightsInv
  <2> QED BY <1>1, <1>9, <2>1, <2>2 DEF Exit, WeightsInv, driver
<1>10. CASE BeginPass \/ Pass \/ EndPass \/ EndTurns
  <2>1. /\ stage # "down" /\ at \notin Synced /\ at' \notin Synced
        /\ UNCHANGED <<config, base_sync_done, engine, first_call>>
    BY <1>10 DEF BeginPass, Pass, EndPass, EndTurns, Validating, StageInv, vllm
  <2> QED BY <2>1 DEF WeightsInv
<1>11. CASE UNCHANGED vars
  BY <1>11 DEF vars, driver, vllm, WeightsInv
<1> QED BY <1>2, <1>3, <1>4, <1>5, <1>6, <1>7, <1>8, <1>9, <1>10, <1>11 DEF Next

-----------------------------------------------------------------------------
(* Theorems.                                                               *)

LEMMA InitInv == Init => EngineInv
<1> SUFFICES ASSUME Init PROVE EngineInv
  OBVIOUS
<1>1. TypeOK
  BY TypeInit
<1> QED BY <1>1 DEF Init, EngineInv, StageInv, WeightsInv, SamplingInv, StreamsInv, StreamsContinue,
         GpuInv, InCall, InPass, NoSave

\* Weights, sampling parameters, random streams and memory are as the
\* invariant says in every reachable state.
THEOREM Inductive == Spec => []EngineInv
<1>1. Init => EngineInv
  BY InitInv
<1>2. EngineInv /\ [Next]_vars => EngineInv'
  BY TypeStep, StageStep, WeightsStep, SamplingStep, StreamsStep, GpuStep DEF EngineInv
<1> QED BY <1>1, <1>2, PTL DEF Spec

\* After any number of updates, validations and restarts a generation is made
\* with the weights the actor has then; but the first one of a launch that
\* trains an adapter, in a vLLM that was started without weights, is made with
\* the base model alone, whatever adapter was loaded.
THEOREM CurrentWeights == Spec => []GeneratesWithActorWeights
<1>1. ASSUME TypeOK, StageInv, WeightsInv PROVE GeneratesWithActorWeights
  <2> SUFFICES ASSUME at = "generating"
               PROVE  Effective = IF first_call /\ config.lora /\ ~config.preloaded
                                  THEN <<0>> ELSE <<weights>>
    BY DEF GeneratesWithActorWeights
  <2>1. stage # "down" /\ at \in Synced
    BY <1>1 DEF StageInv, Synced, InCall, GenStages
  <2>2. /\ base_sync_done /\ lora_request = engine.adapter
        /\ config.lora => engine.base = <<0>>
        /\ ~config.lora => engine.base = <<weights>> /\ engine.adapter = NoWeights
    BY <1>1, <2>1 DEF WeightsInv
  <2>3. CASE first_call /\ config.lora /\ ~config.preloaded
    BY <1>1, <2>1, <2>2, <2>3 DEF WeightsInv, Effective
  <2>4. CASE config.lora /\ ~(first_call /\ ~config.preloaded)
    <3>1. engine.adapter = <<weights>> /\ weights \in Nat
      BY <1>1, <2>1, <2>4 DEF WeightsInv, TypeOK
    <3> QED BY <2>2, <2>4, <3>1, WeightsArePresent DEF Effective
  <2>5. CASE ~config.lora
    BY <2>2, <2>5 DEF Effective
  <2> QED BY <2>3, <2>4, <2>5
<1> QED BY <1>1, Inductive, PTL DEF EngineInv

\* The two random streams never mix and never start over within a launch.
THEOREM StreamsApart == Spec => []StreamsContinue
<1>1. EngineInv => StreamsContinue
  BY DEF EngineInv, StreamsInv
<1> QED BY <1>1, Inductive, PTL

\* Every generation samples as its call asks, whatever came before it.
THEOREM SamplingCorrect == Spec => []SamplingAsAsked
<1>1. EngineInv => SamplingAsAsked
  BY DEF EngineInv, StageInv, SamplingInv, SamplingAsAsked, InCall, GenStages
<1> QED BY <1>1, Inductive, PTL

\* vLLM's cache and what is offloaded are never on the GPU together.
THEOREM GpuHandedOver == Spec => []GpuIsShared
<1>1. EngineInv => GpuIsShared
  BY DEF EngineInv, GpuInv, GpuIsShared, Synced, InCall, InPass
<1> QED BY <1>1, Inductive, PTL

-----------------------------------------------------------------------------
(* Activation offloading.                                                  *)

LEMMA Windows == \A i \in 0..(NumOffloadGroup - 1) : LayerWindow(i) = i + 1
<1>1. NumLayers \div NumOffloadGroup = 1 /\ NumLayers % NumOffloadGroup = 1
  BY OffloadAssumption DEF NumOffloadGroup
<1> QED
  BY <1>1, OffloadAssumption DEF LayerWindow, NumOffloadGroup

Types ==
  /\ current_group \in Int
  /\ offloaded_group_count \in Int
  /\ where \in [Groups -> {"none", "tensor", "key"}]
  /\ buf \in [Groups -> BOOLEAN]
  /\ phase \in {"compute", "commit", "return", "read"}
  /\ broken = FALSE

Forward ==
  phase \in {"compute", "commit"} =>
    /\ current_group \in Groups
    /\ offloaded_group_count = (IF current_group = 0 THEN 0 ELSE current_group - 1)
    /\ mapping = 0..(current_group - 1)
    /\ \A g \in Groups :
         /\ g < current_group => where[g] # "tensor"
         /\ g < current_group /\ buf[g] => g = current_group - 1
         /\ g > current_group => where[g] = "none" /\ ~buf[g]
         /\ g = current_group => where[g] # "key"
         /\ g = current_group /\ phase = "compute" => where[g] = "none" /\ ~buf[g]
         /\ buf[g] => g < NumOffloadGroup

\* The group that is, or is the next to be, read has been copied back.
Backward ==
  phase \in {"return", "read"} =>
    /\ phase = "return" => current_group \in 1..NumLayers
    /\ phase = "read" => current_group \in Groups
    /\ offloaded_group_count = (IF phase = "read" /\ current_group = 0 THEN 0
                                ELSE IF current_group <= 1 THEN 1 ELSE current_group - 1)
    /\ mapping = 0..(current_group - 2)
    /\ \A g \in Groups :
         /\ ~buf[g]
         /\ g < current_group - 1 => where[g] # "tensor"
         /\ g = current_group - 1 => where[g] # "key"
         /\ g = current_group => where[g] # "key" /\ (phase = "return" => where[g] = "none")
         /\ g > current_group => where[g] = "none"

Control == Types /\ Forward /\ Backward

LEMMA Sizes ==
  /\ NumOffloadGroup = NumLayers - 1 /\ NumLayers \in Int /\ NumLayers >= 3
  /\ Groups = 0..(NumLayers - 1)
  BY OffloadAssumption DEF NumOffloadGroup, Groups

LEMMA Starts == OffloadInit => Control
<1> SUFFICES ASSUME OffloadInit PROVE Control
  OBVIOUS
<1>1. Types
  BY Sizes DEF OffloadInit, Types
<1>2. Forward
  BY Sizes DEF OffloadInit, Forward
<1>3. Backward
  BY DEF OffloadInit, Backward
<1> QED  BY <1>1, <1>2, <1>3 DEF Control

LEMMA ComputeKeeps == ASSUME Control, Compute PROVE Control'
<1> USE Sizes
<1>1. phase = "compute" /\ phase' = "commit" /\ current_group \in Groups
  BY DEF Control, Compute, Forward
<1>2. where[current_group] = "none" /\ ~buf[current_group]
  BY <1>1 DEF Control, Forward
<1>3. PICK saves \in BOOLEAN :
        /\ where' = IF saves THEN [where EXCEPT ![current_group] = "tensor"] ELSE where
        /\ buf' = [buf EXCEPT ![current_group] = saves /\ current_group < NumOffloadGroup]
  BY DEF Compute
<1>4. /\ \A g \in Groups : g # current_group => where'[g] = where[g] /\ buf'[g] = buf[g]
      /\ where'[current_group] \in {"none", "tensor"}
      /\ buf'[current_group] => current_group < NumOffloadGroup
      /\ buf' \in [Groups -> BOOLEAN] /\ where' \in [Groups -> {"none", "tensor", "key"}]
  <2>1. CASE saves = TRUE
    BY <2>1, <1>1, <1>2, <1>3 DEF Control, Types
  <2>2. CASE saves = FALSE
    BY <2>2, <1>1, <1>2, <1>3 DEF Control, Types
  <2> QED  BY <2>1, <2>2
<1>5. /\ UNCHANGED <<current_group, offloaded_group_count, mapping>>
      /\ broken' = FALSE
  BY <1>2 DEF Compute, window
<1>6. Types'
  BY <1>1, <1>4, <1>5 DEF Control, Types
<1>7. Forward'
  BY <1>1, <1>4, <1>5 DEF Control, Forward
<1>8. Backward'
  BY <1>1 DEF Backward
<1> QED  BY <1>6, <1>7, <1>8 DEF Control

\* What a commit of the forward pass does, by the number of its group.
LEMMA ForwardWindow ==
  ASSUME Control, phase = "commit"
  PROVE  /\ current_group \in Groups
         /\ Gone <=> current_group > 0
         /\ OffloadedAtCommit = IF current_group < NumOffloadGroup THEN {current_group} ELSE {}
<1> USE Sizes
<1>1. /\ current_group \in Groups
      /\ offloaded_group_count = (IF current_group = 0 THEN 0 ELSE current_group - 1)
  BY DEF Control, Forward
<1>2. offloaded_group_count \in 0..(NumOffloadGroup - 1)
  BY <1>1
<1>3. LayerWindow(offloaded_group_count) = offloaded_group_count + 1
  BY <1>2, Windows
<1>4. Gone <=> current_group > 0
  BY <1>1, <1>3 DEF Gone
<1>5. OffloadedAtCommit = IF current_group < NumOffloadGroup THEN {current_group} ELSE {}
  <2>1. CASE current_group = 0
    BY <2>1, <1>1, <1>4 DEF OffloadedAtCommit
  <2>2. CASE current_group > 0
    BY <2>2, <1>1, <1>4 DEF OffloadedAtCommit
  <2> QED  BY <2>1, <2>2, <1>1
<1> QED  BY <1>1, <1>4, <1>5

LEMMA CommitForwardKeeps == ASSUME Control, CommitForward PROVE Control'
<1> USE Sizes
<1>1. phase = "commit"
  BY DEF CommitForward
<1>2. /\ current_group \in Groups
      /\ offloaded_group_count = (IF current_group = 0 THEN 0 ELSE current_group - 1)
      /\ mapping = 0..(current_group - 1)
  BY <1>1 DEF Control, Forward
<1>3. \A g \in Groups :
        /\ g < current_group => where[g] # "tensor"
        /\ g < current_group /\ buf[g] => g = current_group - 1
        /\ g > current_group => where[g] = "none" /\ ~buf[g]
        /\ g = current_group => where[g] # "key"
        /\ buf[g] => g < NumOffloadGroup
  BY <1>1 DEF Control, Forward
<1>4. /\ Gone <=> current_group > 0
      /\ OffloadedAtCommit = IF current_group < NumOffloadGroup THEN {current_group} ELSE {}
  BY <1>1, ForwardWindow
<1>5. /\ where' \in [Groups -> {"none", "tensor", "key"}]
      /\ \A g \in Groups :
           where'[g] = IF g \in OffloadedAtCommit /\ where[g] = "tensor" THEN "key" ELSE where[g]
  BY DEF CommitForward, Control, Types
<1>6. /\ buf' \in [Groups -> BOOLEAN]
      /\ \A g \in Groups : buf'[g] <=> buf[g] /\ ~(Gone /\ g = offloaded_group_count)
  BY DEF CommitForward
<1>7. /\ offloaded_group_count' = current_group
      /\ current_group' = current_group + 1
      /\ phase' = IF current_group + 1 < NumLayers THEN "compute" ELSE "return"
  BY <1>2, <1>4 DEF CommitForward
<1>8. broken' = FALSE
  <2>1. ~(offloaded_group_count >= NumOffloadGroup)
    BY <1>2
  <2>2. ~(\E g \in OffloadedAtCommit : where[g] = "key")
    BY <1>2, <1>3, <1>4
  <2> QED  BY <2>1, <2>2 DEF CommitForward
<1>9. mapping' = IF current_group < NumOffloadGroup THEN 0..current_group ELSE 0..(current_group - 1)
  BY <1>2, <1>4 DEF CommitForward
<1>10. Types'
  BY <1>2, <1>5, <1>6, <1>7, <1>8 DEF Types
<1>11. \A g \in Groups :
         /\ g <= current_group /\ g < NumOffloadGroup => where'[g] # "tensor"
         /\ buf'[g] => g = current_group
         /\ g > current_group => where'[g] = "none" /\ ~buf'[g]
         /\ buf'[g] => g < NumOffloadGroup
         /\ g = NumOffloadGroup => where'[g] # "key"
  BY <1>2, <1>3, <1>4, <1>5, <1>6
<1>12. Forward'
  BY <1>2, <1>7, <1>9, <1>11 DEF Forward
<1>13. Backward'
  <2> SUFFICES ASSUME phase' \in {"return", "read"} PROVE Backward'
    BY DEF Backward
  <2>1. current_group = NumOffloadGroup /\ phase' = "return" /\ current_group' = NumLayers
    BY <1>2, <1>7
  <2> QED
    BY <2>1, <1>7, <1>9, <1>11 DEF Backward
<1> QED  BY <1>10, <1>12, <1>13 DEF Control

\* The same of the backward pass.
LEMMA BackwardWindow ==
  ASSUME Control, phase = "return"
  PROVE  /\ current_group \in 1..NumLayers
         /\ offloaded_group_count = (IF current_group = 1 THEN 1 ELSE current_group - 1)
         /\ Due <=> current_group > 1
<1> USE Sizes
<1>1. /\ current_group \in 1..NumLayers
      /\ offloaded_group_count = (IF current_group = 1 THEN 1 ELSE current_group - 1)
  BY DEF Control, Backward
<1>2. LayerWindow(offloaded_group_count - 1) = offloaded_group_count
  BY <1>1, Windows
<1> QED  BY <1>1, <1>2 DEF Due

LEMMA CommitBackwardKeeps == ASSUME Control, CommitBackward PROVE Control'
<1> USE Sizes
<1> DEFINE c == current_group
           b == offloaded_group_count - 1
<1>1. phase = "return" /\ phase' = "read" /\ current_group' = current_group - 1 /\ buf' = buf
  BY DEF CommitBackward
<1>2. /\ c \in 1..NumLayers
      /\ offloaded_group_count = (IF c = 1 THEN 1 ELSE c - 1)
      /\ Due <=> c > 1
  BY <1>1, BackwardWindow
<1>3. /\ mapping = 0..(c - 2)
      /\ \A g \in Groups :
           /\ ~buf[g]
           /\ g < c - 1 => where[g] # "tensor"
           /\ g = c - 1 => where[g] # "key"
           /\ g >= c => where[g] = "none"
  BY <1>1 DEF Control, Backward
<1>4. broken' = FALSE
  <2>1. ~(b < 0)
    BY <1>2
  <2>2. ~(Due /\ (b >= NumOffloadGroup \/ b \notin mapping))
    BY <1>2, <1>3
  <2> QED  BY <2>1, <2>2 DEF CommitBackward
<1>5. where' = IF Due /\ where[b] = "key" THEN [where EXCEPT ![b] = "tensor"] ELSE where
  BY DEF CommitBackward
<1>6. /\ where' \in [Groups -> {"none", "tensor", "key"}]
      /\ \A g \in Groups : g # b => where'[g] = where[g]
      /\ Due => where'[b] # "key"
      /\ ~Due => where' = where
  <2>1. CASE Due /\ where[b] = "key"
    BY <2>1, <1>2, <1>5 DEF Control, Types
  <2>2. CASE ~(Due /\ where[b] = "key")
    BY <2>2, <1>2, <1>5 DEF Control, Types
  <2> QED  BY <2>1, <2>2
<1>7. mapping' = 0..(c - 3)
  <2>1. mapping' = IF Due THEN mapping \ {b} ELSE mapping
    BY DEF CommitBackward
  <2>2. CASE c = 1
    <3>1. mapping' = 0..(0 - 1)
      BY <2>1, <2>2, <1>2, <1>3
    <3> QED  BY <2>2, <3>1
  <2>3. CASE c > 1
    <3>1. b = c - 2
      BY <2>3, <1>2
    <3>2. mapping' = (0..(c - 2)) \ {c - 2}
      BY <2>1, <2>3, <3>1, <1>2, <1>3
    <3>3. (0..(c - 2)) \ {c - 2} = 0..(c - 3)
      BY <2>3, <1>2
    <3> QED  BY <3>2, <3>3
  <2> QED  BY <2>2, <2>3, <1>2
<1>8. offloaded_group_count' = IF c = 1 THEN 0 ELSE IF c = 2 THEN 1 ELSE c - 2
  BY <1>2 DEF CommitBackward, Counted
<1>9. Types'
  BY <1>1, <1>2, <1>4, <1>6, <1>8 DEF Types, Control
<1>10. Forward'
  BY <1>1 DEF Forward
<1>11. \A g \in Groups :
         /\ g < c - 2 => where'[g] # "tensor"
         /\ g = c - 2 => where'[g] # "key"
         /\ g = c - 1 => where'[g] # "key"
         /\ g > c - 1 => where'[g] = "none"
  BY <1>2, <1>3, <1>6
<1>12. Backward'
  BY <1>1, <1>2, <1>3, <1>7, <1>8, <1>11 DEF Backward
<1> QED  BY <1>9, <1>10, <1>12 DEF Control

LEMMA ReadKeeps == ASSUME Control, Read PROVE Control'
<1> USE Sizes
<1>1. /\ phase = "read" /\ current_group' = current_group
      /\ offloaded_group_count' = offloaded_group_count /\ mapping' = mapping
      /\ phase' = IF current_group > 0 THEN "return" ELSE "compute"
  BY DEF Read, window
<1>2. /\ current_group \in Groups
      /\ offloaded_group_count = (IF current_group = 0 THEN 0
                                  ELSE IF current_group <= 1 THEN 1 ELSE current_group - 1)
      /\ mapping = 0..(current_group - 2)
      /\ \A g \in Groups :
           /\ ~buf[g]
           /\ g < current_group - 1 => where[g] # "tensor"
           /\ g = current_group - 1 => where[g] # "key"
           /\ g = current_group => where[g] # "key"
           /\ g > current_group => where[g] = "none"
  BY <1>1 DEF Control, Backward
<1>3. /\ where' \in [Groups -> {"none", "tensor", "key"}] /\ buf' \in [Groups -> BOOLEAN]
      /\ \A g \in Groups : g # current_group => where'[g] = where[g] /\ buf'[g] = buf[g]
      /\ where'[current_group] = "none" /\ ~buf'[current_group]
  BY <1>2 DEF Read, Control, Types
<1>4. broken' = FALSE
  BY <1>2 DEF Read
<1>5. Types'
  BY <1>1, <1>2, <1>3, <1>4 DEF Types, Control
<1>6. Forward'
  BY <1>1, <1>2, <1>3 DEF Forward
<1>7. Backward'
  BY <1>1, <1>2, <1>3 DEF Backward
<1> QED  BY <1>5, <1>6, <1>7 DEF Control

LEMMA ControlIsInductive == Control /\ [OffloadNext]_offload_vars => Control'
<1> SUFFICES ASSUME Control, [OffloadNext]_offload_vars PROVE Control'
  OBVIOUS
<1>1. CASE UNCHANGED offload_vars
  BY <1>1 DEF offload_vars, window, Control, Types, Forward, Backward
<1> QED
  BY <1>1, ComputeKeeps, CommitForwardKeeps, CommitBackwardKeeps, ReadKeeps DEF OffloadNext

LEMMA ControlGivesTwo == Control => AtMostTwoGroups
<1> SUFFICES ASSUME Control PROVE AtMostTwoGroups
  OBVIOUS
<1> DEFINE low == IF current_group = 0 THEN 0 ELSE current_group - 1
<1> USE Sizes
<1>1. low \in Groups
  BY DEF Control, Types, Forward, Backward
<1>2. \A h \in Groups : OnGpu(h) => h \in {low, low + 1}
  <2>1. CASE phase \in {"compute", "commit"}
    BY <2>1 DEF Control, Forward, OnGpu
  <2>2. CASE phase \in {"return", "read"}
    BY <2>2 DEF Control, Backward, OnGpu
  <2> QED  BY <2>1, <2>2 DEF Control, Types
<1> QED
  BY <1>1, <1>2 DEF AtMostTwoGroups, Control, Types

\* At most two groups are on the GPU at any time, nothing is asserted in vain
\* and no tensor is read that is not back: enable_activation_offloading and
\* the handler it sets up, for every model it accepts.
THEOREM TwoGroups == OffloadSpec => []AtMostTwoGroups
  BY Starts, ControlIsInductive, ControlGivesTwo, PTL DEF OffloadSpec
-----------------------------------------------------------------------------
(* The order of the streams.                                               *)

Known(s, name, g) == Event(name, g) \in knows[s]

ForwardKnown ==
  phase \in {"compute", "commit"} =>
    \A g \in Groups :
      /\ g < current_group \/ (g = current_group /\ phase = "commit") => Known("compute", "computed", g)
      /\ g < current_group => Known("d2h", "copied", g) \/ g = NumOffloadGroup
      /\ g < current_group - 1 => Known("compute", "copied", g)

BackwardKnown ==
  phase \in {"return", "read"} =>
    \A g \in Groups :
      /\ g < NumOffloadGroup => Known("compute", "copied", g)
      /\ g < NumOffloadGroup /\ g >= current_group - 1 => Known("h2d", "back", g)
      /\ g < NumOffloadGroup /\ g = current_group /\ phase = "read" => Known("compute", "back", g)
      /\ g > current_group \/ (g = current_group /\ phase = "return") => Known("compute", "read", g)

Past ==
  /\ pass \in Int
  /\ DOMAIN knows = Streams
  /\ \A e \in DOMAIN before : e[2] \in Int /\ e[2] <= pass

Order == Past /\ ForwardKnown /\ BackwardKnown /\ StreamsKeepOrder

LEMMA OrderStarts == OffloadInit => Order
<1> SUFFICES ASSUME OffloadInit PROVE Order
  OBVIOUS
<1>1. Past
  BY DEF OffloadInit, Past
<1>2. ForwardKnown /\ BackwardKnown
  BY Sizes DEF OffloadInit, ForwardKnown, BackwardKnown
<1>3. StreamsKeepOrder
  BY DEF OffloadInit, StreamsKeepOrder, Before
<1> QED  BY <1>1, <1>2, <1>3 DEF Order

\* Events that are noted with what comes before them leave the order intact.
LEMMA NotingKeepsOrder ==
  ASSUME StreamsKeepOrder, pass' = pass, NEW new,
         DOMAIN before' = DOMAIN before \cup new,
         \A e \in DOMAIN before \ new : before'[e] = before[e],
         \A g \in Groups :
           /\ g < NumOffloadGroup =>
                /\ Event("copied", g) \in new =>
                     Event("computed", g) \in before'[Event("copied", g)]
                /\ Event("freed", g) \in new =>
                     Event("copied", g) \in before'[Event("freed", g)]
                /\ Event("back", g) \in new =>
                     Event("copied", g) \in before'[Event("back", g)]
                /\ Event("read", g) \in new =>
                     Event("back", g) \in before'[Event("read", g)]
           /\ \A h \in Groups : h > g + 1 /\ Event("back", g) \in new =>
                Event("read", h) \in before'[Event("back", g)]
  PROVE  StreamsKeepOrder'
<1>1. \A name, g : Event(name, g)' = Event(name, g)
  BY DEF Event
<1>2. \A e, f : Before(e, f) /\ f \notin new => (f \in DOMAIN before' => e \in before'[f])
  BY DEF Before
<1>3. \A g \in Groups : g < NumOffloadGroup =>
        /\ Before(Event("computed", g), Event("copied", g))'
        /\ Before(Event("copied", g), Event("freed", g))'
        /\ Before(Event("copied", g), Event("back", g))'
        /\ Before(Event("back", g), Event("read", g))'
  BY <1>1, <1>2 DEF StreamsKeepOrder, Before
<1>4. \A g, h \in Groups : h > g + 1 => Before(Event("read", h), Event("back", g))'
  BY <1>1, <1>2 DEF StreamsKeepOrder, Before
<1> QED  BY <1>3, <1>4 DEF StreamsKeepOrder

LEMMA NotingOneKeepsOrder ==
  ASSUME StreamsKeepOrder, pass' = pass, NEW new,
         DOMAIN before' = DOMAIN before \cup {new},
         \A e \in DOMAIN before \ {new} : before'[e] = before[e],
         \A g \in Groups :
           /\ g < NumOffloadGroup =>
                /\ Event("copied", g) # new /\ Event("freed", g) # new
                /\ Event("back", g) = new => Event("copied", g) \in before'[new]
                /\ Event("read", g) = new => Event("back", g) \in before'[new]
           /\ \A h \in Groups : h > g + 1 /\ Event("back", g) = new =>
                Event("read", h) \in before'[new]
  PROVE  StreamsKeepOrder'
<1>1. \A g \in Groups :
        /\ g < NumOffloadGroup =>
             /\ Event("copied", g) \in {new} =>
                  Event("computed", g) \in before'[Event("copied", g)]
             /\ Event("freed", g) \in {new} =>
                  Event("copied", g) \in before'[Event("freed", g)]
             /\ Event("back", g) \in {new} =>
                  Event("copied", g) \in before'[Event("back", g)]
             /\ Event("read", g) \in {new} =>
                  Event("back", g) \in before'[Event("read", g)]
        /\ \A h \in Groups : h > g + 1 /\ Event("back", g) \in {new} =>
             Event("read", h) \in before'[Event("back", g)]
  OBVIOUS
<1> QED  BY <1>1, NotingKeepsOrder

LEMMA ComputeOrders == ASSUME Control, Order, Compute PROVE Order'
<1> USE Sizes
<1> DEFINE new == Event("computed", current_group)
<1>1. /\ phase = "compute" /\ phase' = "commit" /\ pass' = pass /\ current_group' = current_group
      /\ knows' = Put(knows, "compute", new)
      /\ before' = Noted(before, knows, "compute", new)
  BY DEF Compute, window
<1>2. \A name, g : Event(name, g)' = Event(name, g)
  BY <1>1 DEF Event
<1>3. /\ DOMAIN knows' = Streams /\ \A s \in Streams : knows[s] \subseteq knows'[s]
      /\ new \in knows'["compute"]
  BY <1>1 DEF Order, Past, Put, Streams
<1>4. /\ DOMAIN before' = DOMAIN before \cup {new}
      /\ \A e \in DOMAIN before \ {new} : before'[e] = before[e]
  BY <1>1 DEF Noted
<1>5. Past'
  BY <1>1, <1>3, <1>4 DEF Order, Past, Event
<1>6. ForwardKnown'
  BY <1>1, <1>2, <1>3 DEF Order, ForwardKnown, Known, Streams
<1>7. BackwardKnown'
  BY <1>1 DEF BackwardKnown
<1>8. \A g : /\ Event("copied", g) # new /\ Event("freed", g) # new
             /\ Event("back", g) # new /\ Event("read", g) # new
  BY DEF Event
<1> HIDE DEF new
<1>9. StreamsKeepOrder'
  BY <1>1, <1>4, <1>8, NotingOneKeepsOrder DEF Order
<1> QED  BY <1>5, <1>6, <1>7, <1>9 DEF Order

LEMMA CommitForwardOrders == ASSUME Control, Order, CommitForward PROVE Order'
<1> USE Sizes
<1> DEFINE c == current_group
           k == SyncedAtCommit(knows)
           copies == {Event("copied", g) : g \in OffloadedAtCommit}
           freed == IF Gone THEN {Event("freed", offloaded_group_count)} ELSE {}
<1>1. /\ phase = "commit" /\ pass' = pass /\ c' = c + 1
      /\ phase' = IF c + 1 < NumLayers THEN "compute" ELSE "return"
      /\ knows' = [k EXCEPT !["d2h"] = @ \cup copies, !["compute"] = @ \cup freed]
      /\ before' = [e \in DOMAIN before \cup copies \cup freed |->
                      IF e \in copies THEN k["d2h"]
                      ELSE IF e \in freed THEN k["compute"] ELSE before[e]]
  BY DEF CommitForward
<1>2. /\ c \in Groups
      /\ offloaded_group_count = (IF c = 0 THEN 0 ELSE c - 1)
      /\ Gone <=> c > 0
      /\ OffloadedAtCommit = IF c < NumOffloadGroup THEN {c} ELSE {}
  BY <1>1, ForwardWindow DEF Control, Forward
<1>3. copies = IF c < NumOffloadGroup THEN {Event("copied", c)} ELSE {}
  BY <1>2
<1>4. freed = IF c > 0 THEN {Event("freed", c - 1)} ELSE {}
  <2>1. CASE c > 0
    BY <2>1, <1>2
  <2>2. CASE ~(c > 0)
    BY <2>2, <1>2
  <2> QED  BY <2>1, <2>2
<1>5. \A name, g : Event(name, g)' = Event(name, g)
  BY <1>1 DEF Event
<1>6. /\ DOMAIN k = Streams /\ \A s \in Streams : knows[s] \subseteq k[s]
      /\ knows["compute"] \subseteq k["d2h"]
      /\ c > 0 => knows["d2h"] \subseteq k["compute"]
  <2>1. CASE c > 0
    BY <2>1, <1>2 DEF SyncedAtCommit, BothWays, Wait, Order, Past, Streams
  <2>2. CASE c = 0
    BY <2>2, <1>2 DEF SyncedAtCommit, Wait, Order, Past, Streams
  <2> QED  BY <2>1, <2>2, <1>2
<1> HIDE DEF k, copies, freed
<1>7. /\ DOMAIN knows' = Streams /\ \A s \in Streams : k[s] \subseteq knows'[s]
      /\ copies \subseteq knows'["d2h"]
  BY <1>1, <1>6 DEF Streams
<1>8. Past'
  <2>1. DOMAIN before' = DOMAIN before \cup copies \cup freed
    BY <1>1
  <2>2. \A e \in copies \cup freed : e[2] = pass
    BY <1>3, <1>4 DEF Event
  <2> QED  BY <2>1, <2>2, <1>1, <1>7 DEF Order, Past
<1>9. \A g \in Groups :
        /\ g <= c => Known("compute", "computed", g)
        /\ g < c => Known("d2h", "copied", g)
  BY <1>1, <1>2 DEF Order, ForwardKnown
<1>10. \A g \in Groups :
         /\ g <= c => Known("compute", "computed", g)'
         /\ g <= c => Known("d2h", "copied", g)' \/ g = NumOffloadGroup
         /\ g < c => Known("compute", "copied", g)'
  BY <1>2, <1>3, <1>5, <1>6, <1>7, <1>9 DEF Known, Streams
<1>11. ForwardKnown'
  BY <1>1, <1>2, <1>10 DEF ForwardKnown
<1>12. BackwardKnown'
  <2> SUFFICES ASSUME phase' \in {"return", "read"} PROVE BackwardKnown'
    BY DEF BackwardKnown
  <2>1. c = NumOffloadGroup /\ c' = NumLayers /\ phase' = "return"
    BY <1>1, <1>2
  <2> QED  BY <2>1, <1>10 DEF BackwardKnown
<1>13. \A g \in Groups :
         /\ g < NumOffloadGroup =>
              /\ Event("copied", g) \in copies \cup freed =>
                   Event("computed", g) \in before'[Event("copied", g)]
              /\ Event("freed", g) \in copies \cup freed =>
                   Event("copied", g) \in before'[Event("freed", g)]
         /\ Event("back", g) \notin copies \cup freed
         /\ Event("read", g) \notin copies \cup freed
  <2> SUFFICES ASSUME NEW g \in Groups
               PROVE  /\ g < NumOffloadGroup =>
                           /\ Event("copied", g) \in copies \cup freed =>
                                Event("computed", g) \in before'[Event("copied", g)]
                           /\ Event("freed", g) \in copies \cup freed =>
                                Event("copied", g) \in before'[Event("freed", g)]
                      /\ Event("back", g) \notin copies \cup freed
                      /\ Event("read", g) \notin copies \cup freed
    OBVIOUS
  <2>1. Event("back", g) \notin copies \cup freed /\ Event("read", g) \notin copies \cup freed
    BY <1>3, <1>4 DEF Event
  <2>2. ASSUME Event("copied", g) \in copies \cup freed
        PROVE  Event("computed", g) \in before'[Event("copied", g)]
    <3>1. g = c /\ Event("copied", g) \in copies
      BY <2>2, <1>3, <1>4 DEF Event
    <3> QED  BY <3>1, <1>1, <1>6, <1>9 DEF Known
  <2>3. ASSUME Event("freed", g) \in copies \cup freed
        PROVE  Event("copied", g) \in before'[Event("freed", g)]
    <3>1. g = c - 1 /\ c > 0 /\ Event("freed", g) \in freed /\ Event("freed", g) \notin copies
      BY <2>3, <1>3, <1>4 DEF Event
    <3> QED  BY <3>1, <1>1, <1>2, <1>6, <1>9 DEF Known
  <2> QED  BY <2>1, <2>2, <2>3
<1>14. /\ DOMAIN before' = DOMAIN before \cup (copies \cup freed)
       /\ \A e \in DOMAIN before \ (copies \cup freed) : before'[e] = before[e]
  BY <1>1
<1>15. StreamsKeepOrder'
  BY <1>1, <1>13, <1>14, NotingKeepsOrder DEF Order
<1> QED  BY <1>8, <1>11, <1>12, <1>15 DEF Order

LEMMA CommitBackwardOrders == ASSUME Control, Order, CommitBackward PROVE Order'
<1> USE Sizes
<1> DEFINE c == current_group
           g0 == offloaded_group_count - 1
           k == IF Due THEN BothWays(knows, "h2d") ELSE knows
           back == Event("back", g0)
           done == IF Due THEN Put(k, "h2d", back) ELSE k
<1>1. /\ phase = "return" /\ phase' = "read" /\ pass' = pass /\ c' = c - 1
      /\ before' = IF Due THEN Noted(before, k, "h2d", back) ELSE before
      /\ knows' = IF c = 1 THEN Wait(done, "compute", "h2d") ELSE done
  BY DEF CommitBackward
<1>2. /\ c \in 1..NumLayers
      /\ offloaded_group_count = (IF c = 1 THEN 1 ELSE c - 1)
      /\ Due <=> c > 1
  BY <1>1, BackwardWindow
<1>3. \A name, g : Event(name, g)' = Event(name, g)
  BY <1>1 DEF Event
<1>4. /\ DOMAIN k = Streams /\ \A s \in Streams : knows[s] \subseteq k[s]
      /\ c > 1 => knows["compute"] \subseteq k["h2d"] /\ knows["h2d"] \subseteq k["compute"]
  BY <1>2 DEF BothWays, Wait, Order, Past, Streams
<1> HIDE DEF k
<1>5. /\ DOMAIN done = Streams /\ \A s \in Streams : k[s] \subseteq done[s]
      /\ c > 1 => back \in done["h2d"]
  BY <1>2, <1>4 DEF Put, Streams
<1> HIDE DEF done
<1>6. /\ DOMAIN knows' = Streams /\ \A s \in Streams : done[s] \subseteq knows'[s]
      /\ c = 1 => done["h2d"] \subseteq knows'["compute"]
  BY <1>1, <1>2, <1>5 DEF Wait, Streams
<1>7. /\ \A s \in Streams : knows[s] \subseteq knows'[s]
      /\ knows["h2d"] \subseteq knows'["compute"]
      /\ c > 1 => Event("back", c - 2) \in knows'["h2d"]
  <2>1. \A s \in Streams : knows[s] \subseteq knows'[s]
    BY <1>4, <1>5, <1>6
  <2>2. CASE c = 1
    BY <2>1, <2>2, <1>4, <1>5, <1>6 DEF Streams
  <2>3. CASE c > 1
    <3>1. knows["h2d"] \subseteq knows'["compute"]
      BY <2>3, <1>4, <1>5, <1>6 DEF Streams
    <3>2. back = Event("back", c - 2)
      BY <2>3, <1>2
    <3> QED  BY <2>1, <2>3, <3>1, <3>2, <1>5, <1>6 DEF Streams
  <2> QED  BY <2>1, <2>2, <2>3, <1>2
<1>8. Past'
  <2>1. DOMAIN before' \subseteq DOMAIN before \cup {back}
    BY <1>1 DEF Noted
  <2>2. back[2] = pass
    BY DEF Event
  <2> QED  BY <2>1, <2>2, <1>1, <1>6 DEF Order, Past
<1>9. \A g \in Groups :
        /\ g < NumOffloadGroup => Known("compute", "copied", g)
        /\ g < NumOffloadGroup /\ g >= c - 1 => Known("h2d", "back", g)
        /\ g >= c => Known("compute", "read", g)
  BY <1>1, <1>2 DEF Order, BackwardKnown
<1>10. BackwardKnown'
  <2>1. \A g \in Groups :
          /\ g < NumOffloadGroup => Known("compute", "copied", g)'
          /\ g < NumOffloadGroup /\ g >= c - 2 => Known("h2d", "back", g)'
          /\ g < NumOffloadGroup /\ g = c - 1 => Known("compute", "back", g)'
          /\ g > c - 1 => Known("compute", "read", g)'
    <3> SUFFICES ASSUME NEW g \in Groups
                 PROVE  /\ g < NumOffloadGroup => Known("compute", "copied", g)'
                        /\ g < NumOffloadGroup /\ g >= c - 2 => Known("h2d", "back", g)'
                        /\ g < NumOffloadGroup /\ g = c - 1 => Known("compute", "back", g)'
                        /\ g > c - 1 => Known("compute", "read", g)'
      OBVIOUS
    <3>1. g < NumOffloadGroup => Known("compute", "copied", g)'
      BY <1>3, <1>7, <1>9 DEF Known, Streams
    <3>2. g < NumOffloadGroup /\ g >= c - 2 => Known("h2d", "back", g)'
      <4>1. CASE g = c - 2
        BY <4>1, <1>2, <1>3, <1>7 DEF Known
      <4>2. CASE g # c - 2
        BY <4>2, <1>2, <1>3, <1>7, <1>9 DEF Known, Streams
      <4> QED  BY <4>1, <4>2
    <3>3. g < NumOffloadGroup /\ g = c - 1 => Known("compute", "back", g)'
      BY <1>2, <1>3, <1>7, <1>9 DEF Known
    <3>4. g > c - 1 => Known("compute", "read", g)'
      BY <1>2, <1>3, <1>7, <1>9 DEF Known, Streams
    <3> QED  BY <3>1, <3>2, <3>3, <3>4
  <2>2. \A g \in Groups : g >= c' - 1 <=> g >= c - 2
    BY <1>1, <1>2
  <2>3. \A g \in Groups :
          /\ g < NumOffloadGroup => Known("compute", "copied", g)'
          /\ g < NumOffloadGroup /\ g >= c' - 1 => Known("h2d", "back", g)'
          /\ g < NumOffloadGroup /\ g = c' => Known("compute", "back", g)'
          /\ g > c' => Known("compute", "read", g)'
    BY <2>1, <2>2, <1>1
  <2> QED  BY <2>3, <1>1 DEF BackwardKnown
<1>11. ForwardKnown'
  BY <1>1 DEF ForwardKnown
<1>12. StreamsKeepOrder'
  <2>1. CASE c = 1
    <3>1. before' = before
      BY <2>1, <1>1, <1>2
    <3> QED
      BY <3>1, <1>1, <1>3 DEF Order, StreamsKeepOrder, Before
  <2>2. CASE c > 1
    <3>1. g0 = c - 2 /\ before' = Noted(before, k, "h2d", back)
      BY <2>2, <1>1, <1>2
    <3>2. /\ DOMAIN before' = DOMAIN before \cup {back}
          /\ \A e \in DOMAIN before \ {back} : before'[e] = before[e]
          /\ before'[back] = k["h2d"]
      BY <3>1 DEF Noted
    <3>3. knows["compute"] \subseteq before'[back]
      BY <2>2, <3>2, <1>4
    <3>4. \A g \in Groups :
            /\ Event("copied", g) # back /\ Event("freed", g) # back /\ Event("read", g) # back
            /\ Event("back", g) = back => g = c - 2
      BY <3>1 DEF Event
    <3>5. \A g \in Groups : Event("back", g) = back =>
            /\ Event("copied", g) \in before'[Event("back", g)]
            /\ \A h \in Groups : h > g + 1 => Event("read", h) \in before'[Event("back", g)]
      <4> SUFFICES ASSUME NEW g \in Groups, Event("back", g) = back
                   PROVE  /\ Event("copied", g) \in before'[back]
                          /\ \A h \in Groups : h > g + 1 => Event("read", h) \in before'[back]
        OBVIOUS
      <4>1. g = c - 2 /\ g < NumOffloadGroup
        BY <3>4, <1>2
      <4> QED  BY <4>1, <3>3, <1>2, <1>9 DEF Known
    <3> HIDE DEF back
    <3> QED  BY <3>2, <3>4, <3>5, <1>1, NotingOneKeepsOrder DEF Order
  <2> QED  BY <2>1, <2>2, <1>2
<1> QED  BY <1>8, <1>10, <1>11, <1>12 DEF Order

LEMMA ReadOrders == ASSUME Control, Order, Read PROVE Order'
<1> USE Sizes
<1> DEFINE c == current_group
           new == Event("read", c)
<1>1. /\ phase = "read" /\ c' = c
      /\ knows' = Put(knows, "compute", new)
      /\ before' = Noted(before, knows, "compute", new)
      /\ IF c > 0 THEN phase' = "return" /\ pass' = pass ELSE phase' = "compute" /\ pass' = pass + 1
  BY DEF Read, window
<1>2. c \in Groups
  BY <1>1 DEF Control, Backward
<1>3. /\ DOMAIN knows' = Streams /\ \A s \in Streams : knows[s] \subseteq knows'[s]
      /\ new \in knows'["compute"]
  BY <1>1 DEF Order, Past, Put, Streams
<1>4. /\ DOMAIN before' = DOMAIN before \cup {new}
      /\ \A e \in DOMAIN before \ {new} : before'[e] = before[e]
      /\ before'[new] = knows["compute"] /\ new[2] = pass
  BY <1>1 DEF Noted, Event
<1>5. Past'
  BY <1>1, <1>3, <1>4 DEF Order, Past
<1>6. CASE c > 0
  <2>1. \A name, g : Event(name, g)' = Event(name, g)
    BY <1>1, <1>6 DEF Event
  <2>2. ForwardKnown'
    BY <1>1, <1>6 DEF ForwardKnown
  <2>3. BackwardKnown'
    BY <2>1, <1>1, <1>3, <1>6 DEF Order, BackwardKnown, Known, Streams
  <2>4. \A g \in Groups :
          /\ Event("copied", g) # new /\ Event("freed", g) # new /\ Event("back", g) # new
          /\ Event("read", g) = new /\ g < NumOffloadGroup => Event("back", g) \in before'[new]
    BY <1>1, <1>4 DEF Event, Order, BackwardKnown, Known
  <2> HIDE DEF new
  <2>5. StreamsKeepOrder'
    BY <2>4, <1>1, <1>4, <1>6, NotingOneKeepsOrder DEF Order
  <2> QED  BY <2>2, <2>3, <2>5, <1>5 DEF Order
<1>7. CASE c = 0
  <2>1. phase' = "compute" /\ pass' = pass + 1
    BY <1>1, <1>7
  <2>2. ForwardKnown'
    BY <2>1, <1>1, <1>7 DEF ForwardKnown
  <2>3. BackwardKnown'
    BY <2>1 DEF BackwardKnown
  <2>4. \A name, g : Event(name, g)' \notin DOMAIN before'
    <3>1. \A e \in DOMAIN before' : e[2] <= pass
      BY <1>4 DEF Order, Past
    <3>2. \A name, g : Event(name, g)'[2] = pass + 1
      BY <2>1 DEF Event
    <3>3. ~(pass + 1 <= pass)
      BY DEF Order, Past
    <3> QED  BY <3>1, <3>2, <3>3
  <2>5. StreamsKeepOrder'
    BY <2>4 DEF StreamsKeepOrder, Before
  <2> QED  BY <2>2, <2>3, <2>5, <1>5 DEF Order
<1> QED  BY <1>2, <1>6, <1>7

LEMMA StutterOrders == ASSUME Order, UNCHANGED offload_vars PROVE Order'
  BY DEF Order, Past, ForwardKnown, BackwardKnown, Known, StreamsKeepOrder, Before, Event,
         offload_vars, window, streams

\* The copies and kernels of the three streams never overtake one another,
\* whatever the model saves: the waits of synchronize_on_group_commit_forward
\* and on_group_commit_backward are enough for every number of layers.
THEOREM StreamsOrdered == OffloadSpec => []StreamsKeepOrder
<1>1. OffloadInit => Control /\ Order
  BY Starts, OrderStarts
<1>2. Control /\ Order /\ [OffloadNext]_offload_vars => (Control /\ Order)'
  <2> SUFFICES ASSUME Control, Order, [OffloadNext]_offload_vars PROVE (Control /\ Order)'
    OBVIOUS
  <2>1. Control'
    BY ControlIsInductive
  <2>2. Order'
    BY ComputeOrders, CommitForwardOrders, CommitBackwardOrders, ReadOrders, StutterOrders
    DEF OffloadNext
  <2> QED  BY <2>1, <2>2
<1>3. Order => StreamsKeepOrder
  BY DEF Order
<1> QED
  BY <1>1, <1>2, <1>3, PTL DEF OffloadSpec

-----------------------------------------------------------------------------
(* Token rows, for every size of the batch, the world, prompts, answers and  *)
(* micro-batches, and every setting.  A row that has been packed has a shape *)
(* (Shape): so many columns of padding, then the prompt and the answer,      *)
(* unmasked and counted from 0, then padding.  What the forward pass makes   *)
(* of rows of such shapes is right for each of them (RightFor), with and     *)
(* without padding; and whatever ranks compute of the rows they share comes  *)
(* back in the places of these rows (HandedBackInPlace).                     *)

HIDE BoundsAssumption

\* The sizes are positive, and every rank has as many rows as any other.
LEMMA Numbers ==
  /\ BatchSize \in Nat \ {0} /\ WorldSize \in Nat \ {0} /\ MaxPromptLength \in Nat \ {0}
  /\ ResponseLength \in Nat \ {0} /\ MicroBatchSize \in Nat \ {0}
  /\ BatchSize % WorldSize = 0
BY RowsAssumption

\* A setting has a way to cut prompts and groups that the ranks divide into.
LEMMA SettingFields ==
  ASSUME setting \in Settings
  PROVE  /\ setting.truncation \in {"left", "right", "middle", "error"}
         /\ setting.tp \in Nat \ {0} /\ WorldSize % setting.tp = 0
         /\ setting.sp \in Nat \ {0} /\ WorldSize % setting.sp = 0
BY RowsAssumption, Numbers DEF GroupSizes

-----------------------------------------------------------------------------
(* Masks.                                                                  *)

\* Of s, elements a + 1 to b are 1 and the others 0.
OnesBetween(s, a, b) ==
  /\ s \in Seq({0, 1}) /\ a \in Nat /\ b \in Nat /\ a <= b /\ b <= Len(s)
  /\ \A k \in 1 .. Len(s) : s[k] = 1 <=> k \in (a + 1) .. b

\* The sum of such a mask is how many columns it lets through.
LEMMA TotalOfOnes ==
  ASSUME NEW s, NEW a, NEW b, OnesBetween(s, a, b)
  PROVE  Total(s) = b - a
<1>1. /\ s \in Seq({0, 1}) /\ a \in Nat /\ b \in Nat /\ a <= b /\ b <= Len(s)
      /\ \A k \in 1 .. Len(s) : s[k] = 1 <=> k \in (a + 1) .. b
  BY DEF OnesBetween
<1>2. s \in Seq(Nat) /\ Len(s) \in Nat /\ \A k \in 1 .. Len(s) : s[k] \in {0, 1}
  BY <1>1
<1>3. PICK g \in [0 .. Len(s) -> Nat] :
        /\ g[0] = 0
        /\ \A k \in 1 .. Len(s) : g[k] = g[k - 1] + s[k]
        /\ FoldLeft(+, 0, s) = g[Len(s)]
  BY <1>2, RunningSum
<1> DEFINE upto(k) == IF k <= a THEN 0 ELSE IF k <= b THEN k - a ELSE b - a
           n == Len(s)
           T == {k \in 0 .. n : g[k] = upto(k)}
<1>4. 0 \in T
  <2>1. 0 \in 0 .. n /\ upto(0) = 0
    BY <1>1, <1>2
  <2> QED BY <1>3, <2>1
<1>5. ASSUME NEW k \in 1 .. n, k - 1 \in T PROVE k \in T
  <2>1. g[k] = g[k - 1] + s[k] /\ s[k] \in {0, 1} /\ (s[k] = 1 <=> k \in (a + 1) .. b)
        /\ g[k - 1] = upto(k - 1)
    BY <1>1, <1>2, <1>3, <1>5
  <2>2. g[k] = upto(k)
    BY <1>1, <1>2, <2>1
  <2> QED BY <2>2
<1>6. \A k \in 0 .. n : k \in T
  <2> HIDE DEF T
  <2> QED BY <1>2, <1>4, <1>5, UpTo
<1>7. g[n] = upto(n)
  BY <1>2, <1>6
<1>8. upto(n) = b - a
  BY <1>1, <1>2
<1>9. Total(s) = g[n]
  BY <1>3 DEF Total
<1> QED BY <1>7, <1>8, <1>9

\* A part of such a sequence from its start is one, too.
LEMMA OnesOfPart ==
  ASSUME NEW s, NEW a, NEW b, OnesBetween(s, a, b), NEW k \in 1 .. Len(s)
  PROVE  Total(SubSeq(s, 1, k)) = IF k <= a THEN 0 ELSE IF k <= b THEN k - a ELSE b - a
<1>1. /\ s \in Seq({0, 1}) /\ a \in Nat /\ b \in Nat /\ a <= b /\ b <= Len(s)
      /\ \A x \in 1 .. Len(s) : s[x] = 1 <=> x \in (a + 1) .. b
  BY DEF OnesBetween
<1> DEFINE q == SubSeq(s, 1, k)
<1>2. q \in Seq({0, 1}) /\ Len(q) = k /\ \A x \in 1 .. k : q[x] = s[x]
  <2>1. k \in 0 .. Len(s)
    BY <1>1
  <2> QED BY <1>1, <2>1, StartElements
<1> HIDE DEF q
<1> DEFINE c == IF k <= a THEN k ELSE a
           d == IF k <= a THEN k ELSE IF k <= b THEN k ELSE b
<1>3. OnesBetween(q, c, d)
  <2>1. c \in Nat /\ d \in Nat /\ c <= d /\ d <= k
    BY <1>1, <1>2
  <2>2. \A x \in 1 .. k : q[x] = 1 <=> x \in (c + 1) .. d
    BY <1>1, <1>2
  <2> QED BY <1>2, <2>1, <2>2 DEF OnesBetween
<1>4. Total(q) = d - c
  BY <1>3, TotalOfOnes
<1> QED BY <1>1, <1>4 DEF q

\* The elements of a sequence of n times x.
LEMMA RepeatedElements ==
  ASSUME NEW S, NEW x \in S, NEW n \in Nat
  PROVE  /\ Repeated(x, n) \in Seq(S) /\ Len(Repeated(x, n)) = n
         /\ \A k \in 1 .. n : Repeated(x, n)[k] = x
BY DEF Repeated

-----------------------------------------------------------------------------
(* What becomes of a prompt.                                               *)

Token == {"pad", "zero", "prompt", "answer", "eos"} \X Nat \X Nat

\* The tokens that padding adds are tokens.
LEMMA PadIsToken == Pad \in Token /\ Zero \in Token
BY DEF Pad, Zero, Token

\* A prompt that preprocessing takes.
Taken(ids) ==
  /\ ids \in Seq(Token) /\ Len(ids) >= 1
  /\ setting.truncation = "error" => Len(ids) <= MaxPromptLength

\* What is kept of a prompt, however it is cut, is not empty and fits.
LEMMA KeptPrompt ==
  ASSUME setting \in Settings, NEW ids, Taken(ids)
  PROVE  RawPromptIds(ids) \in Seq(Token) /\ Len(RawPromptIds(ids)) \in 1 .. MaxPromptLength
<1> DEFINE m == MaxPromptLength
           n == Len(ids)
           h == m \div 2
           r == m - h
<1>1. m \in Nat \ {0} /\ ids \in Seq(Token) /\ n \in Nat /\ n >= 1
  BY Numbers DEF Taken
<1>2. CASE ~(n > m)
  BY <1>1, <1>2 DEF RawPromptIds
<1>3. CASE n > m
  <2>1. setting.truncation \in {"left", "right", "middle"}
    BY <1>1, <1>3, SettingFields DEF Taken
  <2>2. h \in Nat /\ h < m
    BY <1>1
  <2>3. r \in Nat /\ r >= 1 /\ h + r = m /\ r <= n
    <3> HIDE DEF h
    <3> QED BY <1>1, <1>3, <2>2
  <2>4. RawPromptIds(ids) = Truncated(ids)
    BY <1>3 DEF RawPromptIds
  <2>5. CASE setting.truncation = "left"
    <3>1. Truncated(ids) = SubSeq(ids, (n - m) + 1, n)
      BY <2>5 DEF Truncated
    <3>2. n - m \in Nat /\ n - m <= n /\ n - (n - m) = m
      BY <1>1, <1>3
    <3>3. SubSeq(ids, (n - m) + 1, n) \in Seq(Token) /\ Len(SubSeq(ids, (n - m) + 1, n)) = n - (n - m)
      BY <1>1, <3>2, SubSeqElements
    <3> QED BY <1>1, <2>4, <3>1, <3>2, <3>3
  <2>6. CASE setting.truncation = "right"
    <3>1. setting.truncation # "left"
      BY <2>6
    <3>2. Truncated(ids) = SubSeq(ids, 1, m)
      BY <2>6, <3>1 DEF Truncated
    <3>3. Truncated(ids) = SubSeq(ids, 0 + 1, m)
      BY <3>2
    <3>4. SubSeq(ids, 0 + 1, m) \in Seq(Token) /\ Len(SubSeq(ids, 0 + 1, m)) = m - 0
      BY <1>1, <1>3, SubSeqElements
    <3> QED BY <1>1, <2>4, <3>3, <3>4
  <2>7. CASE setting.truncation = "middle"
    <3> DEFINE s == SubSeq(ids, 0 + 1, h)
               t == SubSeq(ids, (n - r) + 1, n)
    <3>1. setting.truncation # "left" /\ setting.truncation # "right"
      BY <2>7
    <3>2. Truncated(ids) = SubSeq(ids, 1, h) \o t
      BY <2>7, <3>1 DEF Truncated
    <3>3. Truncated(ids) = s \o t
      BY <3>2
    <3> HIDE DEF h, r
    <3>4. s \in Seq(Token) /\ Len(s) = h - 0
      BY <1>1, <1>3, <2>2, <2>3, SubSeqElements
    <3>5. n - r \in Nat /\ n - r <= n /\ n - (n - r) = r
      BY <1>1, <2>3
    <3>6. t \in Seq(Token) /\ Len(t) = n - (n - r)
      BY <1>1, <3>5, SubSeqElements
    <3> HIDE DEF s, t
    <3>7. s \o t \in Seq(Token) /\ Len(s \o t) = h + r
      BY <2>2, <2>3, <3>4, <3>5, <3>6, ConcatElements
    <3> QED BY <1>1, <2>3, <2>4, <3>3, <3>7
  <2> QED BY <2>1, <2>5, <2>6, <2>7
<1> QED BY <1>2, <1>3

\* How much padding comes before what is kept of a prompt.
GapOf(ids) == MaxPromptLength - Len(RawPromptIds(ids))

Prepared(r, ids) ==
  LET kept == RawPromptIds(ids) IN
  /\ r.raw_prompt_ids = kept
  /\ r.input_ids \in Seq(Token) /\ Len(r.input_ids) = MaxPromptLength
  /\ Len(r.attention_mask) = MaxPromptLength
  /\ OnesBetween(r.attention_mask, GapOf(ids), MaxPromptLength)
  /\ r.position_ids \in Seq(Nat) /\ Len(r.position_ids) = MaxPromptLength
  /\ \A k \in 1 .. Len(kept) :
       r.input_ids[GapOf(ids) + k] = kept[k] /\ r.position_ids[GapOf(ids) + k] = k - 1

\* Preprocessing pads on the left: what is kept ends the row, counted from 0.
LEMMA PreparedRow ==
  ASSUME setting \in Settings, NEW i, NEW ids, Taken(ids)
  PROVE  Prepared(PreprocessedRow(i, ids), ids) /\ PreprocessedRow(i, ids).index = i
<1> DEFINE m == MaxPromptLength
           kept == RawPromptIds(ids)
           K == Len(kept)
           g == m - K
           r == PreprocessedRow(i, ids)
           mask == Repeated(0, g) \o Repeated(1, K)
           tokens == Repeated(Pad, g) \o kept
<1>1. m \in Nat \ {0} /\ kept \in Seq(Token) /\ K \in 1 .. m /\ g \in 0 .. (m - 1) /\ g + K = m
  <2>1. m \in Nat \ {0} /\ kept \in Seq(Token) /\ K \in 1 .. m
    BY Numbers, KeptPrompt
  <2> QED BY <2>1
<1>2. r.raw_prompt_ids = kept /\ r.index = i
  BY DEF PreprocessedRow
<1>3. r.input_ids = tokens /\ r.attention_mask = mask /\ r.position_ids = PositionIds(mask)
  BY DEF PreprocessedRow, PostprocessData, RawPromptIds
<1> HIDE DEF kept, r
<1>4. /\ tokens \in Seq(Token) /\ Len(tokens) = m /\ \A k \in 1 .. K : tokens[g + k] = kept[k]
  <2>1. Repeated(Pad, g) \in Seq(Token) /\ Len(Repeated(Pad, g)) = g
    <3>1. g \in Nat
      BY <1>1
    <3> HIDE DEF g
    <3> QED BY <3>1, PadIsToken, RepeatedElements
  <2> DEFINE s == Repeated(Pad, g)
  <2> HIDE DEF s, K
  <2>2. Joined(s \o kept, s, kept, g, K) /\ s \o kept \in Seq(Token)
    BY <1>1, <2>1, ConcatJoins, ConcatElements DEF s, K
  <2> HIDE DEF g
  <2>3. ASSUME NEW k \in 1 .. K PROVE (s \o kept)[g + k] = kept[k]
    <3>1. g + k \in 1 .. (g + K) /\ ~(g + k <= g) /\ (g + k) - g = k
      BY <1>1
    <3> QED BY <2>2, <3>1 DEF Joined
  <2> QED BY <1>1, <2>2, <2>3 DEF Joined, s
<1>5. Len(mask) = m /\ OnesBetween(mask, g, m)
  <2> DEFINE s == Repeated(0, g)
             t == Repeated(1, K)
  <2>1. /\ s \in Seq({0, 1}) /\ Len(s) = g /\ \A k \in 1 .. g : s[k] = 0
        /\ t \in Seq({0, 1}) /\ Len(t) = K /\ \A k \in 1 .. K : t[k] = 1
    <3>1. 0 \in {0, 1} /\ 1 \in {0, 1} /\ g \in Nat /\ K \in Nat
      BY <1>1
    <3> HIDE DEF g, K
    <3> QED BY <3>1, RepeatedElements
  <2> HIDE DEF s, t
  <2>2. Joined(s \o t, s, t, g, K) /\ s \o t \in Seq({0, 1})
    BY <2>1, ConcatJoins, ConcatElements
  <2> HIDE DEF g, K
  <2>3. ASSUME NEW c \in 1 .. m PROVE (s \o t)[c] = 1 <=> c \in (g + 1) .. m
    <3>1. (s \o t)[c] = IF c <= g THEN s[c] ELSE t[c - g]
      BY <1>1, <2>2 DEF Joined
    <3>2. CASE c <= g
      BY <1>1, <2>1, <3>1, <3>2
    <3>3. CASE ~(c <= g)
      <4>1. c - g \in 1 .. K
        BY <1>1, <3>3
      <4> QED BY <1>1, <2>1, <3>1, <3>3, <4>1
    <3> QED BY <3>2, <3>3
  <2>4. Len(s \o t) = m
    BY <1>1, <2>2 DEF Joined
  <2> QED BY <1>1, <2>2, <2>3, <2>4 DEF OnesBetween, s, t
<1> HIDE DEF mask, tokens
<1>6. \A c \in 1 .. m : PositionIds(mask)[c] = IF c <= g THEN 0 ELSE c - g - 1
  <2> SUFFICES ASSUME NEW c \in 1 .. m PROVE PositionIds(mask)[c] = IF c <= g THEN 0 ELSE c - g - 1
    OBVIOUS
  <2>1. DOMAIN mask = 1 .. m
    BY <1>5 DEF OnesBetween
  <2>2. Total(SubSeq(mask, 1, c)) = IF c <= g THEN 0 ELSE IF c <= m THEN c - g ELSE m - g
    BY <1>5, OnesOfPart
  <2> DEFINE counted == Total(SubSeq(mask, 1, c)) - 1
  <2>3. PositionIds(mask)[c] = IF counted < 0 THEN 0 ELSE counted
    BY <2>1 DEF PositionIds
  <2> QED BY <1>1, <2>2, <2>3
<1>7. PositionIds(mask) \in Seq(Nat) /\ Len(PositionIds(mask)) = m
  <2>1. DOMAIN mask = 1 .. m
    BY <1>5 DEF OnesBetween
  <2>2. PositionIds(mask) = [c \in 1 .. m |-> PositionIds(mask)[c]]
    BY <2>1 DEF PositionIds
  <2>3. \A c \in 1 .. m : PositionIds(mask)[c] \in Nat
    BY <1>1, <1>6
  <2> DEFINE p == PositionIds(mask)
  <2>4. p = [c \in 1 .. m |-> p[c]] /\ (\A c \in 1 .. m : p[c] \in Nat) /\ m \in Nat
    BY <1>1, <2>2, <2>3
  <2> HIDE DEF p, m
  <2>5. p \in Seq(Nat) /\ Len(p) = m
    BY <2>4, SequenceOf
  <2> QED BY <2>5 DEF p
<1>8. \A k \in 1 .. K : PositionIds(mask)[g + k] = k - 1
  <2> SUFFICES ASSUME NEW k \in 1 .. K PROVE PositionIds(mask)[g + k] = k - 1
    OBVIOUS
  <2>1. g + k \in 1 .. m /\ ~(g + k <= g) /\ (g + k) - g - 1 = k - 1
    BY <1>1
  <2> QED BY <1>6, <2>1
<1>9. GapOf(ids) = g
  BY DEF GapOf, kept
<1> QED BY <1>2, <1>3, <1>4, <1>5, <1>7, <1>8, <1>9 DEF Prepared, r, kept

-----------------------------------------------------------------------------
(* What a prompt and its answer become.                                    *)

\* An answer ends at its end-of-sequence token or at the limit.
Answered(answer) ==
  /\ answer \in Seq(Token) /\ Len(answer) \in 1 .. ResponseLength
  /\ \A k \in 1 .. (Len(answer) - 1) : answer[k][1] # "eos"
  /\ Len(answer) < ResponseLength => answer[Len(answer)][1] = "eos"

\* A row with g columns of padding before its prompt, and an answer of n tokens.
Shape(r, g, n) ==
  /\ g \in 0 .. (MaxPromptLength - 1) /\ n \in 1 .. ResponseLength
  /\ r.input_ids \in Seq(Token) /\ Len(r.input_ids) = MaxPromptLength + ResponseLength
  /\ OnesBetween(r.attention_mask, g, MaxPromptLength + n)
  /\ Len(r.attention_mask) = MaxPromptLength + ResponseLength
  /\ r.position_ids \in Seq(Nat) /\ Len(r.position_ids) = MaxPromptLength + ResponseLength
  /\ \A c \in (g + 1) .. (MaxPromptLength + n) : r.position_ids[c] = c - g - 1
  /\ r.responses \in Seq(Token) /\ Len(r.responses) = ResponseLength
  /\ \A j \in 1 .. ResponseLength : r.responses[j] = r.input_ids[MaxPromptLength + j]

\* Padding an answer on the right leaves its tokens, and the mask found by
\* looking for the end-of-sequence token is that of the answer.
LEMMA PaddedAnswer ==
  ASSUME NEW answer, Answered(answer)
  PROVE  LET response == PaddedResponse(answer)
             mask     == GetResponseMask(response)
             n        == Len(answer)
         IN  /\ response \in Seq(Token) /\ Len(response) = ResponseLength
             /\ \A j \in 1 .. n : response[j] = answer[j]
             /\ mask = Repeated(1, n) \o Repeated(0, ResponseLength - n)
             /\ OnesBetween(mask, 0, n) /\ Len(mask) = ResponseLength
<1> DEFINE n == Len(answer)
           R == ResponseLength
           pads == Repeated(Pad, R - n)
           response == PaddedResponse(answer)
           mask == GetResponseMask(response)
<1>1. R \in Nat \ {0} /\ n \in 1 .. R /\ n \in Nat /\ R - n \in Nat /\ n + (R - n) = R /\ answer \in Seq(Token)
  BY Numbers DEF Answered
<1>2. pads \in Seq(Token) /\ Len(pads) = R - n
  <2> DEFINE d == R - n
  <2>1. d \in Nat
    BY <1>1
  <2> HIDE DEF d
  <2>2. Repeated(Pad, d) \in Seq(Token) /\ Len(Repeated(Pad, d)) = d
    BY <2>1, PadIsToken, RepeatedElements
  <2> QED BY <2>2 DEF d
<1>3. response = answer \o pads
  BY DEF PaddedResponse
<1> HIDE DEF pads, response
<1>4. response \in Seq(Token) /\ Len(response) = R /\ \A j \in 1 .. n : response[j] = answer[j]
  BY <1>1, <1>2, <1>3, ConcatElements
<1>5. \A k \in 1 .. R : mask[k] = IF k <= n THEN 1 ELSE 0
  <2> SUFFICES ASSUME NEW k \in 1 .. R PROVE mask[k] = IF k <= n THEN 1 ELSE 0
    OBVIOUS
  <2>1. mask[k] = IF \E l \in 1 .. (k - 1) : response[l][1] = "eos" THEN 0 ELSE 1
    <3>1. DOMAIN response = 1 .. R
      BY <1>1, <1>4
    <3> QED BY <3>1 DEF GetResponseMask
  <2>2. CASE k <= n
    <3>1. \A l \in 1 .. (k - 1) : l \in 1 .. n /\ l \in 1 .. (n - 1)
      BY <1>1, <2>2
    <3>2. \A l \in 1 .. (k - 1) : response[l][1] # "eos"
      BY <1>4, <3>1 DEF Answered
    <3> QED BY <2>1, <2>2, <3>2
  <2>3. CASE ~(k <= n)
    <3>1. n < R /\ n \in 1 .. (k - 1) /\ n \in 1 .. n
      BY <1>1, <2>3
    <3>2. response[n][1] = "eos"
      BY <1>4, <3>1 DEF Answered
    <3> QED BY <2>1, <2>3, <3>1, <3>2
  <2> QED BY <2>2, <2>3
<1>6. mask = [k \in 1 .. R |-> IF k <= n THEN 1 ELSE 0]
  <2>1. DOMAIN response = 1 .. R
    BY <1>1, <1>4
  <2>2. mask = [k \in 1 .. R |-> mask[k]]
    BY <2>1 DEF GetResponseMask
  <2> HIDE DEF mask
  <2> QED BY <1>5, <2>2
<1> HIDE DEF mask
<1>7. mask = Repeated(1, n) \o Repeated(0, R - n)
  <2> DEFINE d == R - n
             s == Repeated(1, n)
             t == Repeated(0, d)
  <2>1. d \in Nat /\ n + d = R
    BY <1>1
  <2> HIDE DEF d, n, R
  <2>2. /\ s \in Seq({0, 1}) /\ Len(s) = n /\ \A k \in 1 .. n : s[k] = 1
        /\ t \in Seq({0, 1}) /\ Len(t) = d /\ \A k \in 1 .. d : t[k] = 0
    <3>1. 0 \in {0, 1} /\ 1 \in {0, 1}
      OBVIOUS
    <3> QED BY <1>1, <2>1, <3>1, RepeatedElements
  <2> HIDE DEF s, t
  <2>3. Joined(s \o t, s, t, n, d) /\ s \o t \in Seq({0, 1})
    BY <2>2, ConcatJoins, ConcatElements
  <2>4. \A k \in 1 .. R : (s \o t)[k] = mask[k]
    <3> SUFFICES ASSUME NEW k \in 1 .. R PROVE (s \o t)[k] = mask[k]
      OBVIOUS
    <3>1. (s \o t)[k] = IF k <= n THEN s[k] ELSE t[k - n]
      BY <2>1, <2>3 DEF Joined
    <3>2. CASE k <= n
      BY <1>1, <1>5, <2>2, <3>1, <3>2
    <3>3. CASE ~(k <= n)
      <4>1. k - n \in 1 .. d
        BY <1>1, <2>1, <3>3
      <4> QED BY <1>5, <2>2, <3>1, <3>3, <4>1
    <3> QED BY <3>2, <3>3
  <2>5. Len(s \o t) = R /\ mask \in Seq({0, 1}) /\ Len(mask) = R
    BY <1>1, <1>6, <2>1, <2>3 DEF Joined
  <2>6. mask = s \o t
    BY <2>3, <2>4, <2>5, SeqEqual
  <2> QED BY <2>6 DEF s, t, d
<1>8. OnesBetween(mask, 0, n) /\ Len(mask) = R
  <2>1. mask \in Seq({0, 1}) /\ Len(mask) = R
    BY <1>1, <1>6
  <2>2. \A k \in 1 .. R : mask[k] = 1 <=> k \in (0 + 1) .. n
    BY <1>1, <1>5
  <2> QED BY <1>1, <2>1, <2>2 DEF OnesBetween
<1> QED BY <1>4, <1>7, <1>8 DEF response, mask, n, R

\* A row with its answer has the shape of one: prompt and answer lie next to
\* each other, unmasked and counted from 0, and the mask of the response is
\* the answer.
LEMMA PackedRow ==
  ASSUME NEW r, NEW ids, Prepared(r, ids), RawPromptIds(ids) \in Seq(Token),
         Len(RawPromptIds(ids)) \in 1 .. MaxPromptLength, NEW answer, Answered(answer)
  PROVE  LET p == Packed(r, answer)
             n == Len(answer)
             g == GapOf(ids)
         IN  /\ Shape(p, g, n)
             /\ \A k \in 1 .. Len(RawPromptIds(ids)) : p.input_ids[g + k] = RawPromptIds(ids)[k]
             /\ \A j \in 1 .. n : p.input_ids[MaxPromptLength + j] = answer[j]
             /\ ResponseMask(p) = Repeated(1, n) \o Repeated(0, ResponseLength - n)
             /\ Total(ResponseMask(p)) = n
<1> DEFINE n == Len(answer)
           R == ResponseLength
           m == MaxPromptLength
           kept == RawPromptIds(ids)
           K == Len(kept)
           g == GapOf(ids)
           response == PaddedResponse(answer)
           mask == GetResponseMask(response)
           p == Packed(r, answer)
           last == r.position_ids[m]
           ps == [k \in 1 .. R |-> last + k]
<1>1. /\ R \in Nat \ {0} /\ m \in Nat \ {0} /\ n \in 1 .. R /\ K \in 1 .. m /\ g \in 0 .. (m - 1) /\ g + K = m
  BY Numbers DEF GapOf, Answered
<1>2. /\ r.input_ids \in Seq(Token) /\ Len(r.input_ids) = m
      /\ Len(r.attention_mask) = m /\ OnesBetween(r.attention_mask, g, m)
      /\ r.position_ids \in Seq(Nat) /\ Len(r.position_ids) = m
      /\ \A k \in 1 .. K : r.input_ids[g + k] = kept[k] /\ r.position_ids[g + k] = k - 1
  BY DEF Prepared
<1>3. /\ response \in Seq(Token) /\ Len(response) = R /\ \A j \in 1 .. n : response[j] = answer[j]
      /\ mask = Repeated(1, n) \o Repeated(0, R - n)
      /\ OnesBetween(mask, 0, n) /\ Len(mask) = R
  BY PaddedAnswer
<1>4. /\ p.responses = response /\ p.input_ids = r.input_ids \o response
      /\ p.attention_mask = r.attention_mask \o mask /\ p.position_ids = r.position_ids \o ps
  <2>1. Last(r.position_ids) = last
    BY <1>2 DEF Last
  <2> QED BY <2>1 DEF Packed
<1> HIDE DEF n, R, m, kept, K, g, response, mask, p, last
<1>5. /\ p.input_ids \in Seq(Token) /\ Len(p.input_ids) = m + R
      /\ \A c \in 1 .. m : p.input_ids[c] = r.input_ids[c]
      /\ \A j \in 1 .. R : p.input_ids[m + j] = response[j]
  <2>1. Joined(p.input_ids, r.input_ids, response, m, R) /\ p.input_ids \in Seq(Token)
    BY <1>2, <1>3, <1>4, ConcatJoins, ConcatElements
  <2>2. \A c \in 1 .. m : p.input_ids[c] = r.input_ids[c]
    BY <1>1, <2>1 DEF Joined
  <2>3. ASSUME NEW j \in 1 .. R PROVE p.input_ids[m + j] = response[j]
    <3>1. m + j \in 1 .. (m + R) /\ ~(m + j <= m) /\ (m + j) - m = j
      BY <1>1
    <3> QED BY <2>1, <3>1 DEF Joined
  <2> QED BY <2>1, <2>2, <2>3 DEF Joined
<1>6. last \in Nat /\ last = K - 1
  <2>1. K \in 1 .. K
    BY <1>1
  <2>2. r.position_ids[g + K] = K - 1
    BY <1>2, <2>1
  <2> QED BY <1>1, <2>2 DEF last
<1>7. ps \in Seq(Nat) /\ Len(ps) = R /\ \A j \in 1 .. R : ps[j] = K - 1 + j
  BY <1>1, <1>6
<1> HIDE DEF ps
<1>8. /\ p.position_ids \in Seq(Nat) /\ Len(p.position_ids) = m + R
      /\ \A c \in (g + 1) .. (m + n) : p.position_ids[c] = c - g - 1
  <2>1. Joined(p.position_ids, r.position_ids, ps, m, R) /\ p.position_ids \in Seq(Nat)
    BY <1>2, <1>4, <1>7, ConcatJoins, ConcatElements
  <2>2. ASSUME NEW c \in (g + 1) .. (m + n) PROVE p.position_ids[c] = c - g - 1
    <3>1. p.position_ids[c] = IF c <= m THEN r.position_ids[c] ELSE ps[c - m]
      BY <1>1, <2>1 DEF Joined
    <3>2. CASE c <= m
      <4>1. c - g \in 1 .. K /\ g + (c - g) = c
        BY <1>1, <3>2
      <4> QED BY <1>2, <3>1, <3>2, <4>1
    <3>3. CASE ~(c <= m)
      <4>1. c - m \in 1 .. R /\ K - 1 + (c - m) = c - g - 1
        BY <1>1, <3>3
      <4> QED BY <1>7, <3>1, <3>3, <4>1
    <3> QED BY <3>2, <3>3
  <2> QED BY <2>1, <2>2 DEF Joined
<1>9. /\ Joined(p.attention_mask, r.attention_mask, mask, m, R) /\ p.attention_mask \in Seq({0, 1})
      /\ Len(p.attention_mask) = m + R
  <2>1. r.attention_mask \in Seq({0, 1}) /\ mask \in Seq({0, 1})
    BY <1>2, <1>3 DEF OnesBetween
  <2> DEFINE a == r.attention_mask
  <2>2. a \in Seq({0, 1}) /\ Len(a) = m /\ p.attention_mask = a \o mask
    BY <1>2, <1>4, <2>1
  <2> HIDE DEF a
  <2>3. Joined(a \o mask, a, mask, m, R) /\ a \o mask \in Seq({0, 1})
    BY <1>3, <2>1, <2>2, ConcatJoins, ConcatElements
  <2>4. Joined(p.attention_mask, r.attention_mask, mask, m, R)
    BY <2>2, <2>3 DEF a
  <2> QED BY <2>2, <2>3, <2>4 DEF Joined
<1>10. OnesBetween(p.attention_mask, g, m + n)
  <2>1. ASSUME NEW c \in 1 .. (m + R) PROVE p.attention_mask[c] = 1 <=> c \in (g + 1) .. (m + n)
    <3>1. p.attention_mask[c] = IF c <= m THEN r.attention_mask[c] ELSE mask[c - m]
      BY <1>9 DEF Joined
    <3>2. CASE c <= m
      <4>1. c \in 1 .. m
        BY <1>1, <3>2
      <4>2. r.attention_mask[c] = 1 <=> c \in (g + 1) .. m
        BY <1>2, <4>1 DEF OnesBetween
      <4> QED BY <1>1, <3>1, <3>2, <4>2
    <3>3. CASE ~(c <= m)
      <4>1. c - m \in 1 .. R
        BY <1>1, <3>3
      <4>2. mask[c - m] = 1 <=> c - m \in (0 + 1) .. n
        BY <1>3, <4>1 DEF OnesBetween
      <4> QED BY <1>1, <3>1, <3>3, <4>2
    <3> QED BY <3>2, <3>3
  <2>2. g \in Nat /\ m + n \in Nat /\ g <= m + n /\ m + n <= m + R
    BY <1>1
  <2> QED BY <1>9, <2>1, <2>2 DEF OnesBetween
<1>11. Shape(p, g, n)
  <2>1. \A j \in 1 .. R : p.responses[j] = p.input_ids[m + j]
    BY <1>4, <1>5
  <2> QED BY <1>1, <1>3, <1>4, <1>5, <1>8, <1>9, <1>10, <2>1 DEF Shape, R, m
<1>12. \A k \in 1 .. K : p.input_ids[g + k] = kept[k]
  <2> SUFFICES ASSUME NEW k \in 1 .. K PROVE p.input_ids[g + k] = kept[k]
    OBVIOUS
  <2>1. g + k \in 1 .. m
    BY <1>1
  <2> QED BY <1>2, <1>5, <2>1
<1>13. \A j \in 1 .. n : p.input_ids[m + j] = answer[j]
  BY <1>1, <1>3, <1>5, SMTT(30)
<1>14. ResponseMask(p) = mask
  <2>1. ResponseMask(p) = SubSeq(p.attention_mask, (m + R) - R + 1, m + R)
    BY <1>3, <1>4, <1>9 DEF ResponseMask
  <2>2. (m + R) - R + 1 = m + 1 /\ m \in Nat /\ m + R \in Nat /\ m <= m + R /\ (m + R) - m = R
    BY <1>1
  <2> DEFINE s == p.attention_mask
             e == m + R
             q == SubSeq(s, m + 1, e)
  <2>3. s \in Seq({0, 1}) /\ m \in Nat /\ e \in Nat /\ m <= e /\ e <= Len(s) /\ e - m = R
    BY <1>9, <2>2
  <2> HIDE DEF s, e
  <2>4. q \in Seq({0, 1}) /\ Len(q) = e - m /\ \A j \in 1 .. (e - m) : q[j] = s[m + j]
    BY <2>3, SubSeqElements
  <2>5. q \in Seq({0, 1}) /\ Len(q) = R /\ \A j \in 1 .. R : q[j] = p.attention_mask[m + j]
    BY <2>3, <2>4 DEF s
  <2> HIDE DEF q
  <2>6. ASSUME NEW j \in 1 .. R PROVE q[j] = mask[j]
    <3>1. m + j \in 1 .. (m + R) /\ ~(m + j <= m) /\ (m + j) - m = j
      BY <1>1
    <3> QED BY <1>9, <2>5, <3>1 DEF Joined
  <2>7. mask \in Seq({0, 1})
    BY <1>3 DEF OnesBetween
  <2>8. q = mask
    BY <1>3, <2>5, <2>6, <2>7, SeqEqual
  <2> QED BY <2>1, <2>2, <2>8 DEF q, s, e
<1>15. Total(ResponseMask(p)) = n
  BY <1>1, <1>3, <1>14, TotalOfOnes
<1> QED BY <1>3, <1>11, <1>12, <1>13, <1>14, <1>15 DEF p, n, g, kept, K, R, m

-----------------------------------------------------------------------------
(* Log probabilities.                                                      *)

\* The size of an interval.
LEMMA IntervalSize ==
  ASSUME NEW a \in Nat, NEW e \in Nat, a <= e
  PROVE  Cardinality((a + 1) .. e) = e - a
<1> DEFINE x == a + 1
<1>1. x \in Int /\ e \in Int
  OBVIOUS
<1> HIDE DEF x
<1>2. Cardinality(x .. e) = IF x > e THEN 0 ELSE e - x + 1
  BY <1>1, FS_Interval
<1> QED BY <1>2 DEF x

\* The columns that a mask lets through are consecutive.
LEMMA UnmaskedColumns ==
  ASSUME NEW mask, NEW a, NEW b, OnesBetween(mask, a, b), NEW n \in 0 .. Len(mask), a <= n,
         NEW e, e = IF n <= b THEN n ELSE b
  PROVE  Unmasked(mask, n) = [k \in 1 .. (e - a) |-> a + k]
<1>1. /\ a \in Nat /\ b \in Nat /\ a <= b /\ b <= Len(mask) /\ Len(mask) \in Nat /\ n \in Nat /\ e \in Nat
      /\ a <= e /\ e <= n /\ e - a \in Nat
  BY DEF OnesBetween
<1> DEFINE seen == {c \in 1 .. n : mask[c] = 1}
<1>2. seen = (a + 1) .. e
  <2>1. \A c \in 1 .. n : mask[c] = 1 <=> c \in (a + 1) .. b
    BY <1>1 DEF OnesBetween
  <2>2. \A c \in 1 .. n : c \in (a + 1) .. b <=> c \in (a + 1) .. e
    BY <1>1
  <2>3. (a + 1) .. e \subseteq 1 .. n
    BY <1>1
  <2> QED BY <2>1, <2>2, <2>3
<1>3. Cardinality(seen) = e - a
  <2>1. Cardinality((a + 1) .. e) = e - a
    BY <1>1, IntervalSize
  <2> HIDE DEF seen
  <2> QED BY <1>1, <1>2, <2>1
<1>4. \A c \in seen : Cardinality({d \in seen : d <= c}) = c - a
  <2> SUFFICES ASSUME NEW c \in (a + 1) .. e PROVE Cardinality({d \in seen : d <= c}) = c - a
    BY <1>2
  <2> HIDE DEF seen
  <2>1. {d \in seen : d <= c} = (a + 1) .. c
    BY <1>1, <1>2
  <2>2. Cardinality((a + 1) .. c) = c - a
    <3>1. c \in Nat /\ a <= c
      BY <1>1
    <3> QED BY <1>1, <3>1, IntervalSize
  <2> QED BY <1>1, <2>1, <2>2
<1>5. \A k \in 1 .. (e - a) : (CHOOSE c \in seen : Cardinality({d \in seen : d <= c}) = k) = a + k
  <2> SUFFICES ASSUME NEW k \in 1 .. (e - a)
               PROVE  (CHOOSE c \in seen : Cardinality({d \in seen : d <= c}) = k) = a + k
    OBVIOUS
  <2> HIDE DEF seen
  <2>1. a + k \in seen /\ (a + k) - a = k
    BY <1>1, <1>2
  <2>2. Cardinality({d \in seen : d <= a + k}) = k
    BY <1>4, <2>1
  <2>3. \A c \in seen : Cardinality({d \in seen : d <= c}) = k => c = a + k
    <3> SUFFICES ASSUME NEW c \in seen, Cardinality({d \in seen : d <= c}) = k PROVE c = a + k
      OBVIOUS
    <3>1. c - a = k /\ c \in (a + 1) .. e
      BY <1>2, <1>4
    <3> QED BY <1>1, <3>1
  <2> QED BY <2>1, <2>2, <2>3
<1> HIDE DEF seen
<1>6. Unmasked(mask, n) = [k \in 1 .. Cardinality(seen) |->
                             CHOOSE c \in seen : Cardinality({d \in seen : d <= c}) = k]
  BY DEF Unmasked, seen
<1> QED BY <1>3, <1>5, <1>6

\* What the log probability of token j of an answer has to be.
Expected(r, g, j) ==
  [of      |-> r.input_ids[MaxPromptLength + j],
   context |-> [k \in 1 .. (MaxPromptLength - g + j - 1) |-> <<r.input_ids[g + k], k - 1>>]]

\* The bounds of a row.
LEMMA ShapeBounds ==
  ASSUME NEW r, NEW g, NEW n, Shape(r, g, n)
  PROVE  /\ MaxPromptLength \in Nat \ {0} /\ ResponseLength \in Nat \ {0}
         /\ g \in 0 .. (MaxPromptLength - 1) /\ n \in 1 .. ResponseLength
BY Numbers DEF Shape

\* Without the removal of padding, the column before a token of the answer has
\* the log probability expected of it.
LEMMA PaddedRight ==
  ASSUME NEW rows, NEW i \in DOMAIN rows, NEW g, NEW n, Shape(rows[i], g, n), NEW j \in 1 .. n
  PROVE  PaddedLogProbs(rows)[i][MaxPromptLength + j - 1] = Expected(rows[i], g, j)
<1> DEFINE m == MaxPromptLength
           R == ResponseLength
           c == m + j - 1
           r == rows[i]
           seen == Unmasked(r.attention_mask, c)
           d == m - g + j - 1
<1>1. m \in Nat \ {0} /\ R \in Nat \ {0} /\ g \in 0 .. (m - 1) /\ n \in 1 .. R
  BY ShapeBounds
<1>2. /\ c \in 1 .. (m + R) /\ c \in m .. (m + R - 1) /\ g <= c /\ c <= m + n /\ c - g = d
      /\ c - m + 1 = j /\ j \in 1 .. R
  BY <1>1
<1>3. /\ OnesBetween(r.attention_mask, g, m + n) /\ Len(r.attention_mask) = m + R
      /\ \A x \in (g + 1) .. (m + n) : r.position_ids[x] = x - g - 1
      /\ \A x \in 1 .. R : r.responses[x] = r.input_ids[m + x]
  BY DEF Shape
<1> HIDE DEF m, R, c, r, d
<1>4. seen = [k \in 1 .. d |-> g + k]
  <2>1. c \in 0 .. Len(r.attention_mask) /\ c = IF c <= m + n THEN c ELSE m + n
    BY <1>1, <1>2, <1>3
  <2> DEFINE b == m + n
             mask == r.attention_mask
  <2>2. OnesBetween(mask, g, b) /\ c \in 0 .. Len(mask) /\ g <= c /\ c = IF c <= b THEN c ELSE b
    BY <1>2, <1>3, <2>1
  <2> HIDE DEF b, mask
  <2>3. Unmasked(mask, c) = [k \in 1 .. (c - g) |-> g + k]
    BY <2>2, UnmaskedColumns
  <2> QED BY <1>2, <2>3 DEF mask
<1> HIDE DEF seen
<1>5. PaddedLogProbs(rows)[i][c] =
        [of      |-> r.responses[c - m + 1],
         context |-> [k \in DOMAIN seen |-> <<r.input_ids[seen[k]], r.position_ids[seen[k]]>>]]
  BY <1>2 DEF PaddedLogProbs, m, R, r, seen
<1>6. [k \in DOMAIN seen |-> <<r.input_ids[seen[k]], r.position_ids[seen[k]]>>]
        = [k \in 1 .. d |-> <<r.input_ids[g + k], k - 1>>]
  <2>1. \A k \in 1 .. d : seen[k] = g + k /\ r.position_ids[g + k] = k - 1
    <3> SUFFICES ASSUME NEW k \in 1 .. d PROVE seen[k] = g + k /\ r.position_ids[g + k] = k - 1
      OBVIOUS
    <3>1. g + k \in (g + 1) .. (m + n) /\ (g + k) - g - 1 = k - 1
      BY <1>1, <1>2
    <3> QED BY <1>3, <1>4, <3>1
  <2>2. DOMAIN seen = 1 .. d
    BY <1>4
  <2> QED BY <2>1, <2>2
<1>7. r.responses[c - m + 1] = r.input_ids[m + j]
  BY <1>2, <1>3
<1> QED BY <1>5, <1>6, <1>7 DEF Expected, m, r, c, d

\* Attention that begins anew at position 0 sees the row of a token up to it,
\* for a row that begins behind a others.
CountedFrom(positions, a, k) == \A x \in 1 .. k : positions[a + x] = x - 1
ContextFrom(ids, a, k) == [x \in 1 .. k |-> <<ids[a + x], x - 1>>]

\* The context found by going back to the last position 0 is the row itself,
\* whatever is packed before it.
LEMMA ContextOfRow ==
  ASSUME NEW ids, NEW positions, NEW a \in Nat, NEW k \in Nat \ {0}, CountedFrom(positions, a, k),
         NEW q, q = a + k
  PROVE  PackedContext(ids, positions, q) = ContextFrom(ids, a, k)
<1> DEFINE Begins(s) == /\ positions[s] = 0 \/ s = 1
                        /\ \A t \in (s + 1) .. q : positions[t] # 0
           start == CHOOSE s \in 1 .. q : Begins(s)
<1>1. q \in Nat /\ a + 1 \in 1 .. q
  OBVIOUS
<1>2. \A t \in (a + 1) .. q : positions[t] = t - a - 1
  <2> SUFFICES ASSUME NEW t \in (a + 1) .. q PROVE positions[t] = t - a - 1
    OBVIOUS
  <2>1. t - a \in 1 .. k /\ a + (t - a) = t
    OBVIOUS
  <2> QED BY <2>1 DEF CountedFrom
<1>3. Begins(a + 1)
  BY <1>1, <1>2
<1>4. \A s \in 1 .. q : Begins(s) => s = a + 1
  <2> SUFFICES ASSUME NEW s \in 1 .. q, Begins(s) PROVE s = a + 1
    OBVIOUS
  <2>1. CASE s < a + 1
    <3>1. a + 1 \in (s + 1) .. q /\ a + 1 \in (a + 1) .. q
      BY <1>1, <2>1
    <3>2. positions[a + 1] = 0
      BY <1>1, <1>2, <3>1
    <3> QED BY <3>1, <3>2
  <2>2. CASE s > a + 1
    <3>1. s \in (a + 1) .. q /\ s # 1
      BY <1>1, <2>2
    <3>2. positions[s] = s - a - 1
      BY <1>2, <3>1
    <3> QED BY <1>1, <2>2, <3>1, <3>2
  <2> QED BY <1>1, <2>1, <2>2
<1>5. start = a + 1
  <2> HIDE DEF Begins
  <2> QED BY <1>1, <1>3, <1>4
<1>6. PackedContext(ids, positions, q)
        = [x \in 1 .. (q - start + 1) |-> <<ids[start + x - 1], positions[start + x - 1]>>]
  BY DEF PackedContext
<1> HIDE DEF start
<1>7. q - start + 1 = k
  BY <1>5
<1>8. \A x \in 1 .. k : start + x - 1 = a + x /\ positions[a + x] = x - 1
  BY <1>5 DEF CountedFrom
<1> QED BY <1>6, <1>7, <1>8 DEF ContextFrom

\* The ranks divide what is padded for them.
LEMMA PadSizeFits ==
  ASSUME NEW L \in Nat, NEW w \in Nat \ {0}
  PROVE  (w - (L % w)) % w \in Nat /\ (L + ((w - (L % w)) % w)) % w = 0
<1> DEFINE r == L % w
           q == L \div w
           u == (w - r) % w
<1>1. q \in Nat /\ r \in 0 .. (w - 1) /\ L = w * q + r
  BY DivMod
<1> HIDE DEF r, q
<1>2. CASE r = 0
  <2>1. u = 0
    <3>1. w % w = 0
      <4>1. (1 * w) % w = 0
        BY ProductMod
      <4> QED BY <4>1
    <3> QED BY <1>2, <3>1
  <2> HIDE DEF u
  <2>2. L + u = q * w
    BY <1>1, <1>2, <2>1
  <2>3. (q * w) % w = 0
    BY <1>1, ProductMod
  <2> QED BY <2>1, <2>2, <2>3 DEF u, r
<1>3. CASE r # 0
  <2>1. w - r \in 1 .. (w - 1)
    BY <1>1, <1>3
  <2>2. u = w - r
    BY <2>1
  <2> HIDE DEF u
  <2>3. q + 1 \in Nat /\ L + u = (q + 1) * w /\ u \in Nat
    <3>1. L + u = w * q + w
      BY <1>1, <2>2
    <3>2. (q + 1) * w = w * q + w
      BY <1>1
    <3> QED BY <1>1, <2>1, <2>2, <3>1, <3>2
  <2>4. ((q + 1) * w) % w = 0
    BY <2>3, ProductMod
  <2> QED BY <2>3, <2>4 DEF u, r
<1> QED BY <1>2, <1>3

\* Padded so far, a packed sequence can be sliced for the ranks of a group.
LEMMA PaddedForRanks ==
  ASSUME setting \in Settings, NEW S, NEW s \in Seq(S), NEW t \in Seq(S), Len(s) >= 1,
         Len(t) = UlyssesPadSize(s)
  PROVE  LET q == s \o t
             u == UlyssesPadSize(s)
         IN  /\ u \in Nat /\ q \in Seq(S) /\ Len(q) = Len(s) + u /\ q # <<>>
             /\ Len(q) % setting.sp = 0
             /\ \A p \in 1 .. Len(s) : q[p] = s[p]
<1> DEFINE q == s \o t
           u == UlyssesPadSize(s)
           L == Len(s)
           w == setting.sp
<1>1. w \in Nat \ {0} /\ L \in Nat /\ L >= 1
  BY SettingFields
<1> HIDE DEF w, L
<1>2. u = (w - (L % w)) % w
  BY DEF UlyssesPadSize, w, L
<1> HIDE DEF u
<1>3. u \in Nat /\ (L + u) % w = 0
  BY <1>1, <1>2, PadSizeFits
<1>4. q \in Seq(S) /\ Len(q) = L + u /\ \A p \in 1 .. L : q[p] = s[p]
  BY <1>1, <1>3, ConcatElements DEF L, u
<1>5. q # <<>>
  BY <1>1, <1>3, <1>4
<1> QED BY <1>3, <1>4, <1>5 DEF u, L, w

\* The log probabilities of a packed sequence, of all the ranks of a group.
LogProbsAt(ids, positions) ==
  LET Slices(s) == Chunk(s, setting.sp)
      all_ids   == Concat(Slices(PaddedIds(ids)))
      all_pos   == Concat(Slices(PaddedPositions(positions)))
      Slice(rank) ==
        LET labels == Slices(Labels(ids))[rank] IN
        [k \in DOMAIN labels |->
           [of |-> labels[k],
            context |-> PackedContext(all_ids, all_pos, (rank - 1) * Len(labels) + k)]]
  IN  Unpad(Concat([rank \in 1..setting.sp |-> Slice(rank)]), UlyssesPadSize(ids))

\* Slices computed apart and gathered give every place of the packed sequence
\* its own label, in its own context: padding and slicing leave no trace.
LEMMA SlicesTogether ==
  ASSUME setting \in Settings, NEW ids \in Seq(Token), Len(ids) >= 1,
         NEW positions \in Seq(Nat), Len(positions) = Len(ids), NEW p \in 1 .. (Len(ids) - 1)
  PROVE  LogProbsAt(ids, positions)[p] =
           [of |-> ids[p + 1], context |-> PackedContext(PaddedIds(ids), PaddedPositions(positions), p)]
<1> DEFINE w == setting.sp
           L == Len(ids)
           u == UlyssesPadSize(ids)
           z == (L + u) \div w
           rolled == Rolled(ids)
           labels == Labels(ids)
           all_ids == PaddedIds(ids)
           all_pos == PaddedPositions(positions)
           At(x) == [of |-> labels[x], context |-> PackedContext(all_ids, all_pos, x)]
<1>1. w \in Nat \ {0} /\ L \in Nat /\ L >= 1
  BY SettingFields
<1>2. rolled \in Seq(Token) /\ Len(rolled) = L /\ \A x \in 1 .. (L - 1) : rolled[x] = ids[x + 1]
  BY <1>1 DEF Rolled
<1>3. u = UlyssesPadSize(rolled) /\ u = UlyssesPadSize(positions)
  BY <1>2 DEF UlyssesPadSize
<1>4. u \in Nat
  <2>1. (w - (L % w)) % w \in Nat
    <3> HIDE DEF w, L
    <3> QED BY <1>1, PadSizeFits
  <2> QED BY <2>1 DEF UlyssesPadSize
<1>5. Repeated(Zero, u) \in Seq(Token) /\ Len(Repeated(Zero, u)) = u
  <2> HIDE DEF u
  <2> QED BY <1>4, PadIsToken, RepeatedElements
<1>6. /\ all_ids \in Seq(Token) /\ Len(all_ids) = L + u /\ all_ids # <<>> /\ Len(all_ids) % w = 0
  BY <1>5, PaddedForRanks DEF PaddedIds
<1>7. /\ labels \in Seq(Token) /\ Len(labels) = L + u /\ labels # <<>> /\ Len(labels) % w = 0
      /\ \A x \in 1 .. L : labels[x] = rolled[x]
  <2> HIDE DEF rolled, u
  <2>1. labels = rolled \o Repeated(Zero, u)
    BY <1>3 DEF Labels, PaddedIds, rolled
  <2> HIDE DEF labels, L
  <2> DEFINE t == Repeated(Zero, u)
  <2> HIDE DEF t
  <2>2. rolled \in Seq(Token) /\ Len(rolled) >= 1 /\ t \in Seq(Token) /\ Len(t) = UlyssesPadSize(rolled)
        /\ labels = rolled \o t
    BY <1>1, <1>2, <1>3, <1>5, <2>1 DEF t
  <2>3. LET q == rolled \o t
        IN  /\ q \in Seq(Token) /\ Len(q) = Len(rolled) + UlyssesPadSize(rolled) /\ q # <<>>
            /\ Len(q) % setting.sp = 0
            /\ \A x \in 1 .. Len(rolled) : q[x] = rolled[x]
    BY <2>2, PaddedForRanks
  <2> QED BY <1>2, <1>3, <2>2, <2>3
<1>8. /\ all_pos \in Seq(Nat) /\ Len(all_pos) = L + u /\ all_pos # <<>> /\ Len(all_pos) % w = 0
  <2> DEFINE t == [k \in 1 .. u |-> k - 1]
  <2> HIDE DEF u
  <2>1. t \in Seq(Nat) /\ Len(t) = u
    BY <1>4
  <2>2. all_pos = positions \o t
    BY <1>3 DEF PaddedPositions
  <2> HIDE DEF t, all_pos
  <2>3. Len(positions) >= 1 /\ Len(t) = UlyssesPadSize(positions)
    BY <1>1, <1>3, <2>1
  <2> QED BY <1>3, <2>1, <2>2, <2>3, PaddedForRanks
<1> HIDE DEF labels, all_ids, all_pos, u, rolled
<1>9. z \in Nat \ {0} /\ w * z = L + u
  <2>1. z \in Nat \ {0}
    <3> HIDE DEF w
    <3>1. Len(all_ids) \div w \in Nat \ {0}
      BY <1>1, <1>6, ChunkPieces
    <3> QED BY <1>6, <3>1
  <2> DEFINE y == L + u
  <2>2. y \in Nat /\ y % w = 0
    BY <1>1, <1>4, <1>6
  <2> HIDE DEF y, w
  <2>3. y = w * (y \div w) + (y % w) /\ y \div w \in Nat
    BY <1>1, <2>2, DivMod
  <2>4. w * (y \div w) \in Nat
    BY <1>1, <2>3
  <2> QED BY <2>1, <2>2, <2>3, <2>4 DEF y
<1>10. Concat(Chunk(all_ids, w)) = all_ids /\ Concat(Chunk(all_pos, w)) = all_pos
  BY <1>1, <1>6, <1>8, ChunkPieces
<1>11. ASSUME NEW r \in 1 .. w
       PROVE  LET part == Chunk(labels, w)[r]
              IN  /\ part \in Seq(Token) /\ Len(part) = z
                  /\ \A k \in 1 .. z : Place(r, k, z) \in 1 .. (L + u) /\ part[k] = labels[Place(r, k, z)]
  <2> HIDE DEF L, w
  <2>1. Chunk(labels, w) \in [1 .. w -> Seq(Token)] /\ IsChunks(Chunk(labels, w), labels, w, Len(labels) \div w)
    BY <1>1, <1>7, ChunkPieces
  <2>2. Len(labels) = L + u /\ Len(labels) \div w = z
    BY <1>7
  <2> HIDE DEF z
  <2> QED BY <2>1, <2>2 DEF IsChunks
<1> DEFINE Part(r) == Chunk(labels, w)[r]
           slice(r) == [k \in DOMAIN Part(r) |->
                          [of |-> Part(r)[k],
                           context |-> PackedContext(all_ids, all_pos, (r - 1) * Len(Part(r)) + k)]]
           slices == [r \in 1 .. w |-> slice(r)]
           D == {At(x) : x \in 1 .. (L + u)}
<1>12. ASSUME NEW r \in 1 .. w
       PROVE  /\ slice(r) \in Seq(D) /\ Len(slice(r)) = z
              /\ \A k \in 1 .. z : slice(r)[k] = At(Place(r, k, z))
  <2>1. /\ Part(r) \in Seq(Token) /\ Len(Part(r)) = z
        /\ \A k \in 1 .. z : Place(r, k, z) \in 1 .. (L + u) /\ Part(r)[k] = labels[Place(r, k, z)]
    BY <1>11
  <2> HIDE DEF z, Part
  <2>2. DOMAIN Part(r) = 1 .. z /\ z \in Nat
    BY <1>9, <2>1
  <2>3. slice(r) = [k \in 1 .. z |-> [of |-> Part(r)[k],
                           context |-> PackedContext(all_ids, all_pos, (r - 1) * z + k)]]
    BY <2>1, <2>2
  <2>4. \A k \in 1 .. z : (r - 1) * z + k = Place(r, k, z)
    BY DEF Place
  <2>5. \A k \in 1 .. z : slice(r)[k] = At(Place(r, k, z)) /\ slice(r)[k] \in D
    BY <2>1, <2>3, <2>4
  <2> HIDE DEF D, At
  <2> DEFINE sl == slice(r)
  <2>6. sl = [k \in 1 .. z |-> sl[k]] /\ \A k \in 1 .. z : sl[k] \in D
    BY <2>3, <2>5
  <2> HIDE DEF sl
  <2>7. sl \in Seq(D) /\ Len(sl) = z
    BY <2>2, <2>6, SequenceOf
  <2> QED BY <2>5, <2>7 DEF sl
<1> HIDE DEF At, D, slice
<1>13. FlattenSeq(slices) \in Seq(D) /\ IsLaid(FlattenSeq(slices), slices, w, z)
  <2>1. w \in Nat /\ z \in Nat
    BY <1>1, <1>9
  <2>2. slices \in [1 .. w -> Seq(D)] /\ \A r \in 1 .. w : Len(slices[r]) = z
    BY <1>12
  <2> HIDE DEF w, z, slices
  <2> QED BY <2>1, <2>2, FlattenPlaces
<1> DEFINE all == FlattenSeq(slices)
<1>14. all \in Seq(D) /\ Len(all) = L + u /\ \A x \in 1 .. (L + u) : all[x] = At(x)
  <2>1. ASSUME NEW x \in 1 .. (L + u) PROVE all[x] = At(x)
    <3>1. PICK r \in 1 .. w, k \in 1 .. z : x = Place(r, k, z)
      <4>1. w \in Nat /\ z \in Nat \ {0} /\ x \in 1 .. (w * z)
        BY <1>1, <1>9
      <4> HIDE DEF w, z
      <4> QED BY <4>1, PlaceExists
    <3>2. all[x] = slices[r][k]
      BY <1>13, <3>1 DEF IsLaid
    <3> QED BY <1>12, <3>1, <3>2
  <2> QED BY <1>9, <1>13, <2>1 DEF IsLaid
<1>15. LogProbsAt(ids, positions) = Unpad(all, u)
  BY <1>10 DEF LogProbsAt, slice, all_ids, all_pos, labels, u, Concat
<1> HIDE DEF all
<1>16. Unpad(all, u)[p] = all[p]
  <2>1. Unpad(all, u) = SubSeq(all, 1, (L + u) - u)
    BY <1>14 DEF Unpad
  <2>2. (L + u) - u = L /\ L \in 0 .. (L + u) /\ p \in 1 .. L
    BY <1>1, <1>4
  <2> HIDE DEF L
  <2>3. \A x \in 1 .. L : SubSeq(all, 1, L)[x] = all[x]
    BY <1>14, <2>2, StartElements
  <2> QED BY <2>1, <2>2, <2>3
<1>17. At(p) = [of |-> ids[p + 1], context |-> PackedContext(all_ids, all_pos, p)]
  <2>1. p \in 1 .. L
    BY <1>1
  <2>2. labels[p] = ids[p + 1]
    BY <1>2, <1>7, <2>1
  <2> QED BY <2>2 DEF At
<1>18. p \in 1 .. (L + u)
  BY <1>1, <1>4
<1> QED BY <1>14, <1>15, <1>16, <1>17, <1>18 DEF all_ids, all_pos

\* Rows of a micro-batch: g[i] columns of padding, n[i] tokens in the answer.
Shapes(rows, N, g, n) ==
  /\ DOMAIN rows = 1 .. N
  /\ \A i \in 1 .. N : Shape(rows[i], g[i], n[i])

\* The columns of the rows that are not masked.
Columns(N, g, n) ==
  [i \in 1 .. N |-> [k \in 1 .. (MaxPromptLength + n[i] - g[i]) |-> <<i, g[i] + k>>]]

\* The indices of unpadding are the unmasked columns of the rows, one after
\* the other.
LEMMA IndicesOfColumns ==
  ASSUME NEW N \in Nat, NEW rows, NEW g, NEW n, Shapes(rows, N, g, n)
  PROVE  /\ Indices(rows) = FlattenSeq(Columns(N, g, n))
         /\ Columns(N, g, n) \in [1 .. N -> Seq(Nat \X Nat)]
         /\ \A i \in 1 .. N : /\ Len(Columns(N, g, n)[i]) = MaxPromptLength + n[i] - g[i]
                              /\ MaxPromptLength + n[i] - g[i] \in Nat
                              /\ \A k \in 1 .. (MaxPromptLength + n[i] - g[i]) :
                                   Columns(N, g, n)[i][k] = <<i, g[i] + k>>
<1> DEFINE cols(i) == [k \in 1 .. (MaxPromptLength + n[i] - g[i]) |-> <<i, g[i] + k>>]
           found(i) == LET seen == Unmasked(rows[i].attention_mask, Len(rows[i].input_ids))
                       IN  [k \in DOMAIN seen |-> <<i, seen[k]>>]
<1>1. ASSUME NEW i \in 1 .. N
      PROVE  /\ found(i) = cols(i) /\ cols(i) \in Seq(Nat \X Nat)
             /\ Len(cols(i)) = MaxPromptLength + n[i] - g[i] /\ MaxPromptLength + n[i] - g[i] \in Nat
  <2> DEFINE m == MaxPromptLength
             R == ResponseLength
             a == g[i]
             b == m + n[i]
             r == rows[i]
             d == b - a
             seen == Unmasked(r.attention_mask, Len(r.input_ids))
  <2>1. /\ m \in Nat \ {0} /\ R \in Nat \ {0} /\ a \in 0 .. (m - 1) /\ n[i] \in 1 .. R
        /\ OnesBetween(r.attention_mask, a, b)
        /\ Len(r.attention_mask) = m + R /\ Len(r.input_ids) = m + R
    BY ShapeBounds, ZenonT(40) DEF Shapes, Shape
  <2>2. b \in Nat /\ d \in Nat /\ a <= m + R /\ b <= m + R /\ m + R \in 0 .. (m + R)
    BY <2>1
  <2>3. d = m + n[i] - g[i]
    BY <2>1
  <2> DEFINE mask == r.attention_mask
             w == m + R
  <2>4. seen = Unmasked(mask, w) /\ OnesBetween(mask, a, b) /\ w \in 0 .. Len(mask) /\ a <= w
        /\ b = IF w <= b THEN w ELSE b
    BY <2>1, <2>2
  <2> HIDE DEF mask, w, seen, a, b
  <2>5. Unmasked(mask, w) = [k \in 1 .. (b - a) |-> a + k]
    BY <2>4, UnmaskedColumns
  <2>6. seen = [k \in 1 .. d |-> a + k]
    BY <2>4, <2>5
  <2> HIDE DEF d
  <2>7. found(i) = [k \in DOMAIN seen |-> <<i, seen[k]>>]
    BY DEF seen
  <2>8. [k \in DOMAIN seen |-> <<i, seen[k]>>] = [k \in 1 .. d |-> <<i, a + k>>]
    BY <2>6
  <2> DEFINE f == [k \in 1 .. d |-> <<i, a + k>>]
  <2>9. \A k \in 1 .. d : f[k] \in Nat \X Nat
    BY <2>1
  <2>10. f = [k \in 1 .. d |-> f[k]]
    OBVIOUS
  <2> HIDE DEF f
  <2>11. f \in Seq(Nat \X Nat) /\ Len(f) = d
    BY <2>2, <2>9, <2>10, SequenceOf, SMTT(30)
  <2>12. cols(i) = f
    BY <2>3 DEF f, a
  <2> QED BY <2>2, <2>7, <2>8, <2>11, <2>3, <2>12 DEF f
<1>2. Columns(N, g, n) = [i \in 1 .. N |-> cols(i)]
  BY DEF Columns
<1>3. Indices(rows) = FlattenSeq([i \in 1 .. N |-> found(i)])
  BY DEF Indices, Shapes, Concat
<1>4. \A i \in 1 .. N : \A k \in 1 .. (MaxPromptLength + n[i] - g[i]) : cols(i)[k] = <<i, g[i] + k>>
  OBVIOUS
<1> HIDE DEF cols, found
<1>5. [i \in 1 .. N |-> found(i)] = [i \in 1 .. N |-> cols(i)]
  BY <1>1
<1> QED BY <1>1, <1>2, <1>3, <1>4, <1>5

\* Packing, slicing, gathering and unpacking bring to every token its own.
LEMMA PackedRight ==
  ASSUME setting \in Settings, NEW N \in Nat, NEW rows, NEW g, NEW n, Shapes(rows, N, g, n),
         NEW i \in 1 .. N, NEW j \in 1 .. n[i]
  PROVE  PackedLogProbs(rows)[i][MaxPromptLength + j - 1] = Expected(rows[i], g[i], j)
<1> DEFINE m == MaxPromptLength
           cols == Columns(N, g, n)
           X(h) == m + n[h] - g[h]
           indices == Indices(rows)
           ids == [p \in DOMAIN indices |-> rows[indices[p][1]].input_ids[indices[p][2]]]
           positions == [p \in DOMAIN indices |-> rows[indices[p][1]].position_ids[indices[p][2]]]
           k == m - g[i] + j - 1
           c == m + j - 1
<1>1. \A h \in 1 .. N : /\ m \in Nat \ {0} /\ ResponseLength \in Nat \ {0}
                        /\ g[h] \in 0 .. (m - 1) /\ n[h] \in 1 .. ResponseLength /\ X(h) \in Nat
  BY ShapeBounds DEF Shapes
<1>2. /\ indices = FlattenSeq(cols) /\ cols \in [1 .. N -> Seq(Nat \X Nat)]
      /\ \A h \in 1 .. N : /\ Len(cols[h]) = X(h)
                           /\ \A x \in 1 .. X(h) : cols[h][x] = <<h, g[h] + x>>
  <2>1. /\ Indices(rows) = FlattenSeq(Columns(N, g, n))
        /\ Columns(N, g, n) \in [1 .. N -> Seq(Nat \X Nat)]
        /\ \A h \in 1 .. N : /\ Len(Columns(N, g, n)[h]) = MaxPromptLength + n[h] - g[h]
                              /\ MaxPromptLength + n[h] - g[h] \in Nat
                              /\ \A x \in 1 .. (MaxPromptLength + n[h] - g[h]) :
                                   Columns(N, g, n)[h][x] = <<h, g[h] + x>>
    BY IndicesOfColumns
  <2> QED BY <2>1
<1> HIDE DEF cols
<1>3. indices \in Seq(Nat \X Nat) /\ \E O : LiesAt(O, indices, cols, N)
  BY <1>2, FlattenOffsets
<1>4. PICK O : LiesAt(O, indices, cols, N)
  BY <1>3
<1> DEFINE M == O[N]
<1>5. Len(indices) = M /\ DOMAIN indices = 1 .. M /\ M \in Nat
  <2>1. Len(indices) = M
    BY <1>4 DEF LiesAt
  <2> QED BY <1>3, <2>1
<1>6. \A h \in 1 .. N : \A x \in 1 .. X(h) : O[h - 1] + x \in 1 .. M /\ indices[O[h - 1] + x] = <<h, g[h] + x>>
  BY <1>2, <1>4 DEF LiesAt
<1>7. \A p \in 1 .. M : \E h \in 1 .. N : \E x \in 1 .. X(h) : p = O[h - 1] + x
  BY <1>2, <1>4 DEF LiesAt
<1>8. \A h \in 1 .. N : O[h - 1] \in Nat
  <2>1. O \in [0 .. N -> Nat]
    BY <1>4 DEF LiesAt, Offsets
  <2> QED BY <2>1
<1> HIDE DEF indices, M
<1>9. ASSUME NEW h \in 1 .. N, NEW x \in 1 .. X(h)
      PROVE  /\ rows[h].input_ids[g[h] + x] \in Token
             /\ rows[h].position_ids[g[h] + x] = x - 1
  <2>1. /\ Shape(rows[h], g[h], n[h]) /\ g[h] \in 0 .. (m - 1) /\ n[h] \in 1 .. ResponseLength
        /\ m \in Nat \ {0} /\ ResponseLength \in Nat \ {0}
    BY <1>1 DEF Shapes
  <2> DEFINE y == g[h] + x
  <2>2. y \in (g[h] + 1) .. (m + n[h]) /\ y \in 1 .. (m + ResponseLength) /\ y - g[h] - 1 = x - 1
    BY <2>1
  <2> HIDE DEF y
  <2>3. rows[h].input_ids \in Seq(Token) /\ Len(rows[h].input_ids) = m + ResponseLength
        /\ \A q \in (g[h] + 1) .. (m + n[h]) : rows[h].position_ids[q] = q - g[h] - 1
    BY <2>1 DEF Shape
  <2>4. rows[h].input_ids[y] \in Token
    BY <2>2, <2>3
  <2> QED BY <2>2, <2>3, <2>4 DEF y
<1>10. ASSUME NEW h \in 1 .. N, NEW x \in 1 .. X(h)
       PROVE  /\ ids[O[h - 1] + x] = rows[h].input_ids[g[h] + x]
              /\ positions[O[h - 1] + x] = x - 1
  <2> DEFINE p == O[h - 1] + x
  <2>1. p \in DOMAIN indices /\ indices[p] = <<h, g[h] + x>>
    BY <1>5, <1>6
  <2> HIDE DEF p
  <2>2. ids[p] = rows[h].input_ids[g[h] + x] /\ positions[p] = rows[h].position_ids[g[h] + x]
    BY <2>1
  <2> QED BY <1>9, <2>2 DEF p
<1>11. ids \in Seq(Token) /\ Len(ids) = M /\ positions \in Seq(Nat) /\ Len(positions) = M
  <2>1. ids = [p \in 1 .. M |-> ids[p]] /\ positions = [p \in 1 .. M |-> positions[p]]
    BY <1>5
  <2> HIDE DEF ids, positions
  <2>2. ASSUME NEW p \in 1 .. M PROVE ids[p] \in Token /\ positions[p] \in Nat
    <3>1. PICK h \in 1 .. N : \E x \in 1 .. X(h) : p = O[h - 1] + x
      BY <1>7
    <3>2. PICK x \in 1 .. X(h) : p = O[h - 1] + x
      BY <3>1
    <3>3. x - 1 \in Nat
      BY <1>1
    <3> QED BY <1>9, <1>10, <3>2, <3>3
  <2> QED BY <1>5, <2>1, <2>2, SequenceOf
<1>12. k \in Nat \ {0} /\ k \in 1 .. X(i) /\ k + 1 \in 1 .. X(i) /\ g[i] + k = c /\ g[i] + (k + 1) = m + j
       /\ \A x \in 1 .. k : x \in 1 .. X(i)
  BY <1>1
<1> HIDE DEF k, c, X
<1> DEFINE a == O[i - 1]
           p == a + k
<1>13. a \in Nat /\ p \in 1 .. M /\ p + 1 \in 1 .. M /\ indices[p] = <<i, c>> /\ p + 1 = a + (k + 1)
  <2>1. a + k \in 1 .. M /\ indices[a + k] = <<i, g[i] + k>> /\ a + (k + 1) \in 1 .. M
    BY <1>6, <1>12
  <2>2. a \in Nat
    BY <1>8
  <2> HIDE DEF a
  <2> QED BY <1>5, <1>12, <2>1, <2>2
<1>14. ids[p + 1] = rows[i].input_ids[m + j] /\ \A x \in 1 .. k : ids[a + x] = rows[i].input_ids[g[i] + x]
                                            /\ positions[a + x] = x - 1
  <2>1. ids[a + (k + 1)] = rows[i].input_ids[g[i] + (k + 1)]
    BY <1>10, <1>12
  <2>2. \A x \in 1 .. k : ids[a + x] = rows[i].input_ids[g[i] + x] /\ positions[a + x] = x - 1
    BY <1>10, <1>12
  <2> HIDE DEF ids, a
  <2> QED BY <1>12, <1>13, <2>1, <2>2
<1> HIDE DEF ids, positions, a
<1>15. \A q \in DOMAIN indices : indices[q] = <<i, c>> => q = p
  <2> SUFFICES ASSUME NEW q \in 1 .. M, indices[q] = <<i, c>> PROVE q = p
    BY <1>5
  <2>1. PICK h \in 1 .. N : \E x \in 1 .. X(h) : q = O[h - 1] + x
    BY <1>7
  <2>2. PICK x \in 1 .. X(h) : q = O[h - 1] + x
    BY <2>1
  <2>3. <<i, c>> = <<h, g[h] + x>>
    BY <1>6, <2>2
  <2>4. h = i /\ g[i] + x = c
    BY <2>3
  <2>5. x = k
    BY <1>1, <1>12, <2>4
  <2> QED BY <2>2, <2>4, <2>5 DEF p, a
<1>16. (CHOOSE q \in DOMAIN indices : indices[q] = <<i, c>>) = p
  BY <1>5, <1>13, <1>15
<1>17. Contains(indices, <<i, c>>)
  BY <1>5, <1>13 DEF Contains
<1>18. c \in 1 .. (m + ResponseLength)
  BY <1>1 DEF c
<1>19. PackedLogProbs(rows)[i][c] = LogProbsAt(ids, positions)[p]
  <2>1. PackedLogProbs(rows)[i][c] =
          IF Contains(indices, <<i, c>>)
          THEN LogProbsAt(ids, positions)[CHOOSE q \in DOMAIN indices : indices[q] = <<i, c>>]
          ELSE NoLogProb
    BY <1>18 DEF PackedLogProbs, LogProbsAt, Shapes, indices, ids, positions
  <2> QED BY <1>16, <1>17, <2>1
<1> DEFINE all_ids == PaddedIds(ids)
           all_pos == PaddedPositions(positions)
<1>20. LogProbsAt(ids, positions)[p] = [of |-> ids[p + 1], context |-> PackedContext(all_ids, all_pos, p)]
  <2>1. p \in 1 .. (Len(ids) - 1) /\ Len(ids) >= 1 /\ Len(positions) = Len(ids)
    BY <1>5, <1>11, <1>13
  <2> HIDE DEF p
  <2> QED BY <1>11, <2>1, SlicesTogether
<1>21. \A x \in 1 .. k : all_ids[a + x] = ids[a + x] /\ all_pos[a + x] = positions[a + x]
  <2> DEFINE u == UlyssesPadSize(ids)
  <2>1. u \in Nat /\ UlyssesPadSize(positions) = u
    <3>1. Len(ids) \in Nat /\ setting.sp \in Nat \ {0}
      BY <1>5, <1>11, SettingFields
    <3>2. UlyssesPadSize(positions) = u
      BY <1>11 DEF UlyssesPadSize
    <3> DEFINE w == setting.sp
               L == Len(ids)
    <3> HIDE DEF w, L
    <3>3. (w - (L % w)) % w \in Nat
      BY <3>1, PadSizeFits DEF w, L
    <3> QED BY <3>2, <3>3 DEF UlyssesPadSize, w, L
  <2> DEFINE s == Repeated(Zero, u)
             t == [x \in 1 .. u |-> x - 1]
  <2> HIDE DEF u
  <2>2. s \in Seq(Token) /\ t \in Seq(Nat) /\ Len(s) = u /\ Len(t) = u
    <3>1. s \in Seq(Token) /\ Len(s) = u
      BY <2>1, PadIsToken, RepeatedElements
    <3>2. t \in Seq(Nat) /\ Len(t) = u
      BY <2>1
    <3> QED BY <3>1, <3>2
  <2>3. all_ids = ids \o s /\ all_pos = positions \o t
    BY <2>1 DEF PaddedIds, PaddedPositions, u
  <2> HIDE DEF s, t, all_ids, all_pos
  <2>4. \A q \in 1 .. M : all_ids[q] = ids[q] /\ all_pos[q] = positions[q]
    <3>1. Joined(ids \o s, ids, s, M, u) /\ Joined(positions \o t, positions, t, M, u)
      BY <1>11, <2>2, ConcatJoins
    <3>2. \A q \in 1 .. M : q \in 1 .. (M + u) /\ q <= M
      BY <1>5, <2>1
    <3> QED BY <2>3, <3>1, <3>2 DEF Joined
  <2>5. \A x \in 1 .. k : a + x \in 1 .. M
    BY <1>5, <1>12, <1>13
  <2> QED BY <2>4, <2>5
<1> HIDE DEF all_ids, all_pos
<1>22. PackedContext(all_ids, all_pos, p) = ContextFrom(all_ids, a, k)
  <2>1. CountedFrom(all_pos, a, k)
    BY <1>14, <1>21 DEF CountedFrom
  <2>2. a \in Nat /\ k \in Nat \ {0} /\ p = a + k
    BY <1>12, <1>13
  <2> HIDE DEF p
  <2> QED BY <2>1, <2>2, ContextOfRow
<1>23. ContextFrom(all_ids, a, k) = [x \in 1 .. k |-> <<rows[i].input_ids[g[i] + x], x - 1>>]
  BY <1>14, <1>21 DEF ContextFrom
<1>24. PackedLogProbs(rows)[i][c] = [of |-> rows[i].input_ids[m + j],
                                     context |-> [x \in 1 .. k |-> <<rows[i].input_ids[g[i] + x], x - 1>>]]
  BY <1>14, <1>19, <1>20, <1>22, <1>23
<1> QED BY <1>24 DEF Expected, c, k, m

\* A row with an answer, and log probabilities that are those of its tokens.
Good(r) == \E g, n : Shape(r, g, n)
RightFor(l, r) == \A g, n : Shape(r, g, n) => \A j \in 1 .. n : l[j] = Expected(r, g, j)

\* The forward pass over a micro-batch is right for each of its rows.
LEMMA MicroBatchRight ==
  ASSUME setting \in Settings, NEW N \in Nat, NEW rows, DOMAIN rows = 1 .. N, \A i \in 1 .. N : Good(rows[i])
  PROVE  /\ ForwardMicroBatch(rows) = [i \in 1 .. N |-> ForwardMicroBatch(rows)[i]]
         /\ \A i \in 1 .. N : RightFor(ForwardMicroBatch(rows)[i], rows[i])
<1> DEFINE m == MaxPromptLength
           R == ResponseLength
           full == IF setting.use_remove_padding THEN PackedLogProbs(rows) ELSE PaddedLogProbs(rows)
           e == (m + R) - 1
<1>1. m \in Nat \ {0} /\ R \in Nat \ {0}
  BY Numbers
<1>2. ForwardMicroBatch(rows) = [i \in 1 .. N |-> SubSeq(full[i], m, e)]
  <2>1. e = m + R - 1
    BY <1>1
  <2> HIDE DEF e
  <2> QED BY <2>1 DEF ForwardMicroBatch
<1>3. ASSUME NEW i \in 1 .. N, NEW g, NEW n, Shape(rows[i], g, n), NEW j \in 1 .. n
      PROVE  full[i][m + j - 1] = Expected(rows[i], g, j)
  <2>1. CASE ~setting.use_remove_padding
    BY <1>3, <2>1, PaddedRight
  <2>2. CASE setting.use_remove_padding
    <3> DEFINE gs == [h \in 1 .. N |-> IF h = i THEN g ELSE CHOOSE x : \E y : Shape(rows[h], x, y)]
               ns == [h \in 1 .. N |-> IF h = i THEN n ELSE CHOOSE y : Shape(rows[h], gs[h], y)]
    <3>1. \A h \in 1 .. N : Shape(rows[h], gs[h], ns[h])
      <4> SUFFICES ASSUME NEW h \in 1 .. N PROVE Shape(rows[h], gs[h], ns[h])
        OBVIOUS
      <4>1. CASE h = i
        BY <1>3, <4>1
      <4>2. CASE h # i
        <5>1. \E y : Shape(rows[h], gs[h], y)
          BY <4>2 DEF Good
        <5> HIDE DEF gs
        <5> QED BY <4>2, <5>1
      <4> QED BY <4>1, <4>2
    <3>2. Shapes(rows, N, gs, ns) /\ gs[i] = g /\ ns[i] = n /\ j \in 1 .. ns[i]
      BY <3>1 DEF Shapes
    <3> HIDE DEF gs, ns
    <3>3. PackedLogProbs(rows)[i][m + j - 1] = Expected(rows[i], gs[i], j)
      BY <3>2, PackedRight
    <3> QED BY <2>2, <3>2, <3>3
  <2> QED BY <2>1, <2>2
<1>4. ASSUME NEW i \in 1 .. N, NEW g, NEW n, Shape(rows[i], g, n), NEW j \in 1 .. n
      PROVE  SubSeq(full[i], m, e)[j] = Expected(rows[i], g, j)
  <2> DEFINE f == full[i]
             S == {f[c] : c \in m .. e}
             q == SubSeq(f, m, e)
  <2>1. m \in Int /\ e \in Int /\ e - m + 1 = R /\ j \in 1 .. R /\ m + j - 1 = (m + j) - 1
    BY <1>1, <1>4, ShapeBounds
  <2>2. \A c \in m .. e : f[c] \in S
    OBVIOUS
  <2> HIDE DEF f, S, e
  <2>3. \A c \in 1 .. (e - m + 1) : SubSeq(f, m, e)[c] = f[m + c - 1]
    BY <2>1, <2>2, SubSeqProperties
  <2>4. SubSeq(f, m, e)[j] = f[m + j - 1]
    BY <2>1, <2>3
  <2>5. f[m + j - 1] = Expected(rows[i], g, j)
    BY <1>3, <1>4 DEF f
  <2> QED BY <2>4, <2>5 DEF f
<1> HIDE DEF full, e
<1> QED BY <1>2, <1>4 DEF RightFor

\* So are the log probabilities a rank computes, micro-batch by micro-batch.
LEMMA LogProbsRight ==
  ASSUME setting \in Settings, NEW S, NEW rows \in Seq(S), \A i \in 1 .. Len(rows) : Good(rows[i])
  PROVE  /\ \E T : LogProbsOf(rows) \in Seq(T)
         /\ Len(LogProbsOf(rows)) = Len(rows)
         /\ \A i \in 1 .. Len(rows) : RightFor(LogProbsOf(rows)[i], rows[i])
<1> DEFINE z == MicroBatchSize
           C == Pieces(Len(rows), z)
           parts == SplitBySize(rows, z)
           done == [b \in 1 .. C |-> ForwardMicroBatch(parts[b])]
           T == UNION {{ForwardMicroBatch(parts[b])[i] : i \in 1 .. Len(parts[b])} : b \in 1 .. C}
<1>1. z \in Nat \ {0} /\ Len(rows) \in Nat
  BY Numbers
<1>2. /\ parts \in [1 .. C -> Seq(S)]
      /\ \A c \in 1 .. C : IsPiece(parts[c], rows, z, Len(rows), c)
      /\ FlattenSeq(parts) = rows
  BY <1>1, SplitPieces DEF Concat
<1>3. C \in Nat
  BY <1>1, PiecesBounds
<1> HIDE DEF parts, C
<1>4. ASSUME NEW b \in 1 .. C
      PROVE  /\ done[b] \in Seq(T) /\ Len(done[b]) = Len(parts[b])
             /\ \A i \in 1 .. Len(parts[b]) : RightFor(done[b][i], parts[b][i])
  <2> DEFINE q == parts[b]
             N == Len(q)
             f == ForwardMicroBatch(q)
  <2>1. q \in Seq(S) /\ N \in Nat /\ DOMAIN q = 1 .. N
    BY <1>2
  <2>2. \A i \in 1 .. N : Good(q[i])
    BY <1>2 DEF IsPiece
  <2> HIDE DEF q, N, f
  <2>3. f = [i \in 1 .. N |-> f[i]] /\ \A i \in 1 .. N : RightFor(f[i], q[i])
    BY <2>1, <2>2, MicroBatchRight DEF f
  <2>4. \A i \in 1 .. N : f[i] \in T
    BY DEF f, N, q
  <2> HIDE DEF T
  <2>5. f \in Seq(T) /\ Len(f) = N
    BY <2>1, <2>3, <2>4, SequenceOf
  <2>6. done[b] = f
    BY DEF f, q
  <2> QED BY <2>3, <2>5, <2>6 DEF N, q
<1> HIDE DEF T
<1>5. done \in [1 .. C -> Seq(T)] /\ \A b \in 1 .. C : Len(done[b]) = Len(parts[b])
  BY <1>4
<1>6. LogProbsOf(rows) = FlattenSeq(done)
  <2>1. DOMAIN parts = 1 .. C
    BY <1>2
  <2> QED BY <2>1 DEF LogProbsOf, Concat, parts
<1> HIDE DEF done
<1>7. FlattenSeq(done) \in Seq(T) /\ SameShape(FlattenSeq(parts), FlattenSeq(done), parts, done, C)
  BY <1>2, <1>3, <1>5, FlattenAlike
<1>8. ASSUME NEW i \in 1 .. Len(rows) PROVE RightFor(FlattenSeq(done)[i], rows[i])
  <2>1. \E k \in 1 .. C : \E j \in 1 .. Len(parts[k]) : rows[i] = parts[k][j] /\ FlattenSeq(done)[i] = done[k][j]
    BY <1>2, <1>7 DEF SameShape
  <2>2. PICK k \in 1 .. C : \E j \in 1 .. Len(parts[k]) : rows[i] = parts[k][j] /\ FlattenSeq(done)[i] = done[k][j]
    BY <2>1
  <2>3. PICK j \in 1 .. Len(parts[k]) : rows[i] = parts[k][j] /\ FlattenSeq(done)[i] = done[k][j]
    BY <2>2
  <2> QED BY <1>4, <2>3
<1> QED BY <1>2, <1>6, <1>7, <1>8 DEF SameShape

-----------------------------------------------------------------------------
(* Ranks that share their rows.                                            *)

\* Dividing undoes multiplying.
LEMMA ProductDiv ==
  ASSUME NEW w \in Nat, NEW z \in Nat \ {0}
  PROVE  (w * z) \div z = w
<1>1. w + 1 \in Nat \ {0} /\ 1 \in 1 .. z
  OBVIOUS
<1>2. (Place(w + 1, 1, z) - 1) \div z = (w + 1) - 1
  BY <1>1, PlaceBlock
<1>3. Place(w + 1, 1, z) - 1 = w * z
  BY DEF Place
<1> QED BY <1>2, <1>3

\* The group of a rank and its place in it.
LEMMA RankOfGroup ==
  ASSUME NEW size \in Nat \ {0}, WorldSize % size = 0, NEW rank \in 1 .. WorldSize
  PROVE  \E B \in Nat \ {0} : \E J \in 1 .. size :
           /\ rank = Place(B, J, size) /\ ((rank - 1) % size) + 1 = J
           /\ \A j \in 1 .. size : GroupOf(rank, size)[j] = Place(B, j, size) /\ Place(B, j, size) \in 1 .. WorldSize
<1> DEFINE q == WorldSize \div size
<1>1. q \in Nat /\ WorldSize = q * size /\ WorldSize \in Nat
  <2>1. WorldSize \in Nat
    BY Numbers
  <2>2. q \in Nat /\ WorldSize = size * q + (WorldSize % size)
    BY <2>1, DivMod
  <2> HIDE DEF q
  <2> QED BY <2>1, <2>2
<1> HIDE DEF q
<1>2. PICK B \in 1 .. q, J \in 1 .. size : rank = Place(B, J, size)
  <2>1. q \in Nat /\ rank \in 1 .. (q * size)
    BY <1>1
  <2> QED BY <2>1, PlaceExists
<1>3. (rank - 1) \div size = B - 1
  BY <1>1, <1>2, PlaceBlock
<1>4. ((rank - 1) % size) + 1 = J
  <2> DEFINE d == (rank - 1) \div size
             r == (rank - 1) % size
  <2>1. d \in Nat /\ r \in 0 .. (size - 1) /\ rank - 1 = size * d + r
    <3>1. rank - 1 \in Nat
      OBVIOUS
    <3> QED BY <3>1, DivMod
  <2>2. d = B - 1
    BY <1>3
  <2> HIDE DEF d, r
  <2>3. rank = (B - 1) * size + J
    BY <1>2 DEF Place
  <2>4. size * d = (B - 1) * size /\ (B - 1) * size \in Nat
    BY <2>1, <2>2
  <2> QED BY <2>1, <2>3, <2>4 DEF r
<1>5. ASSUME NEW j \in 1 .. size
      PROVE  GroupOf(rank, size)[j] = Place(B, j, size) /\ Place(B, j, size) \in 1 .. WorldSize
  <2>1. GroupOf(rank, size)[j] = Place(B, j, size)
    BY <1>3 DEF GroupOf, Place
  <2> QED BY <1>1, <2>1, PlaceBounds
<1> QED BY <1>1, <1>2, <1>4, <1>5

\* Every rank of a group works on the rows of all its ranks.
LEMMA SharedRows ==
  ASSUME NEW S, NEW rows \in Seq(S), Len(rows) = BatchSize, NEW size \in Nat \ {0}, WorldSize % size = 0,
         NEW b, b = BatchSize \div WorldSize
  PROVE  /\ b \in Nat \ {0} /\ WorldSize * b = BatchSize
         /\ \A rank \in 1 .. WorldSize :
              /\ Shared(rows, size)[rank] \in Seq(S) /\ Len(Shared(rows, size)[rank]) = size * b
              /\ \A x \in 1 .. b :
                   /\ Place(((rank - 1) % size) + 1, x, b) \in 1 .. (size * b)
                   /\ Shared(rows, size)[rank][Place(((rank - 1) % size) + 1, x, b)] = rows[Place(rank, x, b)]
<1> DEFINE W == WorldSize
           shards == Chunk(rows, W)
<1>1. W \in Nat \ {0} /\ BatchSize \in Nat \ {0} /\ Len(rows) % W = 0 /\ rows # <<>>
  BY Numbers
<1>2. Len(rows) \div W \in Nat \ {0} /\ shards \in [1 .. W -> Seq(S)] /\ IsChunks(shards, rows, W, Len(rows) \div W)
  BY <1>1, ChunkPieces
<1>3. b \in Nat \ {0} /\ IsChunks(shards, rows, W, b)
  BY <1>2
<1>4. W * b = BatchSize
  <2>1. BatchSize % W = 0 /\ BatchSize \in Nat
    BY Numbers
  <2>2. BatchSize = W * (BatchSize \div W) + (BatchSize % W)
    BY <1>1, <2>1, DivMod
  <2>3. W * b \in Nat
    BY <1>1, <1>3
  <2> QED BY <2>1, <2>2, <2>3
<1> HIDE DEF shards
<1>5. ASSUME NEW rank \in 1 .. W
      PROVE  /\ Shared(rows, size)[rank] \in Seq(S) /\ Len(Shared(rows, size)[rank]) = size * b
             /\ \A x \in 1 .. b :
                  /\ Place(((rank - 1) % size) + 1, x, b) \in 1 .. (size * b)
                  /\ Shared(rows, size)[rank][Place(((rank - 1) % size) + 1, x, b)] = rows[Place(rank, x, b)]
  <2>1. PICK B \in Nat \ {0} : \E J \in 1 .. size :
           /\ rank = Place(B, J, size) /\ ((rank - 1) % size) + 1 = J
           /\ \A j \in 1 .. size : GroupOf(rank, size)[j] = Place(B, j, size) /\ Place(B, j, size) \in 1 .. WorldSize
    BY RankOfGroup
  <2>2. PICK J \in 1 .. size :
           /\ rank = Place(B, J, size) /\ ((rank - 1) % size) + 1 = J
           /\ \A j \in 1 .. size : GroupOf(rank, size)[j] = Place(B, j, size) /\ Place(B, j, size) \in 1 .. WorldSize
    BY <2>1
  <2> DEFINE given == [j \in 1 .. size |-> shards[GroupOf(rank, size)[j]]]
             all == FlattenSeq(given)
  <2>3. Shared(rows, size)[rank] = all
    BY DEF Shared, AllGather, Concat, shards
  <2>4. given \in [1 .. size -> Seq(S)]
        /\ \A j \in 1 .. size : given[j] = shards[Place(B, j, size)] /\ Len(given[j]) = b
    BY <1>2, <1>3, <2>2 DEF IsChunks
  <2> HIDE DEF given
  <2>5. all \in Seq(S) /\ IsLaid(all, given, size, b)
    BY <1>3, <2>4, FlattenPlaces
  <2> HIDE DEF all
  <2>6. ASSUME NEW x \in 1 .. b
        PROVE  Place(J, x, b) \in 1 .. (size * b) /\ all[Place(J, x, b)] = rows[Place(rank, x, b)]
    <3>1. Place(J, x, b) \in 1 .. (size * b)
      BY <1>3, PlaceBounds
    <3>2. all[Place(J, x, b)] = given[J][x]
      BY <2>5 DEF IsLaid
    <3>3. given[J] = shards[rank]
      BY <2>2, <2>4
    <3>4. shards[rank][x] = rows[Place(rank, x, b)]
      BY <1>3 DEF IsChunks
    <3> QED BY <3>1, <3>2, <3>3, <3>4
  <2> QED BY <2>2, <2>3, <2>5, <2>6, SMTT(30) DEF IsLaid
<1> QED BY <1>3, <1>4, <1>5

\* Every row is one of the chunk of some rank.
LEMMA RowOfRank ==
  ASSUME NEW b \in Nat \ {0}, WorldSize * b = BatchSize, NEW i \in 1 .. BatchSize
  PROVE  \E rank \in 1 .. WorldSize, x \in 1 .. b : i = Place(rank, x, b)
<1>1. WorldSize \in Nat /\ i \in 1 .. (WorldSize * b)
  BY Numbers
<1> QED BY <1>1, PlaceExists

\* Of every row, q has a result of the place of the row in what is shared.
ComesFrom(q, results, rows, shared) ==
  \A i \in 1 .. BatchSize : \E rank \in 1 .. WorldSize : \E y \in 1 .. Len(results[rank]) :
    q[i] = results[rank][y] /\ rows[i] = shared[rank][y]

\* What the ranks of the groups hand back stands where the rows stood.
LEMMA HandedBackInPlace ==
  ASSUME NEW S, NEW rows \in Seq(S), Len(rows) = BatchSize, NEW size \in Nat \ {0}, WorldSize % size = 0,
         NEW T, NEW results \in [1 .. WorldSize -> Seq(T)],
         \A rank \in 1 .. WorldSize : Len(results[rank]) = Len(Shared(rows, size)[rank])
  PROVE  /\ HandedBack(results, size) \in Seq(T) /\ Len(HandedBack(results, size)) = BatchSize
         /\ ComesFrom(HandedBack(results, size), results, rows, Shared(rows, size))
<1> DEFINE W == WorldSize
           b == BatchSize \div W
           own(rank) == Chunk(results[rank], size)[((rank - 1) % size) + 1]
           parts == [rank \in 1 .. W |-> own(rank)]
           all == FlattenSeq(parts)
<1>1. /\ b \in Nat \ {0} /\ W * b = BatchSize
      /\ \A rank \in 1 .. W :
           /\ Len(Shared(rows, size)[rank]) = size * b
           /\ \A x \in 1 .. b :
                /\ Place(((rank - 1) % size) + 1, x, b) \in 1 .. (size * b)
                /\ Shared(rows, size)[rank][Place(((rank - 1) % size) + 1, x, b)] = rows[Place(rank, x, b)]
  BY SharedRows
<1> HIDE DEF b
<1>2. W \in Nat \ {0}
  BY Numbers
<1>3. ASSUME NEW rank \in 1 .. W
      PROVE  /\ own(rank) \in Seq(T) /\ Len(own(rank)) = b
             /\ \A x \in 1 .. b : own(rank)[x] = results[rank][Place(((rank - 1) % size) + 1, x, b)]
  <2> DEFINE q == results[rank]
             J == ((rank - 1) % size) + 1
  <2>1. q \in Seq(T) /\ Len(q) = b * size
    <3>1. size * b = b * size
      BY <1>1
    <3>2. results[rank] \in Seq(T) /\ Len(results[rank]) = size * b
      BY <1>1
    <3> QED BY <3>1, <3>2
  <2>2. Len(q) % size = 0 /\ Len(q) \div size = b /\ q # <<>>
    <3>1. (b * size) % size = 0 /\ (b * size) \div size = b
      BY <1>1, ProductMod, ProductDiv
    <3>2. b * size # 0
      BY <1>1
    <3> QED BY <2>1, <3>1, <3>2
  <2>3. J \in 1 .. size
    BY <1>2
  <2> HIDE DEF q, J
  <2>4. Chunk(q, size) \in [1 .. size -> Seq(T)] /\ IsChunks(Chunk(q, size), q, size, Len(q) \div size)
    BY <2>1, <2>2, ChunkPieces
  <2>5. Chunk(q, size)[J] \in Seq(T) /\ Len(Chunk(q, size)[J]) = b
        /\ \A x \in 1 .. b : Chunk(q, size)[J][x] = q[Place(J, x, b)]
    BY <2>2, <2>3, <2>4 DEF IsChunks
  <2> QED BY <2>5 DEF q, J
<1> HIDE DEF own
<1>4. parts \in [1 .. W -> Seq(T)] /\ \A rank \in 1 .. W : Len(parts[rank]) = b
  BY <1>3
<1>5. HandedBack(results, size) = all
  BY DEF HandedBack, Concat, own
<1> HIDE DEF parts
<1>6. all \in Seq(T) /\ IsLaid(all, parts, W, b)
  <2> HIDE DEF W
  <2> QED BY <1>1, <1>2, <1>4, FlattenPlaces
<1> HIDE DEF all
<1>7. ASSUME NEW i \in 1 .. BatchSize
      PROVE  \E rank \in 1 .. W : \E y \in 1 .. Len(results[rank]) :
               all[i] = results[rank][y] /\ rows[i] = Shared(rows, size)[rank][y]
  <2>1. PICK rank \in 1 .. W, x \in 1 .. b : i = Place(rank, x, b)
    <3>1. \E rank \in 1 .. WorldSize, x \in 1 .. b : i = Place(rank, x, b)
      BY <1>1, RowOfRank
    <3> QED BY <3>1
  <2> DEFINE y == Place(((rank - 1) % size) + 1, x, b)
  <2>2. y \in 1 .. (size * b) /\ Shared(rows, size)[rank][y] = rows[i] /\ Len(results[rank]) = size * b
    BY <1>1, <2>1
  <2>3. all[i] = parts[rank][x]
    BY <1>6, <2>1 DEF IsLaid
  <2>4. parts[rank][x] = results[rank][y]
    BY <1>3, <2>1 DEF parts
  <2> HIDE DEF y
  <2> QED BY <2>2, <2>3, <2>4
<1>8. Len(all) = BatchSize
  BY <1>1, <1>6 DEF IsLaid
<1> QED BY <1>5, <1>6, <1>7, <1>8 DEF ComesFrom

-----------------------------------------------------------------------------
(* The invariant.                                                          *)

PromptsTaken == \A i \in Rows : Taken(prompts[i])

\* The rows before and after generation, each in its place.
RowsPrepared == batch = [i \in Rows |-> PreprocessedRow(i, prompts[i])]
RowsPacked ==
  /\ batch = [i \in Rows |-> Packed(PreprocessedRow(i, prompts[i]), generated[i].answer)]
  /\ \A i \in Rows : generated[i].shown = RawPromptIds(prompts[i]) /\ Answered(generated[i].answer)
  /\ \A i \in Rows : token_counts[i] = Len(generated[i].answer)

\* The terms put on the last token of every answer so far.
ScoresOf(Terms) ==
  [i \in Rows |-> [j \in 1 .. ResponseLength |->
     IF j = Len(generated[i].answer) THEN Terms \X {i} ELSE {}]]
ScoresAre(Terms) == token_level_scores = ScoresOf(Terms)

RowsInv ==
  /\ setting \in Settings
  /\ progress \in {"prompts", "failed", "generate", "reward", "log_prob", "penalty", "done"}
  /\ progress \notin {"prompts", "failed"} => PromptsTaken
  /\ progress = "generate" => RowsPrepared
  /\ progress \in {"reward", "log_prob", "penalty", "done"} => RowsPacked
  /\ progress \in {"log_prob", "penalty"} => ScoresAre({"reward"})
  /\ progress = "done" => ScoresAre({"reward", "invalid"})
  /\ LogProbsAreOfTheirTokens

\* What the earlier lemmas say of a row of the batch.
LEMMA RowFacts ==
  ASSUME setting \in Settings, PromptsTaken, RowsPacked, NEW i \in Rows
  PROVE  LET n == Len(generated[i].answer)
             g == GapOf(prompts[i])
         IN  /\ Shape(batch[i], g, n)
             /\ g + Len(RawPromptIds(prompts[i])) = MaxPromptLength
             /\ RawPromptIds(prompts[i]) \in Seq(Token)
             /\ \A k \in 1 .. Len(RawPromptIds(prompts[i])) :
                  batch[i].input_ids[g + k] = RawPromptIds(prompts[i])[k]
             /\ \A j \in 1 .. n : batch[i].input_ids[MaxPromptLength + j] = generated[i].answer[j]
             /\ ResponseMask(batch[i]) = Repeated(1, n) \o Repeated(0, ResponseLength - n)
             /\ Total(ResponseMask(batch[i])) = n
<1> DEFINE ids == prompts[i]
           answer == generated[i].answer
           r == PreprocessedRow(i, ids)
<1>1. Taken(ids) /\ Answered(answer)
  BY DEF PromptsTaken, RowsPacked
<1>2. batch[i] = Packed(r, answer)
  BY DEF RowsPacked
<1> HIDE DEF ids, answer, r
<1>3. Prepared(r, ids)
  BY <1>1, PreparedRow DEF r
<1>4. RawPromptIds(ids) \in Seq(Token) /\ Len(RawPromptIds(ids)) \in 1 .. MaxPromptLength
  BY <1>1, KeptPrompt
<1>5. GapOf(ids) + Len(RawPromptIds(ids)) = MaxPromptLength
  BY <1>4, Numbers DEF GapOf
<1>6. LET p == Packed(r, answer)
          n == Len(answer)
          g == GapOf(ids)
      IN  /\ Shape(p, g, n)
          /\ \A k \in 1 .. Len(RawPromptIds(ids)) : p.input_ids[g + k] = RawPromptIds(ids)[k]
          /\ \A j \in 1 .. n : p.input_ids[MaxPromptLength + j] = answer[j]
          /\ ResponseMask(p) = Repeated(1, n) \o Repeated(0, ResponseLength - n)
          /\ Total(ResponseMask(p)) = n
  BY <1>1, <1>3, <1>4, PackedRow
<1> QED BY <1>2, <1>4, <1>5, <1>6 DEF ids, answer

\* The expected log probability is that of the engine.
LEMMA ExpectedIsSeen ==
  ASSUME setting \in Settings, PromptsTaken, RowsPacked, NEW i \in Rows,
         NEW j \in 1 .. Len(generated[i].answer)
  PROVE  Expected(batch[i], GapOf(prompts[i]), j) =
           [of |-> generated[i].answer[j], context |-> SeenByEngine(i, j)]
<1> DEFINE answer == generated[i].answer
           n == Len(answer)
           g == GapOf(prompts[i])
           kept == RawPromptIds(prompts[i])
           K == Len(kept)
           m == MaxPromptLength
           r == batch[i]
           part == SubSeq(answer, 1, j - 1)
           text == kept \o part
           d == K + (j - 1)
<1>1. /\ Shape(r, g, n) /\ g + K = m /\ kept \in Seq(Token)
      /\ \A k \in 1 .. K : r.input_ids[g + k] = kept[k]
      /\ \A l \in 1 .. n : r.input_ids[m + l] = answer[l]
  BY RowFacts
<1>2. answer \in Seq(Token) /\ n \in Nat /\ K \in Nat /\ m \in Nat /\ g \in Nat
  BY <1>1, ShapeBounds DEF RowsPacked, Answered
<1>3. generated[i].shown = kept
  BY DEF RowsPacked
<1> HIDE DEF answer, g, kept, r, m, n, K
<1>4. part \in Seq(Token) /\ Len(part) = j - 1 /\ \A x \in 1 .. (j - 1) : part[x] = answer[x]
  <2>1. j \in 1 .. n /\ j - 1 \in 0 .. Len(answer)
    BY <1>2 DEF n, answer
  <2> QED BY <1>2, <2>1, StartElements
<1> HIDE DEF part
<1>5. /\ Len(text) = d /\ text \in Seq(Token)
      /\ \A k \in 1 .. d : text[k] = r.input_ids[g + k]
  <2>1. Joined(text, kept, part, K, j - 1) /\ text \in Seq(Token)
    BY <1>1, <1>4, ConcatJoins, ConcatElements DEF K
  <2>2. j \in 1 .. n
    BY DEF n, answer
  <2>3. ASSUME NEW k \in 1 .. d PROVE text[k] = r.input_ids[g + k]
    <3>1. text[k] = IF k <= K THEN kept[k] ELSE part[k - K]
      BY <2>1 DEF Joined
    <3>2. CASE k <= K
      <4>1. k \in 1 .. K
        BY <1>2, <3>2
      <4> QED BY <1>1, <3>1, <3>2, <4>1
    <3>3. CASE ~(k <= K)
      <4>1. k - K \in 1 .. (j - 1) /\ k - K \in 1 .. n /\ m + (k - K) = g + k
        BY <1>1, <1>2, <2>2, <3>3
      <4> QED BY <1>1, <1>4, <3>1, <3>3, <4>1
    <3> QED BY <3>2, <3>3
  <2> QED BY <2>1, <2>3 DEF Joined
<1>6. DOMAIN text = 1 .. d
  BY <1>2, <1>5
<1> HIDE DEF text, d
<1>7. Numbered(text) = [k \in 1 .. d |-> <<r.input_ids[g + k], k - 1>>]
  BY <1>5, <1>6 DEF Numbered
<1>8. SeenByEngine(i, j) = Numbered(text)
  BY <1>3 DEF SeenByEngine, text, part, answer
<1>9. MaxPromptLength - g + j - 1 = d
  BY <1>1, <1>2 DEF d, m, answer
<1>10. r.input_ids[MaxPromptLength + j] = answer[j]
  BY <1>1 DEF n, answer, m
<1> QED BY <1>7, <1>8, <1>9, <1>10 DEF Expected, r, g, answer

-----------------------------------------------------------------------------
(* The steps.                                                              *)

\* A prompt that does not make preprocessing raise is taken.
LEMMA PromptTaken ==
  ASSUME NEW i \in Rows, NEW length \in PromptLengths,
         ~(setting.truncation = "error" /\ length > MaxPromptLength)
  PROVE  Taken(PromptOf(i, length))
<1>1. length \in Nat \ {0} /\ MaxPromptLength \in Nat
  BY RowsAssumption
<1>2. PromptOf(i, length) \in Seq(Token) /\ Len(PromptOf(i, length)) = length
  <2> DEFINE f == PromptOf(i, length)
  <2>1. f = [k \in 1 .. length |-> f[k]] /\ \A k \in 1 .. length : f[k] = <<"prompt", i, k>>
    BY DEF PromptOf
  <2>2. \A k \in 1 .. length : <<"prompt", i, k>> \in Token
    BY Numbers DEF Token, Rows
  <2> HIDE DEF f
  <2>3. \A k \in 1 .. length : f[k] \in Token
    BY <2>1, <2>2
  <2> QED BY <1>1, <2>1, <2>3, SequenceOf DEF f
<1> QED BY <1>1, <1>2 DEF Taken

\* Preprocessing establishes what is known of prompts and rows, or fails.
LEMMA PreprocessKeeps ==
  ASSUME RowsInv, Preprocess PROVE RowsInv'
<1>1. /\ progress = "prompts" /\ setting' = setting /\ setting \in Settings
  BY DEF Preprocess, RowsInv
<1>2. PICK lengths \in [Rows -> PromptLengths] :
        LET ids == [i \in Rows |-> PromptOf(i, lengths[i])]
        IN  /\ prompts' = ids
            /\ IF setting.truncation = "error" /\ \E i \in Rows : lengths[i] > MaxPromptLength
               THEN /\ progress' = "failed"
                    /\ UNCHANGED batch
               ELSE /\ progress' = "generate"
                    /\ batch' = [i \in Rows |-> PreprocessedRow(i, ids[i])]
  BY DEF Preprocess
<1>3. CASE setting.truncation = "error" /\ \E i \in Rows : lengths[i] > MaxPromptLength
  <2>1. progress' = "failed"
    BY <1>2, <1>3
  <2> QED BY <1>1, <2>1 DEF RowsInv, LogProbsAreOfTheirTokens
<1>4. CASE ~(setting.truncation = "error" /\ \E i \in Rows : lengths[i] > MaxPromptLength)
  <2>1. /\ progress' = "generate" /\ prompts' = [i \in Rows |-> PromptOf(i, lengths[i])]
        /\ batch' = [i \in Rows |-> PreprocessedRow(i, PromptOf(i, lengths[i]))]
    BY <1>2, <1>4
  <2>2. \A i \in Rows : Taken(PromptOf(i, lengths[i]))
    BY <1>4, PromptTaken
  <2>3. PromptsTaken'
    BY <1>1, <2>1, <2>2 DEF PromptsTaken, Taken
  <2>4. RowsPrepared'
    <3>1. ASSUME NEW i \in Rows
          PROVE  PreprocessedRow(i, prompts[i])' = PreprocessedRow(i, PromptOf(i, lengths[i]))
      <4> DEFINE x == PromptOf(i, lengths[i])
      <4>1. prompts'[i] = x
        BY <2>1
      <4> HIDE DEF x
      <4>2. RawPromptIds(prompts[i])' = RawPromptIds(x)
        BY <1>1, <4>1 DEF RawPromptIds, Truncated
      <4>3. PostprocessData(prompts[i])' = PostprocessData(x)
        BY <1>1, <4>1 DEF PostprocessData, Truncated
      <4> QED BY <4>2, <4>3 DEF PreprocessedRow, x
    <3> QED BY <2>1, <3>1 DEF RowsPrepared
  <2> QED BY <1>1, <2>1, <2>3, <2>4 DEF RowsInv, LogProbsAreOfTheirTokens
<1> QED BY <1>3, <1>4

\* The engine answers as required.
LEMMA AnswerIsAnswered ==
  ASSUME NEW i \in Rows, NEW shape \in AnswerShapes
  PROVE  Answered(AnswerOf(i, shape))
<1> DEFINE n == shape[1]
           f == AnswerOf(i, shape)
           R == ResponseLength
<1>1. R \in Nat \ {0} /\ n \in 1 .. R /\ (n < R => shape[2]) /\ shape[2] \in BOOLEAN
  <2>1. R \in Nat \ {0}
    BY Numbers
  <2>2. CASE shape \in (1 .. R) \X {TRUE}
    BY <2>1, <2>2
  <2>3. CASE shape = <<R, FALSE>>
    BY <2>1, <2>3
  <2> QED BY <2>1, <2>2, <2>3 DEF AnswerShapes
<1>2. f = [k \in 1 .. n |-> f[k]]
      /\ \A k \in 1 .. n : f[k] = <<IF k = n /\ shape[2] THEN "eos" ELSE "answer", i, k>>
  BY DEF AnswerOf
<1> HIDE DEF f, n, R
<1>3. \A k \in 1 .. n : f[k] \in Token
  <2> SUFFICES ASSUME NEW k \in 1 .. n PROVE f[k] \in Token
    OBVIOUS
  <2>1. i \in Nat /\ k \in Nat
    BY Numbers, <1>1 DEF Rows
  <2> DEFINE kind == IF k = n /\ shape[2] THEN "eos" ELSE "answer"
  <2>2. kind \in {"pad", "zero", "prompt", "answer", "eos"}
    OBVIOUS
  <2>3. f[k] = <<kind, i, k>>
    BY <1>2
  <2> HIDE DEF kind
  <2> QED BY <2>1, <2>2, <2>3 DEF Token
<1>4. f \in Seq(Token) /\ Len(f) = n
  BY <1>1, <1>2, <1>3, SequenceOf
<1>5. \A k \in 1 .. (n - 1) : f[k][1] # "eos"
  <2> SUFFICES ASSUME NEW k \in 1 .. (n - 1) PROVE f[k][1] # "eos"
    OBVIOUS
  <2>1. k \in 1 .. n /\ k # n
    BY <1>1
  <2>2. f[k] = <<"answer", i, k>>
    BY <1>2, <2>1
  <2> QED BY <2>2
<1>6. n < R => f[n][1] = "eos"
  <2> HAVE n < R
  <2>1. n \in 1 .. n
    BY <1>1
  <2>2. f[n] = <<"eos", i, n>>
    BY <1>1, <1>2, <2>1
  <2> QED BY <2>2
<1> QED BY <1>1, <1>4, <1>5, <1>6 DEF Answered, f, R

\* The rows of the batch as a sequence.
LEMMA BatchSequence ==
  ASSUME NEW f, batch = [i \in Rows |-> f[i]]
  PROVE  LET S == {batch[i] : i \in Rows} IN batch \in Seq(S) /\ Len(batch) = BatchSize
<1> DEFINE S == {batch[i] : i \in Rows}
<1>1. batch = [i \in 1 .. BatchSize |-> batch[i]] /\ \A i \in 1 .. BatchSize : batch[i] \in S
  BY DEF Rows
<1>2. BatchSize \in Nat
  BY Numbers
<1> HIDE DEF S
<1>3. batch \in Seq(S) /\ Len(batch) = BatchSize
  BY <1>1, <1>2, SequenceOf
<1> QED BY <1>3 DEF S

\* Ranks that all generate for their group bring together a batch in its order.
LEMMA PackedInPlace ==
  ASSUME setting \in Settings, RowsPrepared, NEW answers
  PROVE  LET shared == Shared(batch, setting.tp)
             packed == HandedBack([rank \in 1..WorldSize |->
                         [k \in DOMAIN shared[rank] |->
                            Packed(shared[rank][k], answers[shared[rank][k].index])]],
                         setting.tp)
         IN  packed = [i \in Rows |-> Packed(PreprocessedRow(i, prompts[i]), answers[i])]
<1> DEFINE size == setting.tp
           shared == Shared(batch, size)
           S == {batch[i] : i \in Rows}
           T == {Packed(r, answers[r.index]) : r \in S}
           part(rank) == [k \in DOMAIN shared[rank] |->
                            Packed(shared[rank][k], answers[shared[rank][k].index])]
           results == [rank \in 1 .. WorldSize |-> part(rank)]
           packed == HandedBack(results, size)
<1>1. batch \in Seq(S) /\ Len(batch) = BatchSize
  <2>1. batch = [i \in Rows |-> batch[i]]
    BY DEF RowsPrepared
  <2> QED BY <2>1, BatchSequence
<1>2. size \in Nat \ {0} /\ WorldSize % size = 0
  BY SettingFields
<1>3. \A i \in Rows : batch[i] = PreprocessedRow(i, prompts[i]) /\ batch[i].index = i
  BY DEF RowsPrepared, PreprocessedRow
<1> HIDE DEF S, size
<1>4. \A rank \in 1 .. WorldSize : shared[rank] \in Seq(S)
  BY <1>1, <1>2, SharedRows
<1> HIDE DEF shared
<1>5. ASSUME NEW rank \in 1 .. WorldSize
      PROVE  /\ part(rank) \in Seq(T) /\ Len(part(rank)) = Len(shared[rank])
             /\ \A y \in 1 .. Len(shared[rank]) :
                  part(rank)[y] = Packed(shared[rank][y], answers[shared[rank][y].index])
  <2> DEFINE s == shared[rank]
             f == [k \in DOMAIN s |-> Packed(s[k], answers[s[k].index])]
  <2>1. s \in Seq(S) /\ DOMAIN s = 1 .. Len(s) /\ Len(s) \in Nat
    BY <1>4
  <2>2. f = [k \in 1 .. Len(s) |-> f[k]]
        /\ \A k \in 1 .. Len(s) : f[k] = Packed(s[k], answers[s[k].index]) /\ f[k] \in T
    BY <2>1
  <2>3. part(rank) = f
    OBVIOUS
  <2> HIDE DEF f, s, T
  <2>4. f \in Seq(T) /\ Len(f) = Len(s)
    BY <2>1, <2>2, SequenceOf
  <2> QED BY <2>2, <2>3, <2>4 DEF s
<1> HIDE DEF T, part
<1>6. results \in [1 .. WorldSize -> Seq(T)]
      /\ \A rank \in 1 .. WorldSize : results[rank] = part(rank) /\ Len(results[rank]) = Len(shared[rank])
  BY <1>5
<1> HIDE DEF results
<1>7. packed \in Seq(T) /\ Len(packed) = BatchSize /\ ComesFrom(packed, results, batch, shared)
  <2>1. \A rank \in 1 .. WorldSize : Len(results[rank]) = Len(Shared(batch, size)[rank])
    BY <1>6 DEF shared
  <2> QED BY <1>1, <1>2, <1>6, <2>1, HandedBackInPlace DEF shared
<1> HIDE DEF packed
<1>8. ASSUME NEW i \in Rows PROVE packed[i] = Packed(PreprocessedRow(i, prompts[i]), answers[i])
  <2>1. \E rank \in 1 .. WorldSize : \E y \in 1 .. Len(results[rank]) :
          packed[i] = results[rank][y] /\ batch[i] = shared[rank][y]
    BY <1>7 DEF Rows, ComesFrom
  <2>2. PICK rank \in 1 .. WorldSize : \E y \in 1 .. Len(results[rank]) :
          packed[i] = results[rank][y] /\ batch[i] = shared[rank][y]
    BY <2>1
  <2>3. PICK y \in 1 .. Len(results[rank]) : packed[i] = results[rank][y] /\ batch[i] = shared[rank][y]
    BY <2>2
  <2>4. y \in 1 .. Len(shared[rank]) /\ results[rank] = part(rank)
    BY <1>6
  <2>5. packed[i] = Packed(batch[i], answers[batch[i].index])
    BY <1>5, <2>3, <2>4
  <2> QED BY <1>3, <2>5
<1>9. packed = [i \in Rows |-> packed[i]]
  BY <1>7 DEF Rows
<1>10. packed = [i \in Rows |-> Packed(PreprocessedRow(i, prompts[i]), answers[i])]
  BY <1>8, <1>9
<1> QED BY <1>10 DEF packed, results, part, shared, size

\* Steps that leave the settings and the prompts alone leave what is made of them.
LEMMA PreparedAgain ==
  ASSUME setting' = setting, prompts' = prompts
  PROVE  /\ \A i \in Rows : PreprocessedRow(i, prompts[i])' = PreprocessedRow(i, prompts[i])
         /\ \A i \in Rows : RawPromptIds(prompts[i])' = RawPromptIds(prompts[i])
         /\ PromptsTaken => PromptsTaken'
<1>1. ASSUME NEW i \in Rows
      PROVE  /\ RawPromptIds(prompts[i])' = RawPromptIds(prompts[i])
             /\ PreprocessedRow(i, prompts[i])' = PreprocessedRow(i, prompts[i])
  <2>1. RawPromptIds(prompts[i])' = RawPromptIds(prompts[i])
    BY DEF RawPromptIds, Truncated
  <2>2. PostprocessData(prompts[i])' = PostprocessData(prompts[i])
    BY DEF PostprocessData, Truncated
  <2> QED BY <2>1, <2>2 DEF PreprocessedRow
<1>2. PromptsTaken => PromptsTaken'
  BY DEF PromptsTaken, Taken
<1> QED BY <1>1, <1>2

\* Packed rows stay as they are when a step only adds numbers to them.
LEMMA PackedAgain ==
  ASSUME setting' = setting, prompts' = prompts, batch' = batch, generated' = generated,
         token_counts' = token_counts, RowsPacked
  PROVE  RowsPacked'
<1>1. \A i \in Rows : PreprocessedRow(i, prompts[i])' = PreprocessedRow(i, prompts[i])
  BY PreparedAgain
<1>2. \A i \in Rows : RawPromptIds(prompts[i])' = RawPromptIds(prompts[i])
  BY PreparedAgain
<1>3. batch' = [i \in Rows |-> Packed(PreprocessedRow(i, prompts[i])', generated'[i].answer)]
  BY <1>1 DEF RowsPacked
<1>4. \A i \in Rows : /\ generated'[i].shown = RawPromptIds(prompts[i])'
                      /\ Answered(generated'[i].answer)
                      /\ token_counts'[i] = Len(generated'[i].answer)
  BY <1>2 DEF RowsPacked
<1> QED BY <1>3, <1>4 DEF RowsPacked

\* Generation packs every row with its own answer and counts its tokens.
LEMMA GenerateKeeps ==
  ASSUME RowsInv, GenerateSequences PROVE RowsInv'
<1>1. /\ progress = "generate" /\ progress' = "reward" /\ setting' = setting /\ prompts' = prompts
      /\ setting \in Settings /\ PromptsTaken /\ RowsPrepared
  BY DEF GenerateSequences, RowsInv
<1>2. PICK shapes \in [Rows -> AnswerShapes] :
        LET answers    == [i \in Rows |-> AnswerOf(i, shapes[i])]
            shared     == Shared(batch, setting.tp)
            packed     == HandedBack([rank \in 1..WorldSize |->
                            [k \in DOMAIN shared[rank] |->
                               Packed(shared[rank][k], answers[shared[rank][k].index])]],
                            setting.tp)
        IN  /\ generated' = [i \in Rows |-> [shown  |-> batch[i].raw_prompt_ids,
                                             answer |-> answers[i]]]
            /\ batch' = packed
            /\ token_counts' = [i \in Rows |-> Total(ResponseMask(packed[i]))]
  BY DEF GenerateSequences
<1> DEFINE answers == [i \in Rows |-> AnswerOf(i, shapes[i])]
           packed == [i \in Rows |-> Packed(PreprocessedRow(i, prompts[i]), answers[i])]
<1>3. \A i \in Rows : Answered(answers[i])
  BY <1>2, AnswerIsAnswered
<1> HIDE DEF answers
<1>4. /\ batch' = packed
      /\ token_counts' = [i \in Rows |-> Total(ResponseMask(packed[i]))]
      /\ generated' = [i \in Rows |-> [shown |-> batch[i].raw_prompt_ids, answer |-> answers[i]]]
  BY <1>1, <1>2, PackedInPlace DEF answers
<1>5. \A i \in Rows : generated'[i].shown = RawPromptIds(prompts[i]) /\ generated'[i].answer = answers[i]
  <2>1. \A i \in Rows : batch[i].raw_prompt_ids = RawPromptIds(prompts[i])
    BY <1>1 DEF RowsPrepared, PreprocessedRow
  <2> QED BY <1>4, <2>1
<1>6. ASSUME NEW i \in Rows PROVE token_counts'[i] = Len(answers[i])
  <2> DEFINE ids == prompts[i]
             r == PreprocessedRow(i, ids)
             answer == answers[i]
  <2>1. token_counts'[i] = Total(ResponseMask(Packed(r, answer)))
    BY <1>4
  <2>2. Taken(ids) /\ Answered(answer)
    BY <1>1, <1>3 DEF PromptsTaken
  <2> HIDE DEF ids, r, answer
  <2>3. Prepared(r, ids)
    BY <1>1, <2>2, PreparedRow DEF r
  <2>4. RawPromptIds(ids) \in Seq(Token) /\ Len(RawPromptIds(ids)) \in 1 .. MaxPromptLength
    BY <1>1, <2>2, KeptPrompt
  <2>5. Total(ResponseMask(Packed(r, answer))) = Len(answer)
    BY <2>2, <2>3, <2>4, PackedRow
  <2> QED BY <2>1, <2>5 DEF answer
<1>7. RowsPacked'
  <2>1. /\ \A i \in Rows : PreprocessedRow(i, prompts[i])' = PreprocessedRow(i, prompts[i])
        /\ \A i \in Rows : RawPromptIds(prompts[i])' = RawPromptIds(prompts[i])
    BY <1>1, PreparedAgain
  <2>2. batch' = [i \in Rows |-> Packed(PreprocessedRow(i, prompts[i])', generated'[i].answer)]
    BY <1>4, <1>5, <2>1
  <2>3. \A i \in Rows : /\ generated'[i].shown = RawPromptIds(prompts[i])'
                        /\ Answered(generated'[i].answer)
                        /\ token_counts'[i] = Len(generated'[i].answer)
    BY <1>3, <1>5, <1>6, <2>1
  <2> QED BY <2>2, <2>3 DEF RowsPacked
<1>8. PromptsTaken'
  BY <1>1, PreparedAgain
<1> QED BY <1>1, <1>7, <1>8 DEF RowsInv, LogProbsAreOfTheirTokens

\* A term is put on the last token of the answer of every row.
LEMMA TermOnTheEnd ==
  ASSUME setting \in Settings, PromptsTaken, RowsPacked, NEW Terms, NEW term, NEW scores,
         scores = ScoresOf(Terms)
  PROVE  WithTerm(scores, term) = ScoresOf(Terms \cup {term})
<1>1. ASSUME NEW i \in Rows
      PROVE  [scores[i] EXCEPT ![ValidEnd(batch[i])] = @ \cup {<<term, i>>}] =
               [j \in 1 .. ResponseLength |->
                  IF j = Len(generated[i].answer) THEN (Terms \cup {term}) \X {i} ELSE {}]
  <2> DEFINE n == Len(generated[i].answer)
             R == ResponseLength
             s == scores[i]
  <2>1. n \in 1 .. R /\ R \in Nat
    BY Numbers DEF RowsPacked, Answered
  <2>2. Total(ResponseMask(batch[i])) = n
    BY RowFacts
  <2>3. ValidEnd(batch[i]) = n
    BY <2>1, <2>2 DEF ValidEnd
  <2>4. s = [j \in 1 .. R |-> IF j = n THEN Terms \X {i} ELSE {}]
    BY DEF ScoresOf
  <2> HIDE DEF n, R, s
  <2>5. (Terms \X {i}) \cup {<<term, i>>} = (Terms \cup {term}) \X {i}
    OBVIOUS
  <2>6. [s EXCEPT ![n] = @ \cup {<<term, i>>}] =
          [j \in 1 .. R |-> IF j = n THEN (Terms \cup {term}) \X {i} ELSE {}]
    BY <2>1, <2>4, <2>5
  <2> QED BY <2>3, <2>6 DEF n, R, s
<1> QED BY <1>1 DEF WithTerm, ScoresOf

\* The reward is put where the answer ends.
LEMMA RewardKeeps ==
  ASSUME RowsInv, ComputeReward PROVE RowsInv'
<1>1. /\ progress = "reward" /\ progress' = "log_prob" /\ setting' = setting /\ prompts' = prompts
      /\ batch' = batch /\ generated' = generated /\ token_counts' = token_counts
      /\ setting \in Settings /\ PromptsTaken /\ RowsPacked
  BY DEF ComputeReward, RowsInv
<1> DEFINE none == [i \in Rows |-> Repeated({}, ResponseLength)]
<1>2. token_level_scores' = WithTerm(none, "reward")
  BY DEF ComputeReward
<1>3. none = ScoresOf({})
  BY DEF Repeated, ScoresOf
<1> HIDE DEF none
<1>4. WithTerm(none, "reward") = ScoresOf({} \cup {"reward"})
  BY <1>1, <1>3, TermOnTheEnd
<1>5. ScoresAre({"reward"})'
  <2>1. {} \cup {"reward"} = {"reward"}
    OBVIOUS
  <2> QED BY <1>1, <1>2, <1>4, <2>1 DEF ScoresAre, ScoresOf
<1>6. PromptsTaken' /\ RowsPacked'
  BY <1>1, PreparedAgain, PackedAgain
<1> QED BY <1>1, <1>5, <1>6 DEF RowsInv, LogProbsAreOfTheirTokens

\* The penalty is put on the same token as the reward.
LEMMA PenaltyKeeps ==
  ASSUME RowsInv, InvalidActionPenalty PROVE RowsInv'
<1>1. /\ progress = "penalty" /\ progress' = "done" /\ setting' = setting /\ prompts' = prompts
      /\ batch' = batch /\ generated' = generated /\ token_counts' = token_counts
      /\ old_log_probs' = old_log_probs
      /\ setting \in Settings /\ PromptsTaken /\ RowsPacked
  BY DEF InvalidActionPenalty, RowsInv
<1>2. token_level_scores' = WithTerm(token_level_scores, "invalid")
  BY DEF InvalidActionPenalty
<1>3. ScoresAre({"reward"}) /\ LogProbsAreOfTheirTokens
  BY <1>1 DEF RowsInv
<1>4. WithTerm(token_level_scores, "invalid") = ScoresOf({"reward"} \cup {"invalid"})
  BY <1>1, <1>3, TermOnTheEnd DEF ScoresAre
<1>5. ScoresAre({"reward", "invalid"})'
  <2>1. {"reward"} \cup {"invalid"} = {"reward", "invalid"}
    OBVIOUS
  <2> QED BY <1>1, <1>2, <1>4, <2>1 DEF ScoresAre, ScoresOf
<1>6. PromptsTaken' /\ RowsPacked'
  BY <1>1, PreparedAgain, PackedAgain
<1>7. LogProbsAreOfTheirTokens'
  BY <1>1, <1>3 DEF LogProbsAreOfTheirTokens, SeenByEngine
<1> QED BY <1>1, <1>5, <1>6, <1>7 DEF RowsInv

\* Every rank scores the rows it shares; what they hand back is right for the rows.
LEMMA LogProbsInPlace ==
  ASSUME setting \in Settings, NEW S, batch \in Seq(S), Len(batch) = BatchSize,
         \A r \in S : Good(r)
  PROVE  LET shared == Shared(batch, setting.sp)
             all    == HandedBack([rank \in 1 .. WorldSize |-> LogProbsOf(shared[rank])], setting.sp)
         IN  \A i \in Rows : RightFor(all[i], batch[i])
<1> DEFINE size == setting.sp
           shared == Shared(batch, size)
           results == [rank \in 1 .. WorldSize |-> LogProbsOf(shared[rank])]
           T == UNION {{results[rank][y] : y \in 1 .. Len(results[rank])} : rank \in 1 .. WorldSize}
           all == HandedBack(results, size)
<1>1. size \in Nat \ {0} /\ WorldSize % size = 0
  BY SettingFields
<1> HIDE DEF size
<1>2. \A rank \in 1 .. WorldSize : shared[rank] \in Seq(S)
  BY <1>1, SharedRows
<1> HIDE DEF shared
<1>3. ASSUME NEW rank \in 1 .. WorldSize
      PROVE  /\ \E X : LogProbsOf(shared[rank]) \in Seq(X)
             /\ Len(LogProbsOf(shared[rank])) = Len(shared[rank])
             /\ \A y \in 1 .. Len(shared[rank]) : RightFor(LogProbsOf(shared[rank])[y], shared[rank][y])
  <2> DEFINE s == shared[rank]
  <2>1. s \in Seq(S)
    BY <1>2
  <2> HIDE DEF s
  <2>2. \A y \in 1 .. Len(s) : Good(s[y])
    BY <2>1
  <2>3. /\ \E X : LogProbsOf(s) \in Seq(X)
        /\ Len(LogProbsOf(s)) = Len(s)
        /\ \A y \in 1 .. Len(s) : RightFor(LogProbsOf(s)[y], s[y])
    BY <2>1, <2>2, LogProbsRight
  <2> QED BY <2>3 DEF s
<1>4. ASSUME NEW rank \in 1 .. WorldSize
      PROVE  results[rank] \in Seq(T)
  <2> DEFINE q == results[rank]
  <2>1. PICK X : q \in Seq(X)
    BY <1>3
  <2>2. \A y \in 1 .. Len(q) : q[y] \in T
    OBVIOUS
  <2> HIDE DEF q, T
  <2>3. q = [y \in 1 .. Len(q) |-> q[y]] /\ Len(q) \in Nat
    BY <2>1
  <2>4. q \in Seq(T)
    BY <2>2, <2>3, SequenceOf
  <2> QED BY <2>4 DEF q
<1> HIDE DEF T
<1>5. /\ results \in [1 .. WorldSize -> Seq(T)]
      /\ \A rank \in 1 .. WorldSize : results[rank] = LogProbsOf(shared[rank])
  BY <1>4
<1> HIDE DEF results
<1>6. \A rank \in 1 .. WorldSize : Len(results[rank]) = Len(Shared(batch, size)[rank])
  BY <1>3, <1>5 DEF shared
<1>7. ComesFrom(all, results, batch, shared)
  BY <1>1, <1>5, <1>6, HandedBackInPlace DEF shared
<1> HIDE DEF all
<1>8. ASSUME NEW i \in Rows PROVE RightFor(all[i], batch[i])
  <2>1. PICK rank \in 1 .. WorldSize : \E y \in 1 .. Len(results[rank]) :
          all[i] = results[rank][y] /\ batch[i] = shared[rank][y]
    BY <1>7 DEF Rows, ComesFrom
  <2>2. PICK y \in 1 .. Len(results[rank]) : all[i] = results[rank][y] /\ batch[i] = shared[rank][y]
    BY <2>1
  <2>3. y \in 1 .. Len(shared[rank]) /\ results[rank] = LogProbsOf(shared[rank])
    BY <1>3, <1>5, <2>2
  <2>4. RightFor(LogProbsOf(shared[rank])[y], shared[rank][y])
    BY <1>3, <2>3
  <2> QED BY <2>2, <2>3, <2>4
<1> QED BY <1>8 DEF all, results, shared, size

\* The log probabilities are those of the tokens, as the engine saw them.
LEMMA LogProbKeeps ==
  ASSUME RowsInv, ComputeLogProb PROVE RowsInv'
<1>1. /\ progress = "log_prob" /\ progress' = "penalty" /\ setting' = setting /\ prompts' = prompts
      /\ batch' = batch /\ generated' = generated /\ token_counts' = token_counts
      /\ token_level_scores' = token_level_scores
      /\ setting \in Settings /\ PromptsTaken /\ RowsPacked /\ ScoresAre({"reward"})
  BY DEF ComputeLogProb, RowsInv
<1> DEFINE S == {batch[i] : i \in Rows}
           all == HandedBack([rank \in 1 .. WorldSize |-> LogProbsOf(Shared(batch, setting.sp)[rank])],
                             setting.sp)
<1>2. old_log_probs' = all
  BY DEF ComputeLogProb
<1>3. \A i \in Rows : Shape(batch[i], GapOf(prompts[i]), Len(generated[i].answer))
  BY <1>1, RowFacts
<1>4. \A r \in S : Good(r)
  BY <1>3 DEF Good
<1>5. batch \in Seq(S) /\ Len(batch) = BatchSize
  <2>1. batch = [i \in Rows |-> batch[i]]
    BY <1>1 DEF RowsPacked
  <2> QED BY <2>1, BatchSequence
<1> HIDE DEF S
<1>6. \A i \in Rows : RightFor(all[i], batch[i])
  BY <1>1, <1>4, <1>5, LogProbsInPlace
<1> HIDE DEF all
<1>7. ASSUME NEW i \in Rows, NEW j \in 1 .. Len(generated[i].answer)
      PROVE  old_log_probs'[i][j] = [of |-> generated[i].answer[j], context |-> SeenByEngine(i, j)]
  <2>1. all[i][j] = Expected(batch[i], GapOf(prompts[i]), j)
    BY <1>3, <1>6 DEF RightFor
  <2>2. Expected(batch[i], GapOf(prompts[i]), j) =
          [of |-> generated[i].answer[j], context |-> SeenByEngine(i, j)]
    BY <1>1, ExpectedIsSeen
  <2> QED BY <1>2, <2>1, <2>2
<1>8. \A i \in Rows : DOMAIN generated[i].answer = 1 .. Len(generated[i].answer)
  BY <1>1 DEF RowsPacked, Answered
<1>9. LogProbsAreOfTheirTokens'
  <2> SUFFICES ASSUME NEW i \in Rows, NEW j \in DOMAIN generated[i].answer
               PROVE  old_log_probs'[i][j] =
                        [of |-> generated[i].answer[j], context |-> SeenByEngine(i, j)]
    BY <1>1 DEF LogProbsAreOfTheirTokens, SeenByEngine
  <2> QED BY <1>7, <1>8
<1>10. PromptsTaken' /\ RowsPacked' /\ ScoresAre({"reward"})'
  BY <1>1, PreparedAgain, PackedAgain DEF ScoresAre, ScoresOf
<1> QED BY <1>1, <1>9, <1>10 DEF RowsInv

\* Steps that change nothing keep the invariant.
LEMMA RowsInvStutters ==
  ASSUME RowsInv, UNCHANGED rows_vars PROVE RowsInv'
<1>1. /\ setting' = setting /\ progress' = progress /\ prompts' = prompts /\ batch' = batch
      /\ generated' = generated /\ token_counts' = token_counts
      /\ token_level_scores' = token_level_scores /\ old_log_probs' = old_log_probs
  BY DEF rows_vars
<1>2. /\ PromptsTaken => PromptsTaken'
      /\ RowsPacked => RowsPacked'
  BY <1>1, PreparedAgain, PackedAgain
<1>3. RowsPrepared => RowsPrepared'
  <2>1. \A i \in Rows : PreprocessedRow(i, prompts[i])' = PreprocessedRow(i, prompts[i])
    BY <1>1, PreparedAgain
  <2> QED BY <1>1, <2>1 DEF RowsPrepared
<1>4. /\ ScoresAre({"reward"}) => ScoresAre({"reward"})'
      /\ ScoresAre({"reward", "invalid"}) => ScoresAre({"reward", "invalid"})'
  BY <1>1 DEF ScoresAre, ScoresOf
<1>5. LogProbsAreOfTheirTokens => LogProbsAreOfTheirTokens'
  BY <1>1 DEF LogProbsAreOfTheirTokens, SeenByEngine
<1> QED BY <1>1, <1>2, <1>3, <1>4, <1>5 DEF RowsInv

\* The invariant of the rows holds in every state: prompts are taken, rows are
\* what preprocessing and packing make of them, each in its place, scores are
\* on the last tokens, and log probabilities are those of their tokens.
THEOREM RowsInductive == RowsSpec => []RowsInv
<1>1. RowsInit => RowsInv
  BY DEF RowsInit, RowsInv, LogProbsAreOfTheirTokens
<1>2. RowsInv /\ [RowsNext]_rows_vars => RowsInv'
  BY PreprocessKeeps, GenerateKeeps, RewardKeeps, LogProbKeeps, PenaltyKeeps, RowsInvStutters
     DEF RowsNext
<1> QED BY <1>1, <1>2, PTL DEF RowsSpec

\* What is counted, rewarded and trained on is what the engine generated.
LEMMA RowsInvSuffices == RowsInv => RowsTrainAsGenerated
<1> SUFFICES ASSUME RowsInv PROVE RowsTrainAsGenerated
  OBVIOUS
<1>1. setting \in Settings /\ LogProbsAreOfTheirTokens
  BY DEF RowsInv
<1>2. MaskIsTheAnswer
  <2> SUFFICES ASSUME progress \notin {"prompts", "failed", "generate"}, NEW i \in Rows
               PROVE  LET n == Len(generated[i].answer)
                      IN  /\ ResponseMask(batch[i]) = Repeated(1, n) \o Repeated(0, ResponseLength - n)
                          /\ token_counts[i] = n
    BY DEF MaskIsTheAnswer
  <2>1. PromptsTaken /\ RowsPacked
    BY DEF RowsInv
  <2>2. token_counts[i] = Len(generated[i].answer)
    BY <2>1 DEF RowsPacked
  <2> QED BY <1>1, <2>1, <2>2, RowFacts
<1>3. ScoredWhereTheyEnd
  <2> SUFFICES ASSUME progress = "done", NEW i \in Rows, NEW j \in 1 .. ResponseLength
               PROVE  token_level_scores[i][j] =
                        IF j = Len(generated[i].answer) THEN {<<"reward", i>>, <<"invalid", i>>} ELSE {}
    BY DEF ScoredWhereTheyEnd
  <2>1. {"reward", "invalid"} \X {i} = {<<"reward", i>>, <<"invalid", i>>}
    OBVIOUS
  <2>2. ScoresAre({"reward", "invalid"})
    BY DEF RowsInv
  <2> QED BY <2>1, <2>2 DEF ScoresAre, ScoresOf
<1> QED BY <1>1, <1>2, <1>3 DEF RowsTrainAsGenerated

\* For every size of batch, world, prompt, answer and micro-batch, and every
\* setting: the mask and the count of tokens are those of the answer, every log
\* probability is of its own token in the context the engine chose it in, and
\* reward and penalty meet on the last token of the answer.
THEOREM TokensTrainAsGenerated == RowsSpec => []RowsTrainAsGenerated
<1>1. RowsInv => RowsTrainAsGenerated
  BY RowsInvSuffices
<1> QED BY <1>1, RowsInductive, PTL
=============================================================================
