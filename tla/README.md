# A TLA+ verification project for selective deliberation training

The repository trains language agents on ALFWorld with reinforcement learning
(a fork of verl-agent).  An agent may *deliberate*: call a `deep_think` tool, or
be asked by a gate, before it acts.  This directory models the parts of the
program whose correctness depends on the order in which many things happen,
checks the models with TLC on small instances, and proves some of the results
with TLAPS for all instances.  Line numbers are those of the files under `src/`.

## 1. The system

| Component | State it keeps | Operations | Interacts with |
|---|---|---|---|
| Selective-thinking rollout loop (`rollout_loop.py`, `selective_thinking_multi_turn_loop`) | per trajectory: done flag, rows, infos, reward, length, call and token counters | gate, deliberate, compose prompts, generate, intercept calls, step the games, evaluate, gather | calls the environment manager and the workers' generation; reads and writes the thinking states of the manager |
| Thinking states and parsing (`selective_thinking.py`, `projection.py`) | `TrajectoryDTState`: latest memo and its step, call count, cooldown flag | record a call, end the cooldown, parse responses, gates and memos | shared, by reference, between the loop and the manager |
| Environment managers (`env_manager.py`, `memory.py`, `base.py`, `envs.py`) | histories, current prompts, the games | reset, step, build prompts, judge success | called by the loop |
| Plain loop and dynamic sampling (`rollout_loop.py`, `utils.py`) | the lists of a try, and the merged ones | roll, filter groups, merge, gather | called by the trainer |
| Reward shaping (`ray_trainer.py`, `core_gigpo.py`) | two sliding windows that live as long as the trainer | step returns, padding of the batch, balancing, token penalty, DT-quality penalty | between rollout and advantage |
| Checkpoints and restarts (`ray_trainer.py`, `checkpoint_manager.py`, `fsdp_checkpoint_manager.py`) | directories, shards, `data.pt`, the tracker file; the step, the loader, the list of saved paths | save, rotate, track, resume, be killed | trainer and all ranks of all roles write the same directories |
| Calls on the data parallel workers (`protocol.py`, `decorator.py`, `seqlen_balancing.py`, `dp_actor.py`) | the rows of a rank, its micro-batches, gradients | pad, chunk, balance, forward, backward, step, put answers back in order, collect | collectives between ranks |
| Hybrid engine (`fsdp_workers.py`, `fsdp_vllm.py`, `vllm_rollout_spmd.py`) | weights of the actor and vLLM's copy, random states, sampling parameters, what is on the GPU | generate, log probabilities, update, save, load | called by the trainer, one call at a time |
| Token rows (`rollout_loop.py`, `torch_functional.py`, `dp_actor.py`, `ulysses.py`, `episode.py`) | ids, masks, positions, scores and log probabilities of every row | cut, pad, mask, share, pack, roll, slice, gather, unpack, score | everything between a prompt and the loss |
| Group advantages (`core_algos.py`, `core_gigpo.py`) | the batch and its advantages | fill up, balance, group by prompt and by state, compare | trainer |
| SGLang rollout (`sglang_rollout.py`, `schemas.py`) | requests of a batch, their messages and ids, sampling parameters, instances of tools | one asyncio task per request: ask the engine, run the calls of the answer, ask again | tasks share the parameters, the tools and the limiter |
| Tools (`search_tool.py`, `sandbox_fusion_tools.py`, `base_tool.py`) | instances per request; the pool's threads; the token bucket | create, execute, release; acquire, release a token | Ray actors, called by the tasks |
| Activation offloading (`activation_offload.py`) | groups of tensors, windows, buffers, three streams with events | commit a group forward or backward, copy, wait, let go | hooks around every layer |
| Servers of asynchronous rollouts, critic, Megatron, models, vendored packages, entry points | | | not modelled, section 8 |

The trainer is one thread (`RayPPOTrainer.fit`).  A step is: roll out, adjust and
balance the batch, recompute log probabilities, shape rewards, compute
advantages, update, and now and then save and validate.  Concurrency is in the
ranks of a worker group, which meet in collectives and share directories; in the
tasks of the SGLang rollout with the threads of its tools; and in the streams of a GPU.
Interleaving of another kind is in the batch, where trajectories deliberate,
act and end in different turns while several lists and counters are kept in
step by hand.  Failures are kills of the job, at any point, and writes that fail.

What is hard, and what makes each part correct:

- **Rollout.**  A row, an info, a reward, a token count and a verdict are recorded
  in five lists by different code, with different rules for gate rows, rows of
  calls and finished trajectories.  They must tell one story.  A call costs a
  turn; a trajectory may not call twice without acting; a rollout must end.
- **Dynamic sampling.**  Six lists are filtered and merged one by one over several
  tries.  They must stay aligned and groups must stay whole.
- **Shaping.**  A penalty is put on "the last row of the trajectory" of a batch that
  has been padded with copies and reordered.  It must be paid once.
- **Restarts.**  Whatever was interrupted, the tracked step must be loadable, and all
  parts of the state must resume as of the same step.
- **Worker calls.**  Answers must come back for the rows they were asked for, through
  padding, dealing out, splitting by tokens and reordering; no rank may wait for
  ever; an update must weigh rows alike, whatever the sizes of the pieces.
- **Token rows.**  A prompt is cut by two pieces of code, and the tokens of a row are found
  by four rules.  One index that is off by one pairs a token with the number,
  the context or the reward of another.
- **Group advantages.**  A row must be compared with the rows of its prompt (and of
  its state), and with no others, wherever copies and reordering have put them.
- **SGLang rollout and tools.**  Requests are suspended while others run: what they share
  must be as they left it, tools must live as long as their request, tokens of the
  limiter must come back when a call or a batch fails, and a batch must return.
- **Activation offloading.**  A buffer may be overwritten, and memory let go, only after
  copies on another stream are done; at most two groups may be on the GPU.
- **Hybrid engine.**  Two copies of the weights, two random streams on one
  generator, one object of sampling parameters and one GPU memory are handed back
  and forth between training and generation.

PROJECT.json lists these as hazards, each at its line, with the properties that
cover it.

## 2. Modules

| Module | Models | Read it for |
|---|---|---|
| `SelectiveThinking` | parsers, `TrajectoryDTState`, prompt builders | classes of responses, gates and memos; `RecordDeepThink`, `ConsumeDTBlock` |
| `AlfWorldManager` | the selective manager, its memory, the games | `ResetGames`, `RenewStates`, `RebuildPrompts`, `ManagerStep`, `BuildTextObs` |
| `SelectiveRollout` | the loop, one action per phase, composed with the two above | `Reset`, `Renew`, `Rebuild`, `Begin`, `Gate`, `Deliberate`, `Compose`, `Generate`, `Intercept`, `StepEnvs`, `Evaluate`, `Gather` |
| `EpisodeProtocol` | abstract: what a rollout promises the trainer | `Deliberate(S)`, `Act(A, E, W)`, `Deliver` |
| `VanillaRollout`, `MultiTurnLoop` | `vanilla_multi_turn_loop`; `multi_turn_loop`, `dynamic_multi_turn_loop`, `filter_group_data`, `gather_rollout_data` | `Try`, `Keep`, `Merge` |
| `RewardShaping` | from the gathered batch to both penalties | `AdjustBatch`, `BalanceBatch`, `TokenPenalty`, `DtQuality` |
| `FSDPCheckpointManager`, `TrainerRestart` | managers of all ranks; `fit` as far as it touches the disk | `RotateAndMkdir`, `WriteShard`, `RememberPath`; `Launch`, `Train`, `OpenTracker`, `WriteTracker`, `Crash` |
| `DurableTraining` | abstract: a training that is killed and relaunched | `Start`, `Advance`, `Commit`, `Stop` |
| `DataProto`, `SeqlenBalancing`, `WorkerGroupCalls` | padding and dispatch; the differencing method; the calls `generate_sequences`, `compute_log_prob` and `update_actor` on all ranks | `MergeStep`, `AllReduce`, `EndForward`, `OptimizerStep` |
| `HybridEngine` | one worker through the calls of `fit` | `Enter`, `WakeUp`, `WakeCache`, `BeginGenerate`, `Exit`, `Pass` |
| `TokenRows` | tokens of a batch, from prompts to what is trained on | `PreprocessedRow`, `Packed`, `PackedLogProbs`, `ComputeReward` |
| `GroupAdvantages` | `compute_advantage` for GRPO, pass@k, RLOO, GiGPO with both kinds of step groups | `OfPrompt`, `Clusters`, `Rloo`, `Gigpo` |
| `TokenBucket` | the Ray actor of the rate limiter with its threads, and the pools of the tools | `Start`, `Acquire`, `Return`, `Release` |
| `AsyncRolloutRequest`, `SGLangRollout` | a request and its ids; the tasks of a batch, composed with both and with the tools | `AddAssistantMessage`, `AddToolResponse`; `CallEngine`, `Answer`, `Respond`, `Finish` |
| `ActivationOffload` | the double buffer in both passes | `CommitForward`, `CommitBackward`, `SyncedAtCommit` |
| `...Properties` | the properties of the module it is named after | |
| `MC...` | definitions that give constants their values, where a `.cfg` cannot | |
| `SequenceLemmas` | lemmas about the operators of the library: `FlattenSeq`, concatenation, pieces, blocks of equal size, lists of sets, sums, sorting; `SplitBySize` and `Chunk` of `DataProto` | `FlattenCounts`, `FlattenBlocks`, `FlattenEnumerates`, `FlattenPieces`, `FlattenPlaces`, `ChunkPieces`, `ListExists`, `PlacesArrange` |
| `SelectiveRolloutProofs`, `GroupProofs` (estimators and dynamic sampling), `RewardShapingProofs`, `WorkerGroupCallsProofs`, `WorkerProofs` (engine, offloading and token rows), `TrainerRestartProofs`, `SGLangRolloutProofs` | theorems and proofs | |

Definitions named `Name_Variant` beside a definition `Name` are deliberate
mistakes; no action uses them.  Each shows that a property notices a plausible
bug in that definition.

### Correspondence and abstraction

- **Data.**  A response is the class of answers the parsers tell apart (a command, a
  tagged call, a call in an unclosed thinking block, ...); a generation is one
  token; a memo is the step it was written at, or blank; a game is external and
  answers any action with an observation, done and won.  A trajectory's rows
  keep exactly the fields some other code reads later.  The thinking mode is a
  variable that `Init` chooses and nothing changes.
- **Rollout.**  The loop is one thread, so an action is a phase over the whole
  batch.  `inplace_actions` and `text_actions` are one variable after
  `Intercept`, as in the code.  A reset is four steps, as in the code: the inherited one
  builds the first prompts with the states of the previous rollout (`env_manager.py:290`), the
  states are replaced, the prompts are built again, and the loop replaces the states once
  more.  The override of a call's outcome, the row, the
  info, the rewards and the bookkeeping are one action, `StepEnvs`, because the code
  does them in one pass of the loop body.
- **Restarts.**  Files outlive a crash, nothing else does.  A version of weights is
  the launch that computed them and the step they are of.  The truncation of the
  tracker by `open(..., "w")` and its write are two actions.  A role is saved
  on all ranks between two calls of the trainer; ranks interleave freely between
  barriers.
- **Reward shaping.**  Which copies are drawn and which row goes to which rank is
  any choice; the arithmetic of penalties is in units of `1 / WindowSize`, so that
  means over a window are exact.  The model runs both penalties and the step
  returns in every step; the program may have some switched off.
- **Worker calls.**  Rows are identified; token lengths are numbers.  A gradient is
  the list of rows behind it with the scale of their loss.  The collectives
  (all-reduce of the number of micro-batches, forward and backward passes of a
  sharded model, clipping) are points where a rank waits for all others.
- **Hybrid engine.**  Weights are the number of updates behind them; a random state is
  a stream and the draws made of it; sampling parameters are the group every kind
  of call sets and the group only greedy decoding sets.  vLLM itself is external:
  with room for one adapter (`max_loras` is 1) a new one takes the place of
  the last, and sleeping at level 1 keeps weights.  Adapter ids, taken from the
  clock, are assumed distinct.
- **Token rows.**  A token is its row and its place; a log probability is the token it is of
  and the context (tokens with positions) the model saw.  Nothing here is concurrent: the
  steps follow each other, and the state space is that of lengths and layouts.
  Attention over a packed sequence is external: it starts anew at position 0.  The length
  limit of vLLM is its default, prompt plus response; with a smaller one an answer
  may end early without an end token, and the mask then covers padding too.
- **Group advantages.**  A row has the sum of its token rewards, which is its episode's reward,
  and the return of its step, two independent numbers, as the two parts of GiGPO read two
  tensors (`core_gigpo.py:209`, `:355`); advantages are fractions, and the step part has the
  weight one.  The division by a standard deviation, which is positive, is left out.
- **SGLang rollout.**  A step is what an asyncio task does between two awaits.  Tokens are told
  apart by what they are part of (template, prompt, answer, result of a tool).
  The engine and the services answer anything.  `TokenBucket` has the limiter as a Ray actor
  with one thread for `acquire`, which may block, and others for `release`.
- **Activation offloading.**  The tensors of a group go together.  A stream knows the events
  that come before its next one; `wait_stream` hands on what the other stream knows.

## 3. Runs

All runs use at most two workers and end within about three minutes.

| Run | Question | Instance | States |
|---|---|---|---|
| `rollout_safety` | Do cooldown, counters, rows, prompts, infos and verdicts agree in both modes, does the loop implement `EpisodeProtocol`, and does every rollout end? | 2 games, 3 turns, 2 rollouts, both modes, every class of response and memo of the mode | 435,328 |
| `dynamic_sampling` | Do the lists stay aligned, groups whole, and does sampling stop when and only when it should? | 2 groups of 2, 2 turns, 2 tasks, 2 tries; a validation batch of 3 | 149,932 |
| `reward_shaping` | Is each penalty paid exactly once, and do windows see episodes, not rows? | 2 trajectories of up to 2 rows, padded to 6, 2 ranks, 2 steps | 864,769 |
| `group_advantages` | Are rows compared with those of their prompt and state, whatever the copies and the order? | 3 trajectories of 2 prompts, up to 4 rows, 2 ranks, 5 estimators | 1,231,441 |
| `token_rows` | Is what the engine generated what is counted, rewarded and trained on, token by token? | 4 rows on 2 ranks, 7 settings of truncation, packing and parallelism | 163,222 |
| `checkpoints_restart` | Is the tracked checkpoint whole, are all parts resumed as of one step, does rotation keep what it counts, is it `DurableTraining`, and does training complete? | an actor with an adapter and a critic with shards, 3 ranks, 2 kept, 5 steps, 4 launches, kills anywhere | 35,322 |
| `worker_group_calls` | Do answers come back aligned, does every call return, do updates weigh rows alike, does the differencing method stay sound in every merge? | 2 ranks, every batch of up to 6 rows of 1 to 3 tokens, 2 epochs | 756,121 |
| `hybrid_engine` | Are the weights, streams, sampling parameters and memory of a worker what each call needs? | 40 configurations, 2 launches of 3 steps, 2 turns | 1,608,442 |
| `tool_requests` | Are tokens of the limiter conserved, is what is trained what was shown and generated, do tools live with their request, does every batch end? | 1 prompt, 2 samples, 2 turns, 2 tools, 1 token of the limiter | 828,523 |
| `activation_offload` | Are at most two groups on the GPU, and do the streams order every copy, freeing and reading? | 6 layers, 2 micro-batches, any groups without tensors | 883 |
| `fresh_memo_violation` | Does the action that follows a gated deliberation see its memo?  It does not. | 1 game | |
| `sampling_params` | Are the shared sampling parameters back when a batch returns?  They are not. | 2 prompts without tools | |

Deadlock checking is off in every run: each of these programs stops (a rollout has
been handed over, the training is complete, the call has returned).  That they
stop only there is what `RolloutEnds`, `TrainingCompletes`, `CallsReturn` and `BatchEnds`
check.

### Bounds, and why they suffice

- *Two games, three turns* let one trajectory end, be in its cooldown or call again
  while the other plays on; three turns are the shortest rollout with a call, the
  cooldown and a second call; two rollouts let state leak from one to the
  next.  `EnvLimit` equals `MaxSteps`: the least limit of a game that never cuts a rollout
  short.  The games of the repository's configuration end at 50 steps and the scripts play 24 or
  30, so that `EnvLimit >= MaxSteps` holds of them (section 7 has the case below).
- *Two tries of two groups* are the least with a filtered and an unfiltered try;
  a validation batch of another size than the training batch shows sizes mixed
  up.
- *A divisor of six* with two to four rows reaches padding by more than a
  remainder, by drawing without replacement.  Two steps make windows of two
  move on.
- *Two kept checkpoints, a save every second step, four launches* reach rotation in a
  launch that resumed, and a kill between every two steps of a save.  Three ranks
  let one lag behind while two others are at different steps.
- *Six rows on two ranks* give shares of three: the smallest size at which the
  reordering by micro-batches is not its own inverse.  One to three tokens, at most
  four in a micro-batch, give different numbers of micro-batches on the ranks.
- *Three trajectories in groups of two* leave a group of one; four rows on two ranks give
  copies that share a group with their original.  Three observations, of which
  neighbours resemble each other, make similarity fail to be transitive.  Two rewards and two
  returns of other differences make every order of two rows in one, the other or both, and tell
  the two tensors apart.
- *Prompts of one, three and four tokens with a limit of three* are padded, fit and are cut;
  a limit of three makes the halves of a middle cut unequal.  Answers of up to two
  tokens end by themselves or are cut off.  Micro-batches of three split four
  rows unevenly, and two rows with odd sums of tokens need padding to be sliced.
- *Prompts of two and of four tokens with a limit of two*: the first just fits, the second is
  cut within a message, behind the closing of one or behind the opening of one.  Answers of up to six and a model length of twelve let a second answer fit, be
  cut off or have no room.  Two
  samples with up to two calls each want one token from one thread of either pool.
- *Six layers* are two more than are on the GPU at any time at both ends of a pass.
- *Two turns* make generations repeat with old weights, *three steps* put validations,
  saves and updates in every order between them, *two launches* resume.

`MaxLaunches`, `Rollouts`, `MaxCalls`, `LastStep`, `Passes`, `MaxRows`, the `MaxTurns` and
`MaxSteps` of `HybridEngine` and the `MaxSteps` of `RewardShaping` only bound exploration.
`MaxSteps` of
`SelectiveRollout` is the program's own parameter.

### Fairness

- The rollout loop is a thread without locks: weak fairness of its next step once it
  was called (generations and games answer); whether the trainer calls it again is up to it.
- `Running` (a live launch goes on) is weakly fair, and `Launch` is in the state
  "down": somebody restarts a job that was killed.  Kills are not fair, and
  bounded by `MaxLaunches`, that is, one launch is finally left alone.
- A rank that is not waiting in a collective proceeds: weak fairness of `Next`
  in `WorkerGroupCalls`.  A rank that waits for one that never comes is what
  `CallsReturn` would find.
- The event loop runs a task that is ready, the engine and the services answer or time out,
  threads go on: weak fairness of `Next` in `SGLangRollout`.
- No other module has a liveness property, or states fairness.

## 4. Properties in brief

Safety of the rollout: `CallsAreSpaced` (a call is never in the turn after a call),
`CountersMatchRows` (five counters against the rows), `CallRowsAreNeutral` (a call
never ends, rewards or invalidates), `VerdictMatchesReward` (pairing by
counting; `RowsMatchInfos` is a part of it), `PromptsTellTheTruth`, `SteeredByOwnCalls`
(in every turn the system prompt and the guidance follow from the calls of this rollout, one
and two turns back), `FinishedIsFrozen` (an action property).  `ImplementsProtocol` is the refinement:
a gate's deliberation and a tool call map to `Deliberate`, a step of the games
to `Act`, the rest to stuttering, `Gather` to `Deliver`.

Dynamic sampling: `ListsAligned`, `GroupsComplete`, `SamplingEndsWell` (only the last try
adds groups that teach nothing; there are enough trajectories, and never two batches of
them).  Shaping: `NothingLost`, `ReturnsAreOfTheTurn`, `PenaltiesPaidOnce`,
`WindowsSeeEpisodes`.  Advantages: `StepGroupsAreOfOneState`, `AdvantagesAreRelative`
(the advantages of a prompt add up to nothing; those of GRPO and RLOO are in the order of its
rewards, those of GiGPO in that of rewards and returns within a step group, and of rewards
alone where the returns are the means of their step groups; and where the balancing puts the
rows changes none, but for groups of similar observations).
Token rows: `RowsTrainAsGenerated`, in three parts: the mask is the answer and is what is
counted; a log probability is of its token in the context the engine was shown;
reward and penalty meet on the last token.
Restarts: `TrackedIsWhole`, `KeptPathsIntact`, `PartsInStep`,
`ImplementsDurableTraining`, `TrainingCompletes`.  Calls: `AnswersAligned`,
`PartitionsAreExact` (rows and micro-batches, none lost, none twice), `SpreadNeverGrows`,
`UpdatesWeighRowsAlike`, `CallsReturn`.  Engine: `GeneratesWithActorWeights`,
`StreamsContinue`, `SamplingAsAsked`, `GpuIsShared`.  SGLang rollout: `TokensAreConserved`,
`TrainedAsShown` (the ids are what is kept of the prompt and the messages after it, and the
loss is over what the assistant says),
`ToolsLiveWithTheirRequest`, `BatchEnds` (a batch ends, and fails only for what comes from
outside).  Offloading: `AtMostTwoGroups`, `StreamsKeepOrder`.

## 5. What is proved

`SelectiveRolloutProofs` (assumptions: the named ones of the modules: positive batch
size and step limit, a known mode, choices among the classes):

- `TypeCorrect`: `Spec => []TypeOK`.
- `CooldownHolds`: `Spec => []CallsAreSpaced`.
- `Inductive`: `Spec => []IInv`.  `CallsAreSpaced` speaks of rows, but what prevents
  a second call is the flag `just_called_dt`, which is set in `Intercept`, before the
  row exists, and cleared in `StepEnvs`, after the row of the next action.  `IInv`
  bridges them: which phases a mode goes through (`PhaseInv`); that histories, games,
  rows and infos advance in lock step with the clock (`LockStepInv`), without
  which the verdict's indices are not defined; that the last row is a call only
  while the flag is set (`CooldownInv`); and that every turn of a running
  trajectory was an action or a call (`BudgetInv`).

The report, in the same module (where said, with `EnvLimit >= MaxSteps`, as in
the scripts; section 7 says what happens otherwise):

- `BooksKept`: `Spec => []BooksInv`.  The report is made of lists and counters that code in
  different phases writes, so the invariant says, for every phase, how far each of them is
  behind the rows: `LedgerInv` the counters while tokens are charged and the row is not
  there yet; `PairingInv` which info belongs to which row, gate rows left out; `PromptInv`
  what the prompt says of a memo that is older than its flag; `SteeringInv` that the
  flag of a trajectory is of its last row, and the gate of a turn its last row.
- `CountersCount`, `RowsAndInfosPaired`, `CallsNeutral`, `OwnCallsSteer`,
  `PromptsTruthful`: the properties of the run, from it.
- `FullInductive` and `VerdictsAgree` (with `EnvLimit >= MaxSteps`): `VerdictInv` adds that a
  trajectory is rewarded exactly when its game was won, that one in play has a game in play,
  and that the info of the last row `success_evaluator` looks at says so.  The
  assumption is needed: a call that plays the last noop of a game would have its done
  overridden, and the loop would play on with a game that is over.
- `Frozen`: `Spec => FinishedIsFrozen`, an action property.
- `ProtocolImplemented` (with `EnvLimit >= MaxSteps`): `Spec => ImplementsProtocol`.  Gates, calls and
  steps of the games are matched with `Deliberate` and `Act`, the report with `Deliver`;
  that the report counts what the protocol counts is `FullInv`.

`GroupProofs`, the estimators (assumptions: rewards are integers, at least one observation, every
observation is similar to itself, at least one trajectory, one for a prompt, and one rank):

- `AdvantagesInductive`: `AdvantageSpec => []AdvantagesInv`.  The invariant is short: rows keep their
  fields when they are copied and moved, the advantages are those of the rows as they stand, and
  for pass@k every prompt has a second row.  What is hard is what the estimators compute.
- `GroupsAreOfOneState`: `[]StepGroupsAreOfOneState`.  `ClustersInv` follows the inner loop of
  `build_step_group` row by row: the rows of a cluster resemble its founder, and *no* founder of an
  earlier cluster.  The second half is what keeps equal rows together although similarity is
  neither symmetric nor transitive: they resemble the same founders, so the first is the same.
- `AdvantagesCompareRows`: `[]AdvantagesAreRelative`.  That advantages add up to nothing is a
  statement about sums of fractions in an order `CHOOSE` picks: `FoldIsSum` shows that the order does
  not matter, `FractionSum` goes to a common denominator.  For GiGPO the sizes of the step groups differ
  from row to row; `CommonMultiple` gives one for all, and `GroupsCancel` takes step groups out of the
  prompt one after another, since each adds up to nothing on its own.  That places do not matter is
  `PlacesRearrange` (a balancing is a permutation, from the lists of the ranks), `MovedRows` (sizes and
  totals move along), and for pass@k `MovedPassk`: the leader is the first of the best rows and may be
  another row after moving, but then there are two best rows and its margin is nothing.

`GroupProofs`, dynamic sampling (assumptions: positive sizes of groups and batches, of the limits;
nothing about the games):

- `SamplingInductive`: `Spec => []SamplingInv`.  `VanillaInv` describes the batch in play: the
  rows of an episode are active exactly up to its length, the last of these has the reward,
  and the info of that turn says won.  That is why the verdict, taken from the last active
  row, agrees with the reward, although games go on being stepped.  `ListsInv` says the
  same of the merged trajectories, list by list, without the batch they came from, and
  `ToolsInv` that the tool calls, the sixth list, are as many;
  `GroupsInv` that they come in blocks of `GroupSize` with different uids, and that all
  blocks but those of the last try differ in reward; `EnoughInv` that a try only begins
  below the target, so that one try cannot lead beyond twice the target, and that the
  last one, taken whole, reaches it.
- `ListsStayAligned`, `GroupsStayComplete`, `SamplingEnds`: the three properties of the run.
- What `filter_group_data` keeps, and what `gather_rollout_data` hands over, is computed with
  `FlattenSeq`, a recursive function of the library.  `SequenceLemmas` proves what it
  does by induction up to a bound, through the least number for which a set fails
  (`LeastExists`, from well-foundedness): concatenating any list of sequences puts as many
  elements of each tag into the result as the sequence of that tag has (`FlattenCounts`);
  sequences of one size or none end up in blocks in their order (`FlattenBlocks`).

`RewardShapingProofs` (assumptions: positive numbers of trajectories, rows, ranks, a divisor that the ranks divide and a
positive window; nothing about which rows are copied or which rank gets them):

- `ShapingInductive`: `Spec => []ShapingInv`.  Behind the rollout the rows are found by `traj_uid` only,
  so the invariant keeps what a row says of its episode (`TruthInv`).  `OnceInv` and
  `OrderInv` say that the rows of a rollout are the turns of its trajectories, each once and in
  order.  Both end where copying and balancing begin, and are needed until there: the
  returns are sums over the rows behind a row, and are the return of its turn only in that
  order; and that no turn is there more than twice afterwards is that it was there once before.
- `RowsSurvive`: `Spec => []NothingLost`.  Copies are drawn without replacement, so a row gains at most
  one; `ToAddFits` is the arithmetic of the divisor.  Dealing rows to ranks and listing them by rank
  is a permutation (`DealingReorders`, from `FlattenRises`), whatever the ranks.
- `ReturnsOfTheTurn`, `PaidOnce`: the two properties.  The verdicts, the calls and the order of the uids are
  three lists that the code aligns by position.  `FirstRowsFind` says that each trajectory has one first row,
  `WonArrayAligned` that the lists made from these rows name every trajectory once;
  hence `PenalisedRows`: the penalty is on the last rows of the won trajectories, of which each has one.
- `WindowsMove`: `Spec => WindowsSeeEpisodes`, an action property: what the deque gains and loses
  (`WindowSlides`), and that it gains the won trajectories in some order (`WonCalls`).

`WorkerGroupCallsProofs` (assumptions: sizes are positive, `MicroBatchSize` divides `MiniBatchSize` and
`MaxTokenLen` is no less than any length, both as the code asserts):

- `CallsInductive`: `Spec => []CallsInv`, in two layers.  `Conserving` is about rows and heaps: the
  batch is a permutation of the rows (`Inputs`), a heap shares the rows of its batch among its
  states (`IsHeap`), whose buckets are sorted by weight (`IsState`), and, what the assertion of
  `_check_and_sort_partitions` that no partition is empty rests on, are filled one row each before any
  gets a second one (`Filled`).  `Working` is about ranks: each is at a batch of its plan
  (`Follows`), its micro-batches share that batch (`Splits`), it has returned or accumulated
  exactly the micro-batches it has done (`Passes`, `Graded`), and ranks agree on how far they
  are (`InStep`) and on the number of micro-batches (`Agreement`).
- `InStep` compares ranks by what they will have left behind a clipped step, since one of them
  may have gone on to its next mini-batch when another has not stepped yet.  `Agreement` is
  needed because `count` of a rank is its own until the `all_reduce`.
- `RowsSplitExactly`, `AnswersComeBack`, `RowsWeighAlike`: the three invariants of the run, from it.
  The chain behind the second is `PaddedRows`, `ChunkPieces`, `SplitPieces`, `PartitionsShare`
  and `ReverseRestores`, each for sequences of any length.
- `SpreadStaysBounded`: `Spec => SpreadNeverGrows`, an action property.  `MergedSpread`: with both states
  sorted and merged in opposite order, the spread of the result is at most the larger of the two;
  which two are popped does not matter for it.
- `Sorted` gives an element the place that counts those not behind it; `PlacesArrange` proves that this
  arranges any total order, which is what sorting by tokens, by the rows themselves and by length rest on.

`WorkerProofs`, the hybrid engine (assumption: the bounds are natural numbers):

- `Inductive`: `Spec => []EngineInv`, for every configuration.  `EngineInv` adds to
  each property what holds at the other points of a call: `WeightsInv` that
  `base_sync_done`, `first_call` and what vLLM has go together on both paths;
  `StreamsInv` where each stream is parked, in the checkpoint too; `GpuInv` who is
  on the GPU between loading and offloading; `StageInv` which call belongs to which
  stage of `fit`.
- `CurrentWeights`, `StreamsApart`, `SamplingCorrect`, `GpuHandedOver`: the four
  properties of the run, from it.  `CurrentWeights` excepts one generation, the first of a
  launch with an adapter and a vLLM without weights, resumed or not: it gets the base
  model, as the code has it (section 7).

`TrainerRestartProofs` (assumptions: those of the modules, and `Setting`: the
limit of kept checkpoints is not 1, a failing write is not passed over, launches
resume.  Section 7 says what happens without the first two):

- `RestartInductive`: `Spec => []RestartInv`, for any number of ranks, roles, steps and
  launches, and kills at any status (`CrashPoints` is not restricted).  The argument has
  two halves.  A new checkpoint is only ever written ahead of the tracked step
  (`TrackerInv`), and the tracker is written only behind the barriers of every role and
  the loader's state (`SaveInv`: who has written what in the save under way), so
  what it comes to name is whole.  And rotation cannot take away what it names:
  remembered directories are increasing, none is newer than the tracked one but the
  one being saved (`PathsInv`), and at least one directory behind every removed one
  stays.  `PartsInv` carries the step of weights and loader through a launch;
  `BoundInv` bounds the steps by the launches.
- `TrackedStaysWhole` and `PartsStayInStep`: the two properties, from it.

- `DurableInductive` and `DurableTrainingImplemented` (also `SaveFreq > 0`): `Spec =>
  ImplementsDurableTraining`.  A step of the abstract training is committed when the tracker
  has its name.  `DueInv` says that no step that was to be saved is missing between the
  tracked one and the current one, so that a launch that resumes starts where the
  abstract one does; `DownInv` that a dead launch holds nothing.
- `KeptInductive` and `KeptStayIntact`: `Spec => []KeptPathsIntact`.  Every rank rotates on its own
  list, between the same barriers.  `KeptInv` says, per role, what each rank keeps now or will
  when it comes to rotate (`KeptBy`), that these are the same, whole and in order, and
  that what this launch wrote and is still there is among them.

`SGLangRolloutProofs` (assumptions: finitely many calls, at least one thread and one token;
natural sizes, prompts that are not empty; a context that holds a prompt and a response, as
`_verify_config` demands):

- `LimiterConserves`: `BucketSpec => []TokensAreConserved`, for any number of calls, pools,
  threads and tokens.  The invariant is the property with the types of the variables.  A
  set of calls that is submitted or taken is arbitrary in the lemmas, so that nothing
  needs to be known of the requests.
- `RolloutImplementsBucket`: `Spec => BucketSpec` of the module `TokenBucket`.  Every step of the rollout leaves the
  limiter alone or is one of its actions.  `RolloutConserves` follows from both.
- `RolloutKeepsItsRequests`: `Spec => []RolloutInv`.  Its parts, for every request by the place
  (`at`) it has reached: `Formed`, its fields and the calls it waits for; `Worded`, what its ids are
  (what is kept of the prompt and the messages told after it, whole or all but the last opening or
  closing; a prompt that was cut within a message, `Severed`, which never gets an answer, since the
  worker refuses ids that end so; one that was cut behind a closing or an opening goes on); `Passing`, what the worker checks itself, so that these checks
  never fail; and across requests which instances there are (`Alive`), whose calls are
  under way (`UnderWay`), and how many results an instance has that no message tells yet (`CountFor`).
- The step that matters is that ids put together message by message stay those of the list
  of messages rendered anew.  `AssistantTells` says it of an answer, `ToolTells` of the response
  of a tool, after any messages; for `qwen` a response joins the turn of the one before and leaves it
  open, so that what is told is the rendered list but for its closing.  `ResponsesTell`
  takes all responses of a turn, by induction on their number.
- `RolloutTrainsAsShown`, `RolloutToolsLive`: the two properties of the run, from it.
- `RolloutFailsFromOutside`: `Spec => []FailsFromOutside`, the safety half of `BatchEnds`.

`WorkerProofs`, activation offloading (assumption: at least three layers, as
`enable_activation_offloading` demands):

- `TwoGroups`: `OffloadSpec => []AtMostTwoGroups`, for any number of layers and passes.  `Control`
  says at every commit which group is where and that the counter of offloaded groups is one
  behind the current group, but for the first.
- `StreamsOrdered`: `OffloadSpec => []StreamsKeepOrder`.  `Order` adds what each stream knows of the
  groups it will touch next (`ForwardKnown`, `BackwardKnown`) and that the past does not
  change (`Past`).

`WorkerProofs`, token rows (assumptions: sizes are positive, the ranks divide the batch, the
groups of a setting divide the ranks, and sequence parallelism comes with the removal of padding,
as the code asserts or refuses otherwise):

- `RowsInductive`: `RowsSpec => []RowsInv`.  The invariant says which prompts were taken, that row `i` of
  the batch is what preprocessing, and later packing, make of prompt `i` and answer `i`
  (`RowsPrepared`, `RowsPacked`), which terms its last token has (`ScoresAre`), and what its log
  probabilities are.  Nothing in it speaks of ranks, slices or micro-batches: that they leave no
  trace is what has to be proved of each step.
- `TokensTrainAsGenerated`: `RowsSpec => []RowsTrainAsGenerated`, for every size of batch, world, prompts,
  answers and micro-batches.  Three chains lead there.  A row: however a prompt is cut
  (`KeptPrompt`), prompt and answer come to lie next to each other, unmasked and counted from 0
  (`PackedRow`, `Shape`), and the mask found by looking for the end of the answer is the answer
  (`PaddedAnswer`).  A pass: of packed rows `ContextOfRow` finds each its own context, because a
  row and only a row starts at position 0; the label that rolling takes from the next row is never
  one of an answer (`PackedRight`), and slices gathered from ranks are the sequence again
  (`SlicesTogether`).  Ranks: each works on all rows of its group and hands back its own, which end
  where they began (`SharedRows`, `HandedBackInPlace`), for tensor and for sequence parallelism.

## 6. What is only model-checked

- Liveness (`RolloutEnds`, `TrainingCompletes`, `CallsReturn`, and of `BatchEnds` that every batch
  ends): fairness and `ENABLED` are outside the prover's reach.

## 7. Divergences met while modelling

Two are shown by runs (PROJECT.json "findings"): the memo that does not reach the
action it was written for, and the sampling parameters that concurrent requests of
the SGLang rollout leave behind (`sglang_rollout.py:414`, against the docstring at
`:391`): a request that enters second saves the temporary values of the first, and
restores them last.  The rest were read and are modelled as the code has them, or
left out as said:

- `rollout_loop.py:1005`: with dynamic sampling `total_output_tokens` is never assigned on the
  training branch, so that the call ends in `UnboundLocalError`, against the docstring (`:951`).
- `fsdp_checkpoint_manager.py:322`: with `max_ckpt_to_keep = 1` the only checkpoint is removed
  before the new one is written; a kill in between leaves none.  `:363`: when an
  adapter cannot be saved the exception is passed over and the tracker moves on.
- `core_algos.py:188`: pass@k speaks of responses, the code of rows: the best two
  rows of a prompt are mostly of one trajectory, or copies, and the advantage is zero.
  `:299`: RLOO leaves out a row, not a trajectory.  `core_gigpo.py:304`: groups of similar
  observations depend on the order of the rows.
- `rollout_loop.py:851`: the cooldown flag is cleared behind `envs.step`, which has
  already built the next prompt: in the second turn after a call the user prompt denies
  `deep_think` while the system prompt offers it.  `SteeredByOwnCalls` states both.
- `rollout_loop.py:632`: gate rows reach the trainer, against the docstring (:531);
  `:804`: a call plays `noop` in the game, against the docstring (:515).
- `rollout_loop.py:754`: a `deep_think` during the cooldown goes to the game as an action.
- `rollout_loop.py:817`: with `EnvLimit < MaxSteps`, a noop that hits the game's own limit
  has its done overridden and the loop plays on.
- Dynamic loop: the last try is unfiltered although the docstring says groups are
  filtered; an over-full batch is not truncated; `max_num_gen_batches = 0` and tries of
  a single task end in `ValueError` and `KeyError` (`MergeOutcome`).
- `ray_trainer.py:442`: penalties land on the last row in the order of the batch after
  padding and balancing, not on the last turn; the README (:104) speaks of calls that
  exceed the reference, the code penalises both sides.
- `ray_trainer.py:1253`: a kill between truncation and write of the tracker leaves an
  empty file, and every later launch fails until it is removed by hand.
  `checkpoint_manager.py:55`: checkpoints of earlier launches are never rotated out.  A
  launch after the end trains one more step.  The windows of the penalty
  controllers are not saved.
- `dp_actor.py:308`: with dynamic micro-batches log probabilities are put back in order,
  entropies are not.  `seqlen_balancing.py:251`: a micro-batch can exceed
  `max_token_len` (lengths 2, 3, 3 and a limit of 4 give 5), against its docstring.
- `activation_offload.py:35`: the key of a tensor is where its data begins and its type:
  two views that begin together, such as a tensor and its transpose, have one key.
  Only tensors that are saved once are modelled.
- `dp_critic.py:81` ends in an assignment without a right-hand side: the module does not parse,
  and no program with a critic can start.  `verl.models.transformers` lacks `dense_common`
  and `glm4v`, which the fused kernels import.
- `rollout_loop.py:928`: lists per task are filtered only when they cover the batch, and
  merging raises `KeyError` when the tries differ in tasks.
- `sglang_rollout.py:976`: a prompt that does not fit is cut in the ids, but `raw_prompt`, from
  which the messages are rendered for the engine, is not.  A cut behind a closing or an
  opening is accepted (`schemas.py:144`), and the request goes on: the engine is shown the whole
  prompt, and what is trained has the cut one before the answer.  `TrainedAsShown` says what the
  ids are in this case too (`Begun`).
- `schemas.py`: positions of appended tokens start from a wrong offset; the caller
  computes them anew, so that nothing comes of it.
- `async_server.py:174` pops a request that the LRU cache may have dropped, which raises
  `KeyError`; this trainer does not use the module.
- `vllm_rollout_spmd.py:232`: sampling parameters are put back without try/finally;
  `max_tokens` of a call is not taken from its `meta_info`, so the caps on gate
  and memo lengths do not apply.
- `fsdp_vllm.py:265`: in a launch with an adapter and a vLLM without weights the first
  generation gets the base model only, even when an adapter was loaded from a
  checkpoint; `GeneratesWithActorWeights` names this exception.  The scripts use
  `load_format=safetensors`, where it cannot happen.

## 8. Not modelled

- Managers of other environments (Search, Sokoban, WebShop, AppWorld, Gym cards): their
  packages are not in the repository.
- `apply_kl_penalty`, GAE, ReMax, both REINFORCE++ and the losses: arithmetic on real-valued
  tensors, without state and without a comparison of rows of a prompt.
- `compute_ref_log_prob` and `compute_rm_score` are dealt out, split and put back like
  `compute_log_prob`; the calls of the critic as well, which cannot start (section 7).
- Images (positions and slicing of vision tokens), fused kernels, the loss mask of
  multi-turn SGLang batches in `dp_actor.py`.
- SGLang without tools in one call, the tool for GSM8K (it runs nothing), execution
  without the global limit, the servers of asynchronous rollouts.
- The synchronous variant of activation offloading, and tensors saved more than once.
- Megatron (workers, loaders and savers of weights), the other dispatch modes and the
  set-up of worker groups.
- Resuming from a path, copying to a remote file system, deletion after loading.
- The ALFWorld package with its threads, models, patched copies of vLLM, entry points,
  supervised fine-tuning.

## 9. Plan

The order is that of importance; the first ten are done.

1. Rollout: `SelectiveThinking`, `AlfWorldManager`, `SelectiveRollout`, `EpisodeProtocol`,
   with the proofs of section 5.
2. Restarts: `FSDPCheckpointManager`, `TrainerRestart`, `DurableTraining`, with proofs.
3. Dynamic sampling: `VanillaRollout`, `MultiTurnLoop`.  Shaping: `RewardShaping`.
4. Worker calls: `DataProto`, `SeqlenBalancing`, `WorkerGroupCalls`, with updates.
5. Hybrid engine: `HybridEngine`, with its proofs.
6. SGLang rollout and tools: `TokenBucket`, `AsyncRolloutRequest`, `SGLangRollout`, with proofs.
7. Activation offloading: `ActivationOffload`, with its proofs.
8. Groups of the estimators: `GroupAdvantages`.
9. Tokens from prompts to losses, with groups of tensor and sequence parallelism: `TokenRows`.
10. Proofs: the report of the rollout, `FullInv` and the refinement of `EpisodeProtocol`; the kept
    checkpoints and the refinement of `DurableTraining`; dynamic sampling; the SGLang rollout;
    reward shaping; the worker calls with the differencing method; the groups of the estimators;
    the layouts of token rows.
11. Weights of Megatron: how shards are cut for tensor and pipeline parallelism and put
    together again.
