----------------------- MODULE SelectiveRolloutProofs ------------------------
(***************************************************************************)
(* Proofs about the selective-thinking rollout, for every batch size, step *)
(* limit and history length.  The first part proves how the loop goes on;  *)
(* the second that what a rollout reports is what happened: its counters   *)
(* count its rows, its infos are those of its turns, its prompts show the  *)
(* last memo, its verdict is its reward, and the loop implements the       *)
(* protocol of the trainer.                                                *)
(***************************************************************************)
EXTENDS SelectiveRolloutProperties, FiniteSetTheorems, WellFoundedInduction, TLAPS

-----------------------------------------------------------------------------
(* Lemmas about counting rows.                                               *)

(* The number of positions of rows that hold a row of S. *)
Tally(rows, S) == Cardinality({k \in DOMAIN rows : rows[k] \in S})

(* Appending a row counts it if it is one of S. *)
LEMMA TallyAppend ==
  ASSUME NEW rows \in Seq(Rows), NEW r \in Rows, NEW S
  PROVE  /\ Tally(rows, S) \in Nat
         /\ Tally(Append(rows, r), S) = Tally(rows, S) + (IF r \in S THEN 1 ELSE 0)
<1> DEFINE n == Len(rows)
           new == Append(rows, r)
           P(s) == {k \in DOMAIN s : s[k] \in S}
<1>1. /\ n \in Nat /\ DOMAIN rows = 1 .. n /\ DOMAIN new = 1 .. n + 1
      /\ new[n + 1] = r /\ \A k \in 1 .. n : new[k] = rows[k]
  OBVIOUS
<1>2. P(new) = IF r \in S THEN P(rows) \cup {n + 1} ELSE P(rows)
  BY <1>1
<1>3. n + 1 \notin P(rows) /\ P(rows) \subseteq 1 .. n
  BY <1>1
<1>4. IsFiniteSet(P(rows))
  <2>1. IsFiniteSet(1 .. n)
    BY <1>1, FS_Interval
  <2> QED BY <1>3, <2>1, FS_Subset
<1> HIDE DEF P
<1>5. Cardinality(P(rows) \cup {n + 1}) = Cardinality(P(rows)) + 1
  BY <1>3, <1>4, FS_AddElement
<1>6. Cardinality(P(rows)) \in Nat
  BY <1>4, FS_CardinalityType
<1>7. Tally(new, S) = Cardinality(P(new)) /\ Tally(rows, S) = Cardinality(P(rows))
  BY DEF Tally, P
<1> QED BY <1>2, <1>5, <1>6, <1>7

(* The counts of the counters are tallies. *)
LEMMA CountsAreTallies ==
  ASSUME NEW rows \in Seq(Rows)
  PROVE  /\ EnvRows(rows) = Tally(rows, {r \in Rows : EnvRow(r)})
         /\ ActiveTurns(rows) = Tally(rows, {r \in Rows : ActiveTurn(r)})
         /\ RealTurns(rows) = Tally(rows, {r \in Rows : RealTurn(r)})
         /\ GateSteps(rows) = Tally(rows, {r \in Rows : GateStep(r)})
         /\ Calls(rows) = Tally(rows, {r \in Rows : Call(r)})
         /\ Rewardings(rows) = Tally(rows, {r \in Rows : Rewarding(r)})
<1>1. \A k \in DOMAIN rows : rows[k] \in Rows
  OBVIOUS
<1>2. {k \in DOMAIN rows : EnvRow(rows[k])} = {k \in DOMAIN rows : rows[k] \in {r \in Rows : EnvRow(r)}}
  BY <1>1
<1>3. {k \in DOMAIN rows : ActiveTurn(rows[k])} = {k \in DOMAIN rows : rows[k] \in {r \in Rows : ActiveTurn(r)}}
  BY <1>1
<1>4. {k \in DOMAIN rows : RealTurn(rows[k])} = {k \in DOMAIN rows : rows[k] \in {r \in Rows : RealTurn(r)}}
  BY <1>1
<1>5. {k \in DOMAIN rows : GateStep(rows[k])} = {k \in DOMAIN rows : rows[k] \in {r \in Rows : GateStep(r)}}
  BY <1>1
<1>6. {k \in DOMAIN rows : Call(rows[k])} = {k \in DOMAIN rows : rows[k] \in {r \in Rows : Call(r)}}
  BY <1>1
<1>7. {k \in DOMAIN rows : Rewarding(rows[k])} = {k \in DOMAIN rows : rows[k] \in {r \in Rows : Rewarding(r)}}
  BY <1>1
<1> QED
  BY <1>2, <1>3, <1>4, <1>5, <1>6, <1>7
  DEF EnvRows, ActiveTurns, RealTurns, GateSteps, Calls, Rewardings, Count, Tally

(* What one more row does to the counts. *)
LEMMA CountsAppend ==
  ASSUME NEW rows \in Seq(Rows), NEW r \in Rows
  PROVE  /\ EnvRows(rows) \in Nat
         /\ ActiveTurns(rows) \in Nat
         /\ RealTurns(rows) \in Nat
         /\ GateSteps(rows) \in Nat
         /\ Calls(rows) \in Nat
         /\ Rewardings(rows) \in Nat
         /\ EnvRows(Append(rows, r)) = EnvRows(rows) + (IF EnvRow(r) THEN 1 ELSE 0)
         /\ ActiveTurns(Append(rows, r)) = ActiveTurns(rows) + (IF ActiveTurn(r) THEN 1 ELSE 0)
         /\ RealTurns(Append(rows, r)) = RealTurns(rows) + (IF RealTurn(r) THEN 1 ELSE 0)
         /\ GateSteps(Append(rows, r)) = GateSteps(rows) + (IF GateStep(r) THEN 1 ELSE 0)
         /\ Calls(Append(rows, r)) = Calls(rows) + (IF Call(r) THEN 1 ELSE 0)
         /\ Rewardings(Append(rows, r)) = Rewardings(rows) + (IF Rewarding(r) THEN 1 ELSE 0)
<1>1. Append(rows, r) \in Seq(Rows)
  OBVIOUS
<1>2. \A S : /\ Tally(rows, S) \in Nat
             /\ Tally(Append(rows, r), S) = Tally(rows, S) + (IF r \in S THEN 1 ELSE 0)
  BY TallyAppend
<1> HIDE DEF EnvRow, ActiveTurn, RealTurn, GateStep, Call, Rewarding
<1>3. /\ EnvRows(rows) \in Nat
      /\ EnvRows(Append(rows, r)) = EnvRows(rows) + (IF EnvRow(r) THEN 1 ELSE 0)
  BY <1>1, <1>2, CountsAreTallies
<1>4. /\ ActiveTurns(rows) \in Nat
      /\ ActiveTurns(Append(rows, r)) = ActiveTurns(rows) + (IF ActiveTurn(r) THEN 1 ELSE 0)
  BY <1>1, <1>2, CountsAreTallies
<1>5. /\ RealTurns(rows) \in Nat
      /\ RealTurns(Append(rows, r)) = RealTurns(rows) + (IF RealTurn(r) THEN 1 ELSE 0)
  BY <1>1, <1>2, CountsAreTallies
<1>6. /\ GateSteps(rows) \in Nat
      /\ GateSteps(Append(rows, r)) = GateSteps(rows) + (IF GateStep(r) THEN 1 ELSE 0)
  BY <1>1, <1>2, CountsAreTallies
<1>7. /\ Calls(rows) \in Nat
      /\ Calls(Append(rows, r)) = Calls(rows) + (IF Call(r) THEN 1 ELSE 0)
  BY <1>1, <1>2, CountsAreTallies
<1>8. /\ Rewardings(rows) \in Nat
      /\ Rewardings(Append(rows, r)) = Rewardings(rows) + (IF Rewarding(r) THEN 1 ELSE 0)
  BY <1>1, <1>2, CountsAreTallies
<1> QED BY <1>3, <1>4, <1>5, <1>6, <1>7, <1>8

(* Nothing is counted before the first row. *)
LEMMA CountsEmpty ==
  /\ EnvRows(<<>>) = 0 /\ ActiveTurns(<<>>) = 0 /\ RealTurns(<<>>) = 0
  /\ GateSteps(<<>>) = 0 /\ Calls(<<>>) = 0 /\ Rewardings(<<>>) = 0
<1>1. \A S : Tally(<<>>, S) = 0
  <2>1. DOMAIN <<>> = {}
    OBVIOUS
  <2> QED BY <2>1, FS_EmptySet DEF Tally
<1>2. <<>> \in Seq(Rows)
  OBVIOUS
<1> HIDE DEF EnvRow, ActiveTurn, RealTurn, GateStep, Call, Rewarding
<1> QED BY <1>1, <1>2, CountsAreTallies

(* A set of positions has a last one. *)
LEMMA LastPosition ==
  ASSUME NEW n \in Nat, NEW S \in SUBSET (1 .. n), S # {}
  PROVE  \E k \in S : \A l \in S : l <= k
<1> DEFINE D == {d \in 0 .. n : n - d \in S}
<1>1. D # {}
  <2>1. PICK k \in S : TRUE
    OBVIOUS
  <2>2. n - k \in 0 .. n /\ n - (n - k) = k
    OBVIOUS
  <2> QED BY <2>1, <2>2
<1>2. D \subseteq Nat
  OBVIOUS
<1>3. PICK d \in D : \A e \in D : ~(<<e, d>> \in OpToRel(<, Nat))
  BY <1>1, <1>2, NatLessThanWellFounded, WFMin
<1>4. \A e \in D : ~(e < d)
  BY <1>2, <1>3 DEF OpToRel
<1>5. n - d \in S
  OBVIOUS
<1>6. ASSUME NEW l \in S PROVE l <= n - d
  <2>1. n - l \in D
    OBVIOUS
  <2> QED BY <1>4, <2>1
<1> QED BY <1>5, <1>6

(* The turn of the last call is the one of a row that is a call, and stays   *)
(* what it was when a row that is none is appended.                          *)
LEMMA LastCallAppend ==
  ASSUME NEW rows \in Seq(Rows), NEW r \in Rows
  PROVE  LastCallTurn(Append(rows, r)) =
           IF Call(r) THEN EnvRows(rows) + 1 ELSE LastCallTurn(rows)
<1> DEFINE n == Len(rows)
           new == Append(rows, r)
           C(s) == {k \in DOMAIN s : Call(s[k])}
           L(s) == CHOOSE k \in C(s) : \A l \in C(s) : l <= k
<1>1. /\ LastCallTurn(new) =
           IF C(new) = {} THEN 0 ELSE EnvRows(SubSeq(new, 1, L(new) - 1)) + 1
      /\ LastCallTurn(rows) =
           IF C(rows) = {} THEN 0 ELSE EnvRows(SubSeq(rows, 1, L(rows) - 1)) + 1
  BY DEF LastCallTurn
<1>2. /\ n \in Nat /\ DOMAIN rows = 1 .. n /\ DOMAIN new = 1 .. n + 1
      /\ new[n + 1] = r /\ \A k \in 1 .. n : new[k] = rows[k]
  OBVIOUS
<1>3. CASE Call(r)
  <2>1. n + 1 \in C(new) /\ \A l \in C(new) : l <= n + 1
    BY <1>2, <1>3
  <2>2. C(new) \subseteq 1 .. n + 1
    BY <1>2
  <2> HIDE DEF C
  <2>3. \A k \in C(new) : (\A l \in C(new) : l <= k) => k = n + 1
    BY <1>2, <2>1, <2>2
  <2>4. L(new) = n + 1
    BY <2>1, <2>3
  <2> HIDE DEF L
  <2>5. SubSeq(new, 1, n) = rows
    BY <1>2
  <2> HIDE DEF new
  <2>6. L(new) - 1 = n
    BY <1>2, <2>4
  <2>7. LastCallTurn(new) = EnvRows(SubSeq(new, 1, n)) + 1
    BY <1>1, <2>1, <2>6
  <2> QED BY <1>3, <2>5, <2>7 DEF new
<1>4. CASE ~Call(r)
  <2>1. C(new) = C(rows) /\ C(rows) \in SUBSET (1 .. n)
    BY <1>2, <1>4
  <2>2. CASE C(rows) = {}
    <3> HIDE DEF C, L, new
    <3> QED BY <1>1, <1>4, <2>1, <2>2 DEF new
  <2>3. CASE C(rows) # {}
    <3> HIDE DEF C
    <3>1. L(rows) \in C(rows)
      BY <1>2, <2>1, <2>3, LastPosition
    <3>2. L(new) = L(rows)
      BY <2>1
    <3> HIDE DEF L
    <3>3. L(rows) \in 1 .. n
      BY <2>1, <3>1
    <3>4. SubSeq(new, 1, L(rows) - 1) = SubSeq(rows, 1, L(rows) - 1)
      BY <1>2, <3>3
    <3> HIDE DEF new
    <3> QED BY <1>1, <1>4, <2>1, <2>3, <3>2, <3>4 DEF new
  <2> QED BY <2>2, <2>3
<1> QED BY <1>3, <1>4

(* Before the first row there was no call. *)
LEMMA LastCallEmpty == LastCallTurn(<<>>) = 0
<1>1. {k \in DOMAIN <<>> : Call(<<>>[k])} = {}
  OBVIOUS
<1> QED BY <1>1 DEF LastCallTurn

(* The index of an info is the number of turns up to its row. *)
LEMMA InfoIndexCounts ==
  ASSUME NEW rows \in Seq(Rows), NEW k \in 0 .. Len(rows)
  PROVE  EnvRows(SubSeq(rows, 1, k)) = InfoIndex(rows, k)
<1>1. /\ DOMAIN SubSeq(rows, 1, k) = 1 .. k
      /\ \A l \in 1 .. k : SubSeq(rows, 1, k)[l] = rows[l]
  OBVIOUS
<1>2. {l \in DOMAIN SubSeq(rows, 1, k) : EnvRow(SubSeq(rows, 1, k)[l])} =
        {l \in 1 .. k : IsTurn(rows[l])}
  BY <1>1 DEF EnvRow, IsTurn
<1> QED BY <1>2 DEF EnvRows, Count, InfoIndex

(* The number of turns of a trajectory is the index of its last info. *)
LEMMA TurnsCounted ==
  ASSUME NEW rows \in Seq(Rows)
  PROVE  EnvRows(rows) = InfoIndex(rows, Len(rows))
<1>1. Len(rows) \in 0 .. Len(rows) /\ SubSeq(rows, 1, Len(rows)) = rows
  OBVIOUS
<1>2. EnvRows(SubSeq(rows, 1, Len(rows))) = InfoIndex(rows, Len(rows))
  BY <1>1, InfoIndexCounts
<1> QED BY <1>1, <1>2

-----------------------------------------------------------------------------
USE BatchSizeAssumption, ThinkingModesAssumption, HistoryLengthAssumption,
    MaxStepsAssumption, EnvLimitAssumption, ChoicesAssumption, RolloutsAssumption

-----------------------------------------------------------------------------
(* Lemmas about the operators of the model.                                  *)

(* Charging natural numbers leaves natural numbers. *)
LEMMA ChargeType ==
  ASSUME NEW tokens \in [Envs -> Nat], NEW S, NEW n \in Nat
  PROVE  Charge(tokens, S, n) \in [Envs -> Nat]
BY DEF Charge

(* Recording a call and ending a cooldown keep the type of a state. *)
LEMMA DTStateType ==
  /\ NewDTState \in DTState(MaxSteps)
  /\ \A s \in DTState(MaxSteps), mm \in Memos, k \in 0 .. MaxSteps :
       /\ RecordDeepThink(s, mm, k) \in DTState(MaxSteps)
       /\ RecordDeepThink(s, mm, k).dt_count = s.dt_count + 1
       /\ RecordDeepThink(s, mm, k).just_called_dt
  /\ \A s \in DTState(MaxSteps) :
       /\ ConsumeDTBlock(s) \in DTState(MaxSteps)
       /\ ConsumeDTBlock(s).dt_count = s.dt_count
       /\ ~ConsumeDTBlock(s).just_called_dt
<1>1. NewDTState \in DTState(MaxSteps)
  BY DEF NewDTState, DTState, Memos, Actions
<1>2. ASSUME NEW s \in DTState(MaxSteps), NEW mm \in Memos, NEW k \in 0 .. MaxSteps
      PROVE  /\ RecordDeepThink(s, mm, k) \in DTState(MaxSteps)
             /\ RecordDeepThink(s, mm, k).dt_count = s.dt_count + 1
             /\ RecordDeepThink(s, mm, k).just_called_dt
  BY DEF RecordDeepThink, DTState
<1>3. ASSUME NEW s \in DTState(MaxSteps)
      PROVE  /\ ConsumeDTBlock(s) \in DTState(MaxSteps)
             /\ ConsumeDTBlock(s).dt_count = s.dt_count
             /\ ~ConsumeDTBlock(s).just_called_dt
  BY DEF ConsumeDTBlock, DTState
<1> QED BY <1>1, <1>2, <1>3

(* A prompt of a history of at most MaxSteps commands is well typed. *)
LEMMA PromptType ==
  ASSUME NEW init \in BOOLEAN, NEW history \in Seq(Actions), Len(history) <= MaxSteps,
         NEW s \in DTState(MaxSteps)
  PROVE  BuildTextObs(init, history, s) \in Prompts(MaxSteps + 1)
<1>1. RenderMemoBlock(s) \in 0 .. MaxSteps + 1
  BY DEF RenderMemoBlock, DTState
<1>2. s.just_called_dt \in BOOLEAN
  BY DEF DTState
<1>3. ASSUME NEW ini \in BOOLEAN, NEW c \in 1 .. MaxSteps + 1, NEW h \in 0 .. MaxSteps + 1,
             NEW sup \in BOOLEAN
      PROVE  BuildDTActionUser(ini, c, h, s, sup) \in Prompts(MaxSteps + 1)
  BY <1>1, <1>2 DEF BuildDTActionUser, Prompts, Guidances
<1>4. Len(history) \in Nat
  OBVIOUS
<1>5. (IF init THEN 1 ELSE Len(history) + 1) \in 1 .. MaxSteps + 1
  BY <1>4
<1>6. (IF init THEN 0 ELSE IF Len(history) < HistoryLength THEN Len(history)
                           ELSE HistoryLength) \in 0 .. MaxSteps + 1
  BY <1>4
<1> QED BY <1>3, <1>5, <1>6 DEF BuildTextObs

(* A projected command is an action. *)
LEMMA ProjectionType ==
  ASSUME NEW text \in Actions
  PROVE  ProjectedCommand(text) \in Actions
BY DEF ProjectedCommand, Actions, Responses

(* Playing a game keeps its type and moves it at most one step. *)
LEMMA GameType ==
  ASSUME NEW n \in Nat, NEW g \in [steps : 0 .. n, standing : Standings], NEW a \in Answers
  PROVE  GamePlayed(g, a) \in [steps : 0 .. n + 1, standing : Standings]
BY DEF GamePlayed, Standings, Answers

(* A row recorded by the gate is a row. *)
LEMMA GateRowType == \A d \in BOOLEAN : GateRow(d) \in Rows
BY DEF GateRow, Rows

(* A row recorded by a turn is a row, and carries the flags of the turn. *)
LEMMA TurnRowType ==
  ASSUME TypeOK, NEW i \in Envs, NEW a \in Answers
  PROVE  /\ TurnRow(i, Outcome(i, a)) \in Rows
         /\ Outcome(i, a) \in [rewards : {0, 1}, done : BOOLEAN, is_action_valid : BOOLEAN]
         /\ IsTurn(TurnRow(i, Outcome(i, a)))
         /\ TurnRow(i, Outcome(i, a)).is_dt_step = is_dt_step[i]
         /\ TurnRow(i, Outcome(i, a)).active_masks = Active(i)
<1>1. is_dt_step[i] \in BOOLEAN /\ is_done[i] \in BOOLEAN /\ Active(i) \in BOOLEAN
  BY DEF TypeOK, Active
<1>2. a.won \in BOOLEAN /\ a.done \in BOOLEAN
  BY DEF Answers
<1>3. Outcome(i, a) \in [rewards : {0, 1}, done : BOOLEAN, is_action_valid : BOOLEAN]
  BY <1>1, <1>2 DEF Outcome, ComputeReward, ProjectedValid
<1> QED BY <1>1, <1>3 DEF TurnRow, Rows, IsTurn

(* Appending a row that is no call, or a call after a row that is none, keeps*)
(* the calls of a trajectory spaced.                                         *)
LEMMA SpacedAppend ==
  ASSUME NEW rows \in Seq(Rows), NEW r \in Rows, Spaced(rows),
         r.is_dt_step => r.active_masks /\ (Len(rows) > 0 => ~rows[Len(rows)].is_dt_step)
  PROVE  Spaced(Append(rows, r))
<1> DEFINE new == Append(rows, r)
           n == Len(rows)
<1>1. n \in Nat /\ Len(new) = n + 1 /\ new[n + 1] = r /\ \A l \in 1 .. n : new[l] = rows[l]
  OBVIOUS
<1> SUFFICES ASSUME NEW k \in 1 .. n + 1, new[k].is_dt_step
             PROVE  new[k].active_masks /\ (k < n + 1 => ~new[k + 1].is_dt_step)
  BY <1>1 DEF Spaced
<1>2. CASE k = n + 1
  BY <1>1, <1>2
<1>3. CASE k = n /\ k # n + 1
  BY <1>1, <1>3 DEF Spaced
<1>4. CASE k < n
  <2>1. k \in 1 .. n /\ k + 1 \in 1 .. n
    BY <1>1, <1>4
  <2> QED BY <1>1, <1>4, <2>1 DEF Spaced
<1> QED BY <1>1, <1>2, <1>3, <1>4

-----------------------------------------------------------------------------
(* Counting rows.                                                            *)

(* The positions counted by InfoIndex form a finite set. *)
LEMMA InfoIndexFinite ==
  ASSUME NEW rows, NEW k \in Nat
  PROVE  /\ IsFiniteSet({l \in 1 .. k : IsTurn(rows[l])})
         /\ InfoIndex(rows, k) \in Nat
<1>1. IsFiniteSet(1 .. k)
  BY FS_Interval
<1>2. IsFiniteSet({l \in 1 .. k : IsTurn(rows[l])})
  BY <1>1, FS_Subset
<1> QED BY <1>2, FS_CardinalityType DEF InfoIndex

(* Appending a row counts it if it is a turn, and changes no earlier count. *)
LEMMA InfoIndexAppend ==
  ASSUME NEW rows \in Seq(Rows), NEW r \in Rows
  PROVE  /\ InfoIndex(Append(rows, r), Len(rows) + 1) =
              InfoIndex(rows, Len(rows)) + (IF IsTurn(r) THEN 1 ELSE 0)
         /\ \A k \in 0 .. Len(rows) : InfoIndex(Append(rows, r), k) = InfoIndex(rows, k)
<1> DEFINE n == Len(rows)
           new == Append(rows, r)
           P(s, k) == {l \in 1 .. k : IsTurn(s[l])}
<1>1. n \in Nat /\ \A l \in 1 .. n : new[l] = rows[l]
  OBVIOUS
<1>2. new[n + 1] = r
  OBVIOUS
<1>3. \A k \in 0 .. n : P(new, k) = P(rows, k)
  BY <1>1
<1>4. P(new, n + 1) = IF IsTurn(r) THEN P(rows, n) \cup {n + 1} ELSE P(rows, n)
  BY <1>1, <1>2
<1>5. n + 1 \notin P(rows, n)
  BY <1>1
<1>6. IsFiniteSet(P(rows, n))
  BY <1>1, InfoIndexFinite
<1>7. Cardinality(P(rows, n) \cup {n + 1}) = Cardinality(P(rows, n)) + 1
  BY <1>5, <1>6, FS_AddElement
<1>8. Cardinality(P(rows, n)) \in Nat
  BY <1>6, FS_CardinalityType
<1>9. InfoIndex(new, n + 1) = Cardinality(P(new, n + 1))
      /\ InfoIndex(rows, n) = Cardinality(P(rows, n))
  BY DEF InfoIndex
<1>10. InfoIndex(new, n + 1) = InfoIndex(rows, n) + (IF IsTurn(r) THEN 1 ELSE 0)
  <2> HIDE DEF P
  <2> QED BY <1>4, <1>7, <1>8, <1>9
<1>11. \A k \in 0 .. n : InfoIndex(new, k) = InfoIndex(rows, k)
  BY <1>3 DEF InfoIndex
<1> QED BY <1>10, <1>11

(* The index of a turn row is positive and at most the index of the last row.*)
LEMMA InfoIndexBounds ==
  ASSUME NEW rows \in Seq(Rows), NEW k \in 1 .. Len(rows), IsTurn(rows[k])
  PROVE  InfoIndex(rows, k) \in 1 .. InfoIndex(rows, Len(rows))
<1> DEFINE P(j) == {l \in 1 .. j : IsTurn(rows[l])}
<1>1. P(k) \subseteq P(Len(rows)) /\ k \in P(k)
  OBVIOUS
<1>2. IsFiniteSet(P(Len(rows))) /\ IsFiniteSet(P(k))
  <2>1. Len(rows) \in Nat /\ k \in Nat
    OBVIOUS
  <2> QED BY <2>1, InfoIndexFinite
<1>3. Cardinality(P(k)) <= Cardinality(P(Len(rows)))
  BY <1>1, <1>2, FS_Subset
<1>4. Cardinality(P(k)) # 0
  BY <1>1, <1>2, FS_EmptySet
<1>5. Cardinality(P(k)) \in Nat /\ Cardinality(P(Len(rows))) \in Nat
  BY <1>2, FS_CardinalityType
<1> QED BY <1>3, <1>4, <1>5 DEF InfoIndex

(* If some row is judged, LastJudged is the position of the last such row. *)
LEMMA LastJudgedExists ==
  ASSUME NEW rows \in Seq(Rows), \E k \in 1 .. Len(rows) : Judged(rows[k])
  PROVE  /\ LastJudged(rows) \in 1 .. Len(rows)
         /\ Judged(rows[LastJudged(rows)])
         /\ \A l \in (LastJudged(rows) + 1) .. Len(rows) : ~Judged(rows[l])
<1> DEFINE n == Len(rows)
           D == {d \in 0 .. n : d < n /\ Judged(rows[n - d])}
<1>1. n \in Nat
  OBVIOUS
<1>2. D # {}
  <2>1. PICK k \in 1 .. n : Judged(rows[k])
    OBVIOUS
  <2>2. n - k \in 0 .. n /\ n - k < n /\ n - (n - k) = k
    BY <1>1
  <2> QED BY <2>1, <2>2
<1>3. D \subseteq Nat
  BY <1>1
<1>4. PICK d \in D : \A e \in D : ~(<<e, d>> \in OpToRel(<, Nat))
  BY <1>2, <1>3, NatLessThanWellFounded, WFMin
<1>5. \A e \in D : ~(e < d)
  BY <1>3, <1>4 DEF OpToRel
<1>6. n - d \in 1 .. n /\ Judged(rows[n - d])
  BY <1>1
<1>7. \A l \in (n - d + 1) .. n : ~Judged(rows[l])
  <2> SUFFICES ASSUME NEW l \in (n - d + 1) .. n, Judged(rows[l]) PROVE FALSE
    OBVIOUS
  <2>1. n - l \in 0 .. n /\ n - l < n /\ n - (n - l) = l /\ n - l < d
    BY <1>1, <1>6
  <2>2. n - l \in D
    BY <2>1
  <2> QED BY <2>1, <2>2, <1>5
<1> QED BY <1>6, <1>7 DEF LastJudged

-----------------------------------------------------------------------------
(* The invariant is inductive: one lemma per action.                         *)

(* What a reset writes is well typed, and no row has been recorded yet. *)
LEMMA FreshTypes ==
  /\ NewGame \in [steps : 0 .. MaxSteps, standing : Standings] /\ NewGame.steps = 0
  /\ \A state \in DTState(MaxSteps) : BuildTextObs(TRUE, <<>>, state) \in Prompts(MaxSteps + 1)
  /\ EmptyReport \in Reports
  /\ FirstPhase \in {"gate", "compose"}
  /\ InfoIndex(<<>>, Len(<<>>)) = 0
<1>1. NewGame \in [steps : 0 .. MaxSteps, standing : Standings] /\ NewGame.steps = 0
  BY DEF NewGame, Standings
<1>2. ASSUME NEW state \in DTState(MaxSteps)
      PROVE  BuildTextObs(TRUE, <<>>, state) \in Prompts(MaxSteps + 1)
  <2>1. <<>> \in Seq(Actions) /\ Len(<<>>) = 0 /\ 0 <= MaxSteps
    OBVIOUS
  <2>2. state \in DTState(MaxSteps)
    OBVIOUS
  <2>3. TRUE \in BOOLEAN /\ Len(<<>>) <= MaxSteps
    BY <2>1
  <2> QED BY ONLY <2>1, <2>2, <2>3, PromptType
<1>3. EmptyReport \in Reports
  BY DEF EmptyReport, Reports
<1>4. FirstPhase \in {"gate", "compose"}
  BY DEF FirstPhase
<1>5. InfoIndex(<<>>, Len(<<>>)) = 0
  <2>1. {l \in 1 .. 0 : IsTurn(<<>>[l])} = {}
    OBVIOUS
  <2> QED BY <2>1, FS_EmptySet DEF InfoIndex
<1> QED BY <1>1, <1>2, <1>3, <1>4, <1>5

LEMMA InitInv == Init => IInv
<1> SUFFICES ASSUME Init PROVE IInv
  OBVIOUS
<1> USE DEF Init, ManagerInit, AllEnvs
<1>1. ManagerTypeOK
  <2>1. <<>> \in Seq(Actions)
    OBVIOUS
  <2> QED BY <2>1, FreshTypes, DTStateType DEF ManagerTypeOK
<1>2. TypeOK
  <2>1. [i \in Envs |-> <<>>] \in [Envs -> Seq(Rows)] /\ [i \in Envs |-> <<>>] \in [Envs -> Seq(Infos)]
    OBVIOUS
  <2>2. [i \in Envs |-> EmptyReport] \in [Envs -> Reports]
    BY FreshTypes
  <2> QED BY <1>1, <2>1, <2>2 DEF TypeOK, Phases, Systems, Actions
<1>3. CallsAreSpaced
  BY DEF CallsAreSpaced, Spaced
<1>4. PhaseInv
  BY DEF PhaseInv, TurnPhases
<1>5. LockStepInv /\ RenewalInv
  BY FreshTypes DEF LockStepInv, RenewalInv, Renewing
<1>6. CooldownInv
  BY DEF CooldownInv, NewDTState
<1>7. BudgetInv
  BY DEF BudgetInv
<1> QED BY <1>2, <1>3, <1>4, <1>5, <1>6, <1>7 DEF IInv

LEMMA ResetInv == ASSUME IInv, Reset PROVE IInv'
<1> USE DEF Reset, ResetGames, AllEnvs, FreshMemory
<1>1. TypeOK
  BY DEF IInv
<1>2. ManagerTypeOK'
  <2>1. <<>> \in Seq(Actions)
    OBVIOUS
  <2>2. obs' \in [Envs -> Prompts(MaxSteps + 1)]
    BY <1>1, FreshTypes DEF ManagerTypeOK, TypeOK, FirstPrompts
  <2> QED BY <1>1, <2>1, <2>2, FreshTypes DEF ManagerTypeOK, TypeOK
<1>3. TypeOK'
  <2>1. [i \in Envs |-> <<>>] \in [Envs -> Seq(Rows)] /\ [i \in Envs |-> <<>>] \in [Envs -> Seq(Infos)]
    OBVIOUS
  <2>2. [i \in Envs |-> EmptyReport] \in [Envs -> Reports]
    BY FreshTypes
  <2>3. rollout + 1 \in 0 .. Rollouts
    BY <1>1 DEF TypeOK
  <2>4. phase' \in Phases
    BY DEF Phases, Renewing
  <2> QED BY <1>1, <1>2, <2>1, <2>2, <2>3, <2>4 DEF TypeOK
<1>4. CallsAreSpaced'
  BY DEF CallsAreSpaced, Spaced
<1>5. PhaseInv' /\ RenewalInv'
  BY DEF PhaseInv, TurnPhases, RenewalInv, NewGame
<1>6. LockStepInv'
  BY FreshTypes DEF LockStepInv
<1>7. CooldownInv'
  BY DEF CooldownInv
<1>8. BudgetInv'
  <2>1. thinking_mode' \in {"dt_action", "selective_gate"} /\ phase' # "step"
    BY <1>1, ThinkingModesAssumption DEF TypeOK, ManagerTypeOK
  <2>2. ASSUME NEW i \in Envs
        PROVE  env_step' = 0 /\ episode_lengths'[i] = 0 /\ tool_callings'[i] = 0
    OBVIOUS
  <2> HIDE DEF Reset
  <2> QED BY <2>1, <2>2 DEF BudgetInv
<1> QED BY <1>3, <1>4, <1>5, <1>6, <1>7, <1>8 DEF IInv

(* What the later steps of a reset do. *)
LEMMA RenewalFacts ==
  ASSUME IInv, Renew \/ Rebuild \/ Begin
  PROVE  /\ phase \in Renewing /\ phase' \in {"rebuild", "begin", "gate", "compose"}
         /\ phase' \in {"gate", "compose"} => phase' = FirstPhase
         /\ UNCHANGED <<thinking_mode, memory, games, loopVars>>
         /\ env_step = 0
         /\ dt_states' = [i \in Envs |-> NewDTState]
         /\ obs' \in [Envs -> Prompts(MaxSteps + 1)]
         /\ \A i \in Envs : /\ total_batch_list[i] = <<>> /\ tool_callings[i] = 0
                            /\ games[i].standing = "playing"
         /\ phase' # "rebuild" =>
              \A i \in Envs : obs'[i] = BuildTextObs(TRUE, <<>>, NewDTState)
<1>1. TypeOK /\ RenewalInv
  BY DEF IInv
<1>2. dt_states \in [Envs -> DTState(MaxSteps)] /\ obs \in [Envs -> Prompts(MaxSteps + 1)]
  BY <1>1 DEF TypeOK, ManagerTypeOK
<1>3. phase \in Renewing => /\ env_step = 0
                            /\ \A i \in Envs : /\ total_batch_list[i] = <<>>
                                               /\ tool_callings[i] = 0
                                               /\ games[i].standing = "playing"
  BY <1>1 DEF RenewalInv
<1>4. CASE Renew
  BY <1>2, <1>3, <1>4 DEF Renew, RenewStates, FreshDTStates, Renewing
<1>5. CASE Rebuild
  <2>1. phase = "rebuild" /\ \A i \in Envs : dt_states[i] = NewDTState
    BY <1>1, <1>5 DEF Rebuild, RenewalInv
  <2>2. /\ phase' = "begin" /\ UNCHANGED <<thinking_mode, dt_states, memory, games, loopVars>>
        /\ obs' = [i \in Envs |-> BuildTextObs(TRUE, <<>>, dt_states[i])]
    BY <1>5 DEF Rebuild, RebuildPrompts, RebuiltPrompts, FirstPrompts
  <2>3. dt_states' = [i \in Envs |-> NewDTState]
    BY <1>2, <2>1, <2>2
  <2>4. \A i \in Envs : obs'[i] = BuildTextObs(TRUE, <<>>, NewDTState)
    BY <2>1, <2>2
  <2>5. obs' \in [Envs -> Prompts(MaxSteps + 1)]
    BY <1>2, <2>2, FreshTypes
  <2> QED BY <1>3, <2>1, <2>2, <2>3, <2>4, <2>5 DEF Renewing
<1>6. CASE Begin
  <2>1. /\ phase = "begin" /\ phase' = FirstPhase
        /\ dt_states' = [i \in Envs |-> NewDTState]
        /\ UNCHANGED <<thinking_mode, memory, games, obs, loopVars>>
    BY <1>6 DEF Begin, RenewStates, FreshDTStates
  <2>2. \A i \in Envs : obs[i] = BuildTextObs(TRUE, <<>>, NewDTState)
    BY <1>1, <2>1 DEF RenewalInv
  <2> QED BY <1>2, <1>3, <2>1, <2>2, FreshTypes DEF Renewing
<1> QED BY <1>4, <1>5, <1>6

LEMMA RenewalKeepsInv == ASSUME IInv, Renew \/ Rebuild \/ Begin PROVE IInv'
<1>1. /\ TypeOK /\ CallsAreSpaced /\ PhaseInv /\ LockStepInv /\ CooldownInv /\ BudgetInv
      /\ UNCHANGED <<thinking_mode, memory, games, loopVars>> /\ env_step = 0
      /\ phase' \in {"rebuild", "begin", "gate", "compose"}
      /\ phase' \in {"gate", "compose"} => phase' = FirstPhase
      /\ dt_states' = [i \in Envs |-> NewDTState]
      /\ obs' \in [Envs -> Prompts(MaxSteps + 1)]
      /\ \A i \in Envs : /\ total_batch_list[i] = <<>> /\ tool_callings[i] = 0
                         /\ games[i].standing = "playing"
  BY RenewalFacts DEF IInv
<1> USE DEF loopVars, loopLocals, ledgers
<1>2. TypeOK'
  <2>1. ManagerTypeOK'
    BY <1>1, DTStateType DEF TypeOK, ManagerTypeOK
  <2> QED BY <1>1, <2>1 DEF TypeOK, Phases, Renewing
<1>3. CallsAreSpaced' /\ LockStepInv'
  BY <1>1 DEF CallsAreSpaced, LockStepInv
<1>4. PhaseInv'
  BY <1>1, MaxStepsAssumption DEF PhaseInv, TurnPhases, FirstPhase
<1>5. RenewalInv'
  <2>1. phase' # "rebuild" => \A i \in Envs : obs'[i] = BuildTextObs(TRUE, <<>>, NewDTState)
    BY RenewalFacts
  <2>2. BuildTextObs(TRUE, <<>>, NewDTState)' = BuildTextObs(TRUE, <<>>, NewDTState)
    BY <1>1 DEF BuildTextObs
  <2> QED BY <1>1, <2>1, <2>2 DEF RenewalInv
<1>6. CooldownInv'
  <2>1. NewDTState.dt_count = 0 /\ NewDTState.just_called_dt = FALSE
    BY DEF NewDTState
  <2> QED BY <1>1, <2>1 DEF CooldownInv, Active
<1>7. BudgetInv'
  <2>1. \A i \in Envs : episode_lengths[i] \in Nat /\ episode_lengths[i] <= 0
    BY <1>1 DEF BudgetInv, TypeOK
  <2>2. \A i \in Envs : episode_lengths'[i] = 0 /\ tool_callings'[i] = 0 /\ env_step' = 0
    BY <1>1, <2>1
  <2>3. thinking_mode' \in {"dt_action", "selective_gate"} /\ phase' # "step"
    BY <1>1, ThinkingModesAssumption DEF TypeOK, ManagerTypeOK
  <2> QED BY <2>2, <2>3 DEF BudgetInv
<1> QED BY <1>2, <1>3, <1>4, <1>5, <1>6, <1>7 DEF IInv

LEMMA StutterInv == ASSUME IInv, UNCHANGED vars PROVE IInv'
<1> USE DEF vars, managerVars, loopLocals, ledgers, IInv
<1>1. TypeOK'
  BY DEF TypeOK, ManagerTypeOK
<1>2. CallsAreSpaced' /\ PhaseInv' /\ RenewalInv' /\ LockStepInv'
  BY DEF CallsAreSpaced, PhaseInv, RenewalInv, LockStepInv, BuildTextObs
<1>3. CooldownInv' /\ BudgetInv'
  BY DEF CooldownInv, BudgetInv, Active
<1> QED BY <1>1, <1>2, <1>3

LEMMA ComposeInv == ASSUME IInv, Compose PROVE IInv'
<1> USE DEF Compose, managerVars, loopLocals, ledgers, IInv
<1>1. TypeOK'
  <2>1. \A i \in Envs : OuterSystem(i) \in Systems
    BY DEF OuterSystem, Systems
  <2>2. system' \in [Envs -> Systems]
    BY <2>1
  <2>3. ManagerTypeOK'
    BY DEF TypeOK, ManagerTypeOK
  <2> QED BY <2>2, <2>3 DEF TypeOK, Phases
<1>2. CallsAreSpaced' /\ PhaseInv' /\ RenewalInv' /\ LockStepInv'
  BY DEF CallsAreSpaced, PhaseInv, TurnPhases, RenewalInv, Renewing, LockStepInv
<1>3. CooldownInv' /\ BudgetInv'
  BY DEF CooldownInv, BudgetInv, Active
<1> QED BY <1>1, <1>2, <1>3

LEMMA GenerateInv == ASSUME IInv, Generate PROVE IInv'
<1> USE DEF Generate, managerVars, loopLocals, ledgers, IInv
<1>1. TypeOK'
  <2>1. text_actions' \in [Envs -> Actions]
    BY DEF Actions, TypeOK, ManagerTypeOK
  <2>2. total_output_tokens' \in [Envs -> Nat] /\ action_output_tokens' \in [Envs -> Nat]
    BY ChargeType DEF TypeOK
  <2>3. ManagerTypeOK'
    BY DEF TypeOK, ManagerTypeOK
  <2> QED BY <2>1, <2>2, <2>3 DEF TypeOK, Phases, AllEnvs
<1>2. CallsAreSpaced' /\ PhaseInv' /\ RenewalInv' /\ LockStepInv'
  BY DEF CallsAreSpaced, PhaseInv, TurnPhases, RenewalInv, Renewing, LockStepInv
<1>3. CooldownInv'
  BY DEF CooldownInv, Active, AllEnvs
<1>4. BudgetInv'
  BY DEF BudgetInv, Active, AllEnvs
<1> QED BY <1>1, <1>2, <1>3, <1>4

LEMMA EvaluateInv == ASSUME IInv, Evaluate PROVE IInv'
<1> USE DEF Evaluate, managerVars, loopLocals, ledgers, IInv
<1>1. TypeOK'
  <2>1. ASSUME NEW i \in Envs
        PROVE  total_infos[i][InfoIndex(total_batch_list[i], LastJudged(total_batch_list[i]))].won
                 \in BOOLEAN
    <3>1. total_batch_list[i] \in Seq(Rows) /\ total_infos[i] \in Seq(Infos)
      BY DEF TypeOK
    <3>2. \E k \in 1 .. Len(total_batch_list[i]) : Judged(total_batch_list[i][k])
      BY DEF PhaseInv, LockStepInv
    <3>3. /\ LastJudged(total_batch_list[i]) \in 1 .. Len(total_batch_list[i])
          /\ IsTurn(total_batch_list[i][LastJudged(total_batch_list[i])])
      BY <3>1, <3>2, LastJudgedExists DEF Judged
    <3>4. InfoIndex(total_batch_list[i], LastJudged(total_batch_list[i]))
            \in 1 .. Len(total_infos[i])
      BY <3>1, <3>3, InfoIndexBounds DEF LockStepInv
    <3>5. \A s \in Seq(Infos), j \in Nat : j \in 1 .. Len(s) => s[j].won \in BOOLEAN
      <4>1. \A s \in Seq(Infos), j \in Nat : j \in 1 .. Len(s) => s[j] \in Infos
        OBVIOUS
      <4> QED BY <4>1 DEF Infos
    <3>6. InfoIndex(total_batch_list[i], LastJudged(total_batch_list[i])) \in Nat
      BY <3>1, <3>4
    <3> QED BY ONLY <3>1, <3>4, <3>5, <3>6
  <2>2. success' \in [Envs -> BOOLEAN]
    BY <2>1
  <2>3. ManagerTypeOK'
    BY DEF TypeOK, ManagerTypeOK
  <2> QED BY <2>2, <2>3 DEF TypeOK, Phases
<1>2. CallsAreSpaced' /\ PhaseInv' /\ RenewalInv' /\ LockStepInv'
  BY DEF CallsAreSpaced, PhaseInv, TurnPhases, RenewalInv, Renewing, LockStepInv
<1>3. CooldownInv' /\ BudgetInv'
  BY DEF CooldownInv, BudgetInv, Active
<1> QED BY <1>1, <1>2, <1>3

LEMMA GatherInv == ASSUME IInv, Gather PROVE IInv'
<1> USE DEF Gather, managerVars, loopLocals, ledgers, IInv
<1>1. TypeOK'
  <2>1. ASSUME NEW i \in Envs PROVE gen_batch_output'[i] \in Reports
    <3>1. total_batch_list[i] \in Seq(Rows)
      BY DEF TypeOK
    <3>2. {k \in DOMAIN total_batch_list[i] : Gathered(total_batch_list[i][k])} \in SUBSET Nat
      BY <3>1
    <3>3. /\ episode_rewards[i] \in Nat /\ episode_lengths[i] \in Nat
          /\ tool_callings[i] \in Nat /\ total_output_tokens[i] \in Nat
          /\ action_output_tokens[i] \in Nat /\ success[i] \in BOOLEAN
      BY DEF TypeOK
    <3> QED BY <3>2, <3>3 DEF Reports
  <2>2. gen_batch_output' \in [Envs -> Reports]
    BY <2>1
  <2>3. ManagerTypeOK'
    BY DEF TypeOK, ManagerTypeOK
  <2> QED BY <2>2, <2>3 DEF TypeOK, Phases
<1>2. CallsAreSpaced' /\ PhaseInv' /\ RenewalInv' /\ LockStepInv'
  BY DEF CallsAreSpaced, PhaseInv, TurnPhases, RenewalInv, Renewing, LockStepInv
<1>3. CooldownInv' /\ BudgetInv'
  BY DEF CooldownInv, BudgetInv, Active
<1> QED BY <1>1, <1>2, <1>3

(* A deep_think call of a set of trajectories. *)
LEMMA DeepThinkStep ==
  ASSUME TypeOK, NEW S \in SUBSET Envs, DeepThink(S), env_step < MaxSteps
  PROVE  /\ dt_states' \in [Envs -> DTState(MaxSteps)]
         /\ total_output_tokens' \in [Envs -> Nat]
         /\ tool_callings' \in [Envs -> Nat]
         /\ \A i \in Envs :
              /\ dt_states[i].dt_count = tool_callings[i] =>
                    dt_states'[i].dt_count = tool_callings'[i]
              /\ tool_callings'[i] = tool_callings[i] + (IF i \in S THEN 1 ELSE 0)
              /\ i \in S => dt_states'[i].just_called_dt
              /\ i \notin S => dt_states'[i] = dt_states[i]
<1>1. PICK memos \in [S -> MemoChoices[thinking_mode]] :
        dt_states' = [i \in Envs |-> IF i \in S
                                     THEN RecordDeepThink(dt_states[i], memos[i], env_step + 1)
                                     ELSE dt_states[i]]
  BY DEF DeepThink
<1>2. dt_states \in [Envs -> DTState(MaxSteps)] /\ env_step + 1 \in 0 .. MaxSteps
      /\ tool_callings \in [Envs -> Nat]
  BY DEF TypeOK, ManagerTypeOK
<1>3. \A i \in S : memos[i] \in Memos
  BY <1>1 DEF TypeOK, ManagerTypeOK
<1>4. dt_states' \in [Envs -> DTState(MaxSteps)]
  BY <1>1, <1>2, <1>3, DTStateType
<1>5. total_output_tokens' \in [Envs -> Nat] /\ tool_callings' \in [Envs -> Nat]
  BY ChargeType DEF DeepThink, TypeOK
<1>6. ASSUME NEW i \in Envs
      PROVE  /\ tool_callings'[i] = tool_callings[i] + (IF i \in S THEN 1 ELSE 0)
             /\ i \in S => /\ dt_states'[i].just_called_dt
                           /\ dt_states'[i].dt_count = dt_states[i].dt_count + 1
             /\ i \notin S => dt_states'[i] = dt_states[i]
  <2>1. tool_callings'[i] = tool_callings[i] + (IF i \in S THEN 1 ELSE 0)
    BY <1>2 DEF DeepThink, Charge
  <2>2. CASE i \in S
    BY <1>1, <1>2, <1>3, <2>1, <2>2, DTStateType
  <2>3. CASE i \notin S
    BY <1>1, <2>1, <2>3
  <2> QED BY <2>2, <2>3
<1> QED BY <1>2, <1>4, <1>5, <1>6

LEMMA DeliberateInv == ASSUME IInv, Deliberate PROVE IInv'
<1> DEFINE S == {i \in Envs : Active(i) /\ gate_decisions[i]}
<1> USE DEF managerVars, loopLocals, ledgers
<1>1. /\ TypeOK /\ CallsAreSpaced /\ PhaseInv /\ LockStepInv /\ CooldownInv /\ BudgetInv
      /\ phase = "deliberate" /\ phase' = "compose" /\ DeepThink(S)
      /\ UNCHANGED <<thinking_mode, memory, games, obs, rollout, env_step, is_done, loopLocals,
                     total_batch_list, total_infos, episode_rewards, episode_lengths,
                     action_output_tokens, success, gen_batch_output>>
  BY DEF IInv, Deliberate
<1>2. env_step < MaxSteps /\ thinking_mode = "selective_gate"
  BY <1>1 DEF PhaseInv, TurnPhases
<1>3. /\ dt_states' \in [Envs -> DTState(MaxSteps)]
      /\ total_output_tokens' \in [Envs -> Nat] /\ tool_callings' \in [Envs -> Nat]
      /\ \A i \in Envs :
           /\ dt_states[i].dt_count = tool_callings[i] =>
                dt_states'[i].dt_count = tool_callings'[i]
           /\ i \in S => dt_states'[i].just_called_dt
           /\ i \notin S => dt_states'[i] = dt_states[i]
  <2> HIDE DEF S
  <2>1. S \in SUBSET Envs
    BY DEF S
  <2> QED BY <1>1, <1>2, <2>1, DeepThinkStep
<1> HIDE DEF S
<1>4. TypeOK'
  <2>1. ManagerTypeOK'
    BY <1>1, <1>3 DEF TypeOK, ManagerTypeOK
  <2> QED BY <1>1, <1>3, <2>1 DEF TypeOK, Phases
<1>5. CallsAreSpaced' /\ PhaseInv' /\ RenewalInv' /\ LockStepInv'
  BY <1>1, <1>2 DEF CallsAreSpaced, PhaseInv, TurnPhases, RenewalInv, Renewing, LockStepInv
<1>6. CooldownInv'
  BY <1>1, <1>2, <1>3 DEF CooldownInv, Active
<1>7. BudgetInv'
  BY <1>1, <1>2 DEF BudgetInv, Active
<1> QED BY <1>4, <1>5, <1>6, <1>7 DEF IInv

LEMMA InterceptInv == ASSUME IInv, Intercept PROVE IInv'
<1> DEFINE S == {i \in Envs : CallsDeepThink(i)}
<1> USE DEF managerVars, loopLocals, ledgers
<1>1. /\ TypeOK /\ CallsAreSpaced /\ PhaseInv /\ LockStepInv /\ CooldownInv /\ BudgetInv
      /\ phase = "intercept" /\ phase' = "step" /\ DeepThink(S)
      /\ is_dt_step' = [i \in Envs |-> i \in S]
      /\ text_actions' = [i \in Envs |-> IF i \in S THEN "noop" ELSE text_actions[i]]
      /\ UNCHANGED <<thinking_mode, memory, games, obs, rollout, env_step, is_done, gate_decisions,
                     system, total_batch_list, total_infos, episode_rewards,
                     episode_lengths, action_output_tokens, success, gen_batch_output>>
  BY DEF IInv, Intercept
<1>2. env_step < MaxSteps /\ thinking_mode = "dt_action"
  BY <1>1 DEF PhaseInv, TurnPhases
<1>3. S \in SUBSET Envs /\ \A i \in S : Active(i) /\ ~dt_states[i].just_called_dt
  BY DEF CallsDeepThink
<1> HIDE DEF S
<1>4. /\ dt_states' \in [Envs -> DTState(MaxSteps)]
      /\ total_output_tokens' \in [Envs -> Nat] /\ tool_callings' \in [Envs -> Nat]
      /\ \A i \in Envs :
           /\ dt_states[i].dt_count = tool_callings[i] =>
                dt_states'[i].dt_count = tool_callings'[i]
           /\ tool_callings'[i] = tool_callings[i] + (IF i \in S THEN 1 ELSE 0)
           /\ i \in S => dt_states'[i].just_called_dt
           /\ i \notin S => dt_states'[i] = dt_states[i]
  BY <1>1, <1>2, <1>3, DeepThinkStep
<1>5. TypeOK'
  <2>1. ManagerTypeOK'
    BY <1>1, <1>4 DEF TypeOK, ManagerTypeOK
  <2>2. text_actions' \in [Envs -> Actions] /\ is_dt_step' \in [Envs -> BOOLEAN]
    BY <1>1 DEF TypeOK, Actions
  <2> QED BY <1>1, <1>4, <2>1, <2>2 DEF TypeOK, Phases
<1>6. CallsAreSpaced' /\ PhaseInv' /\ RenewalInv' /\ LockStepInv'
  BY <1>1, <1>2 DEF CallsAreSpaced, PhaseInv, TurnPhases, RenewalInv, Renewing, LockStepInv
<1>7. CooldownInv'
  BY <1>1, <1>2, <1>3, <1>4 DEF CooldownInv, Active
<1>8. BudgetInv'
  <2> SUFFICES ASSUME NEW i \in Envs, Active(i)
               PROVE  episode_lengths[i] + tool_callings'[i] =
                        IF i \in S THEN env_step + 1 ELSE env_step
    BY <1>1, <1>2 DEF BudgetInv, Active
  <2>1. episode_lengths[i] + tool_callings[i] = env_step
    BY <1>1, <1>2 DEF BudgetInv
  <2> QED BY <1>1, <1>4, <2>1 DEF TypeOK
<1> QED BY <1>5, <1>6, <1>7, <1>8 DEF IInv

LEMMA GateInv == ASSUME IInv, Gate PROVE IInv'
<1> USE DEF managerVars
<1>1. PICK outs \in [Envs -> GateChoices] :
        /\ gate_decisions' = [i \in Envs |-> Active(i) /\ GateOpens(outs[i], dt_states[i])]
        /\ total_batch_list' =
             [i \in Envs |-> IF Active(i)
                             THEN Append(total_batch_list[i], GateRow(gate_decisions'[i]))
                             ELSE total_batch_list[i]]
  BY DEF Gate
<1>2. /\ TypeOK /\ CallsAreSpaced /\ PhaseInv /\ LockStepInv /\ CooldownInv /\ BudgetInv
      /\ phase = "gate" /\ phase' = "deliberate"
      /\ UNCHANGED <<managerVars, rollout, env_step, is_done, system, text_actions,
                     is_dt_step, total_infos, episode_rewards, episode_lengths,
                     tool_callings, action_output_tokens, success, gen_batch_output>>
      /\ total_output_tokens' = Charge(total_output_tokens, {i \in Envs : Active(i)}, 1)
  BY DEF IInv, Gate
<1>3. env_step < MaxSteps /\ thinking_mode = "selective_gate"
  BY <1>2 DEF PhaseInv, TurnPhases
<1>4. gate_decisions' \in [Envs -> BOOLEAN]
      /\ \A i \in Envs : gate_decisions'[i] => ~dt_states[i].just_called_dt
  BY <1>1, <1>2 DEF TypeOK, Active, GateOpens, GateDecision
<1>5. ASSUME NEW i \in Envs
      PROVE  LET rows == total_batch_list[i]
                 new  == total_batch_list'[i]
             IN  /\ rows \in Seq(Rows) /\ new \in Seq(Rows)
                 /\ Spaced(new)
                 /\ InfoIndex(new, Len(new)) = InfoIndex(rows, Len(rows))
                 /\ \A k \in 1 .. Len(rows) : k \in 1 .. Len(new) /\ new[k] = rows[k]
                 /\ new = rows \/ ~new[Len(new)].is_dt_step
  <2> DEFINE rows == total_batch_list[i]
             row  == GateRow(gate_decisions'[i])
  <2>1. rows \in Seq(Rows) /\ Spaced(rows)
    BY <1>2 DEF TypeOK, CallsAreSpaced
  <2>2. row \in Rows /\ ~IsTurn(row) /\ ~row.is_dt_step
    BY <1>4, GateRowType DEF GateRow, IsTurn
  <2>3. total_batch_list'[i] = IF Active(i) THEN Append(rows, row) ELSE rows
    BY <1>1
  <2> HIDE DEF rows, row
  <2>4. Spaced(Append(rows, row))
    BY <2>1, <2>2, SpacedAppend
  <2>5. InfoIndex(Append(rows, row), Len(rows) + 1) = InfoIndex(rows, Len(rows))
    <3>1. InfoIndex(Append(rows, row), Len(rows) + 1) =
            InfoIndex(rows, Len(rows)) + (IF IsTurn(row) THEN 1 ELSE 0)
      BY <2>1, <2>2, InfoIndexAppend
    <3>2. InfoIndex(rows, Len(rows)) \in Nat
      <4>1. Len(rows) \in Nat
        BY <2>1
      <4> QED BY <4>1, InfoIndexFinite
    <3> QED BY <2>2, <3>1, <3>2
  <2>6. /\ Append(rows, row) \in Seq(Rows) /\ Len(Append(rows, row)) = Len(rows) + 1
        /\ Append(rows, row)[Len(rows) + 1] = row
        /\ Len(rows) \in Nat
        /\ \A k \in 1 .. Len(rows) : Append(rows, row)[k] = rows[k]
    BY <2>1, <2>2
  <2> DEFINE new == total_batch_list'[i]
  <2>7. /\ new \in Seq(Rows) /\ Spaced(new)
        /\ InfoIndex(new, Len(new)) = InfoIndex(rows, Len(rows))
        /\ \A k \in 1 .. Len(rows) : k \in 1 .. Len(new) /\ new[k] = rows[k]
        /\ new = rows \/ ~new[Len(new)].is_dt_step
    <3>1. CASE Active(i)
      BY <2>1, <2>2, <2>3, <2>4, <2>5, <2>6, <3>1
    <3>2. CASE ~Active(i)
      BY <2>1, <2>3, <3>2
    <3> QED BY <3>1, <3>2
  <2> QED BY <2>1, <2>7 DEF rows
<1>6. TypeOK'
  <2>1. total_batch_list' \in [Envs -> Seq(Rows)]
    BY <1>1, <1>5
  <2>2. total_output_tokens' \in [Envs -> Nat]
    BY <1>2, ChargeType DEF TypeOK
  <2>3. ManagerTypeOK'
    BY <1>2 DEF TypeOK, ManagerTypeOK
  <2> QED BY <1>2, <1>4, <2>1, <2>2, <2>3 DEF TypeOK, Phases
<1>7. CallsAreSpaced' /\ PhaseInv' /\ RenewalInv'
  BY <1>2, <1>3, <1>5 DEF CallsAreSpaced, PhaseInv, TurnPhases, RenewalInv, Renewing
<1>8. LockStepInv'
  BY <1>2, <1>5 DEF LockStepInv
<1>9. CooldownInv'
  BY <1>2, <1>3, <1>4, <1>5 DEF CooldownInv, Active
<1>10. BudgetInv'
  BY <1>2, <1>3 DEF BudgetInv, Active
<1> QED BY <1>6, <1>7, <1>8, <1>9, <1>10 DEF IInv

LEMMA StepEnvsInv == ASSUME IInv, StepEnvs PROVE IInv'
<1> USE DEF loopLocals
<1>1. PICK answers \in [Envs -> Answers] :
        /\ ManagerStep(text_actions, answers)
        /\ total_batch_list' = [i \in Envs |->
              Append(total_batch_list[i], TurnRow(i, Outcome(i, answers[i])))]
        /\ total_infos' = [i \in Envs |->
              Append(total_infos[i],
                     [won |-> answers[i].won,
                      is_action_valid |-> Outcome(i, answers[i]).is_action_valid])]
        /\ is_done' = [i \in Envs |-> is_done[i] \/ Outcome(i, answers[i]).done]
        /\ episode_rewards' = [i \in Envs |-> episode_rewards[i] +
              IF Rewarded(i) THEN Outcome(i, answers[i]).rewards ELSE 0]
  <2>1. PICK answers \in [Envs -> Answers] :
          LET outcome == [i \in Envs |-> Outcome(i, answers[i])]
          IN  /\ ManagerStep(text_actions, answers)
              /\ episode_rewards' = [i \in Envs |-> episode_rewards[i] +
                                       IF Rewarded(i) THEN outcome[i].rewards ELSE 0]
              /\ total_batch_list' = [i \in Envs |->
                                        Append(total_batch_list[i], TurnRow(i, outcome[i]))]
              /\ total_infos' = [i \in Envs |->
                                   Append(total_infos[i],
                                          [won |-> answers[i].won,
                                           is_action_valid |-> outcome[i].is_action_valid])]
              /\ is_done' = [i \in Envs |-> is_done[i] \/ outcome[i].done]
    BY DEF StepEnvs
  <2>2. \A i \in Envs : [j \in Envs |-> Outcome(j, answers[j])][i] = Outcome(i, answers[i])
    OBVIOUS
  <2> HIDE DEF StepEnvs
  <2> QED BY <2>1, <2>2
<1>2. /\ TypeOK /\ CallsAreSpaced /\ PhaseInv /\ LockStepInv /\ CooldownInv /\ BudgetInv
      /\ phase = "step" /\ env_step' = env_step + 1
      /\ phase' = AfterStep(is_done', env_step')
      /\ episode_lengths' = Charge(episode_lengths, {i \in Envs : RealAction(i)}, 1)
      /\ dt_states' = [i \in Envs |-> IF RealAction(i) THEN ConsumeDTBlock(dt_states[i])
                                      ELSE dt_states[i]]
      /\ UNCHANGED <<rollout, loopLocals, tool_callings, total_output_tokens,
                     action_output_tokens, success, gen_batch_output>>
  BY DEF IInv, StepEnvs
<1>3. env_step \in 0 .. MaxSteps - 1 /\ env_step' \in 1 .. MaxSteps
  BY <1>2 DEF PhaseInv, TurnPhases, TypeOK
<1>4. thinking_mode' = thinking_mode /\ thinking_mode \in {"dt_action", "selective_gate"}
  BY <1>1, <1>2 DEF ManagerStep, TypeOK, ManagerTypeOK
<1>5. ASSUME NEW i \in Envs
      PROVE  /\ answers[i] \in Answers
             /\ Outcome(i, answers[i]) \in [rewards : {0, 1}, done : BOOLEAN,
                                            is_action_valid : BOOLEAN]
             /\ is_dt_step[i] => ~Outcome(i, answers[i]).done
             /\ TurnRow(i, Outcome(i, answers[i])) \in Rows
             /\ IsTurn(TurnRow(i, Outcome(i, answers[i])))
             /\ TurnRow(i, Outcome(i, answers[i])).is_dt_step = is_dt_step[i]
             /\ TurnRow(i, Outcome(i, answers[i])).active_masks = Active(i)
             /\ is_done[i] \in BOOLEAN
             /\ is_done'[i] = (is_done[i] \/ Outcome(i, answers[i]).done)
  <2>1. answers[i] \in Answers
    BY <1>1
  <2>2. is_dt_step[i] => ~Outcome(i, answers[i]).done
    BY DEF Outcome
  <2> QED BY <1>1, <1>2, <2>1, <2>2, TurnRowType DEF TypeOK
<1>6. ASSUME NEW i \in Envs
      PROVE  LET rows == total_batch_list[i]
                 new  == total_batch_list'[i]
             IN  /\ rows \in Seq(Rows) /\ new \in Seq(Rows)
                 /\ Len(new) = Len(rows) + 1 /\ Len(rows) \in Nat
                 /\ Spaced(new)
                 /\ InfoIndex(new, Len(new)) = InfoIndex(rows, Len(rows)) + 1
                 /\ \A k \in 1 .. Len(rows) : new[k] = rows[k]
                 /\ new[Len(new)].is_dt_step = is_dt_step[i]
                 /\ Active(i) => Judged(new[Len(new)])
  <2> DEFINE rows == total_batch_list[i]
             row  == TurnRow(i, Outcome(i, answers[i]))
             new  == total_batch_list'[i]
  <2>1. rows \in Seq(Rows) /\ Spaced(rows)
    BY <1>2 DEF TypeOK, CallsAreSpaced
  <2>2. /\ row \in Rows /\ IsTurn(row) /\ row.is_dt_step = is_dt_step[i]
        /\ row.active_masks = Active(i)
    BY <1>5
  <2>3. new = Append(rows, row)
    BY <1>1
  <2>4. is_dt_step[i] => Active(i) /\ (Len(rows) > 0 => ~rows[Len(rows)].is_dt_step)
    BY <1>2 DEF CooldownInv
  <2> HIDE DEF rows, row, new
  <2>5. Spaced(new)
    BY <2>1, <2>2, <2>3, <2>4, SpacedAppend
  <2>6. /\ new \in Seq(Rows) /\ Len(new) = Len(rows) + 1 /\ new[Len(rows) + 1] = row
        /\ Len(rows) \in Nat /\ \A k \in 1 .. Len(rows) : new[k] = rows[k]
    BY <2>1, <2>2, <2>3
  <2>7. InfoIndex(new, Len(new)) = InfoIndex(rows, Len(rows)) + 1
    BY <2>1, <2>2, <2>3, <2>6, InfoIndexAppend
  <2>8. Active(i) => Judged(new[Len(new)])
    BY <2>2, <2>6 DEF Judged
  <2>9. new[Len(new)].is_dt_step = is_dt_step[i]
    BY <2>2, <2>6
  <2> QED BY <2>1, <2>5, <2>6, <2>7, <2>8, <2>9 DEF rows, new
<1>7. phase' \in {"gate", "compose", "evaluate"} /\ phase' \in Phases
  BY <1>2, FreshTypes DEF AfterStep, Phases
<1>8. ManagerTypeOK'
  <2>1. dt_states' \in [Envs -> DTState(MaxSteps)]
    BY <1>2, DTStateType DEF TypeOK, ManagerTypeOK
  <2>2. ASSUME NEW i \in Envs
        PROVE  /\ memory'[i] \in Seq(Actions) /\ Len(memory'[i]) = env_step + 1
               /\ games'[i] \in [steps : 0 .. env_step + 1, standing : Standings]
               /\ obs'[i] \in Prompts(MaxSteps + 1)
    <3>1. memory[i] \in Seq(Actions) /\ Len(memory[i]) = env_step
      BY <1>2 DEF TypeOK, ManagerTypeOK, LockStepInv
    <3>2. ProjectedCommand(text_actions[i]) \in Actions
      BY <1>2, ProjectionType DEF TypeOK
    <3>3. memory'[i] = Append(memory[i], ProjectedCommand(text_actions[i]))
          /\ obs'[i] = BuildTextObs(FALSE, memory'[i], dt_states[i])
          /\ games'[i] = GamePlayed(games[i], answers[i])
      BY <1>1 DEF ManagerStep
    <3>4. memory'[i] \in Seq(Actions) /\ Len(memory'[i]) = env_step + 1
      BY <3>1, <3>2, <3>3
    <3>5. games[i] \in [steps : 0 .. env_step, standing : Standings]
      BY <1>2, <1>3 DEF TypeOK, ManagerTypeOK, LockStepInv
    <3>6. games'[i] \in [steps : 0 .. env_step + 1, standing : Standings]
      <4>1. env_step \in Nat
        BY <1>3
      <4> QED BY <1>5, <3>3, <3>5, <4>1, GameType
    <3>7. obs'[i] \in Prompts(MaxSteps + 1)
      <4>1. dt_states[i] \in DTState(MaxSteps)
        BY <1>2 DEF TypeOK, ManagerTypeOK
      <4>2. Len(memory'[i]) <= MaxSteps
        BY <1>3, <3>4
      <4> QED BY <3>3, <3>4, <4>1, <4>2, PromptType
    <3> QED BY <3>4, <3>6, <3>7
  <2>3. /\ games' = [i \in Envs |-> games'[i]]
        /\ memory' = [i \in Envs |-> memory'[i]]
        /\ obs' = [i \in Envs |-> obs'[i]]
    BY <1>1 DEF ManagerStep
  <2>4. memory' \in [Envs -> Seq(Actions)] /\ obs' \in [Envs -> Prompts(MaxSteps + 1)]
    BY <2>2, <2>3
  <2>5. games' \in [Envs -> [steps : 0 .. MaxSteps, standing : Standings]]
    <3>1. \A i \in Envs : games'[i] \in [steps : 0 .. MaxSteps, standing : Standings]
      BY <1>3, <2>2
    <3> QED BY <2>3, <3>1
  <2> QED BY <1>4, <1>2, <2>1, <2>4, <2>5 DEF ManagerTypeOK, TypeOK
<1>9. TypeOK'
  <2>1. total_batch_list' \in [Envs -> Seq(Rows)]
    BY <1>1, <1>6
  <2>2. total_infos' \in [Envs -> Seq(Infos)]
    <3>1. \A i \in Envs : total_infos[i] \in Seq(Infos)
      BY <1>2 DEF TypeOK
    <3>2. \A i \in Envs : [won |-> answers[i].won,
                           is_action_valid |-> Outcome(i, answers[i]).is_action_valid] \in Infos
      BY <1>5 DEF Answers, Infos
    <3> QED BY <1>1, <3>1, <3>2
  <2>3. is_done' \in [Envs -> BOOLEAN]
    BY <1>1, <1>5
  <2>4. episode_rewards' \in [Envs -> Nat]
    <3>1. \A i \in Envs : episode_rewards[i] \in Nat
                          /\ Outcome(i, answers[i]).rewards \in Nat
      <4>1. ASSUME NEW i \in Envs PROVE Outcome(i, answers[i]).rewards \in Nat
        <5>1. Outcome(i, answers[i]) \in [rewards : {0, 1}, done : BOOLEAN,
                                          is_action_valid : BOOLEAN]
          BY <1>5
        <5> QED BY <5>1
      <4> QED BY <1>2, <4>1 DEF TypeOK
    <3>2. \A i \in Envs : episode_rewards[i] +
              (IF Rewarded(i) THEN Outcome(i, answers[i]).rewards ELSE 0) \in Nat
      <4>1. \A m, n \in Nat : m + n \in Nat /\ m + 0 \in Nat
        OBVIOUS
      <4>2. ASSUME NEW i \in Envs
            PROVE  (IF Rewarded(i) THEN Outcome(i, answers[i]).rewards ELSE 0) \in Nat
        BY <3>1
      <4> QED BY <3>1, <4>1, <4>2
    <3> QED BY <1>1, <3>2
  <2>5. episode_lengths' \in [Envs -> Nat]
    BY <1>2, ChargeType DEF TypeOK
  <2>6. /\ rollout' \in 0 .. Rollouts
        /\ gate_decisions' \in [Envs -> BOOLEAN] /\ system' \in [Envs -> Systems]
        /\ text_actions' \in [Envs -> Actions] /\ is_dt_step' \in [Envs -> BOOLEAN]
        /\ tool_callings' \in [Envs -> Nat] /\ total_output_tokens' \in [Envs -> Nat]
        /\ action_output_tokens' \in [Envs -> Nat] /\ success' \in [Envs -> BOOLEAN]
        /\ gen_batch_output' \in [Envs -> Reports]
    BY <1>2 DEF TypeOK
  <2>7. env_step' \in 0 .. MaxSteps
    BY <1>3
  <2> QED BY ONLY <1>7, <1>8, <2>1, <2>2, <2>3, <2>4, <2>5, <2>6, <2>7 DEF TypeOK
<1>10. CallsAreSpaced'
  BY <1>6 DEF CallsAreSpaced
<1>11. PhaseInv'
  BY <1>4, <1>2, <1>3, <1>7 DEF PhaseInv, TurnPhases, AfterStep, FirstPhase
<1>12. LockStepInv'
  <2> SUFFICES ASSUME NEW i \in Envs
               PROVE  /\ Len(memory'[i]) = env_step + 1
                      /\ games'[i].steps <= env_step + 1
                      /\ InfoIndex(total_batch_list'[i], Len(total_batch_list'[i]))
                           = Len(total_infos'[i])
                      /\ \E k \in 1 .. Len(total_batch_list'[i]) :
                           Judged(total_batch_list'[i][k])
    <3>1. env_step' = env_step + 1 /\ env_step' # 0
      BY <1>2, <1>3
    <3> QED BY <3>1 DEF LockStepInv
  <2>1. Len(memory'[i]) = env_step + 1
    <3>1. memory'[i] = Append(memory[i], ProjectedCommand(text_actions[i]))
      BY <1>1 DEF ManagerStep
    <3>2. memory[i] \in Seq(Actions) /\ Len(memory[i]) = env_step
      BY <1>2 DEF LockStepInv, TypeOK, ManagerTypeOK
    <3> QED BY <3>1, <3>2
  <2>2. games'[i].steps <= env_step + 1
    <3>1. games'[i] = GamePlayed(games[i], answers[i])
      BY <1>1 DEF ManagerStep
    <3>2. games[i].steps <= env_step /\ games[i].steps \in Nat /\ env_step \in Nat
      BY <1>2, <1>3 DEF LockStepInv, TypeOK, ManagerTypeOK
    <3>3. GamePlayed(games[i], answers[i]).steps \in {games[i].steps, games[i].steps + 1}
      BY DEF GamePlayed
    <3> QED BY <3>1, <3>2, <3>3
  <2>3. Len(total_infos'[i]) = Len(total_infos[i]) + 1
    BY <1>1, <1>2 DEF TypeOK
  <2>4. InfoIndex(total_batch_list'[i], Len(total_batch_list'[i])) = Len(total_infos'[i])
    BY <1>2, <1>6, <2>3 DEF LockStepInv
  <2>5. \E k \in 1 .. Len(total_batch_list'[i]) : Judged(total_batch_list'[i][k])
    <3>1. CASE Active(i)
      BY <1>6, <3>1
    <3>2. CASE ~Active(i)
      <4>1. env_step > 0
        BY <1>2, <1>3, <3>2 DEF LockStepInv, Active
      <4>2. PICK k \in 1 .. Len(total_batch_list[i]) : Judged(total_batch_list[i][k])
        BY <1>2, <4>1 DEF LockStepInv
      <4> QED BY <1>6, <4>2
    <3> QED BY <3>1, <3>2
  <2> QED BY <2>1, <2>2, <2>4, <2>5
<1>13. CooldownInv'
  <2> SUFFICES ASSUME NEW i \in Envs
               PROVE  /\ dt_states'[i].dt_count = tool_callings[i]
                      /\ is_dt_step[i] => dt_states'[i].just_called_dt /\ ~is_done'[i]
                      /\ thinking_mode = "selective_gate" => ~is_dt_step[i]
    BY <1>4, <1>2, <1>6, <1>7 DEF CooldownInv, Active
  <2>1. dt_states'[i] = IF RealAction(i) THEN ConsumeDTBlock(dt_states[i]) ELSE dt_states[i]
    BY <1>2
  <2>2. dt_states[i] \in DTState(MaxSteps) /\ dt_states[i].dt_count = tool_callings[i]
    BY <1>2 DEF TypeOK, ManagerTypeOK, CooldownInv
  <2>3. dt_states'[i].dt_count = tool_callings[i]
    <3>1. ConsumeDTBlock(dt_states[i]).dt_count = dt_states[i].dt_count
      BY <2>2, DTStateType
    <3> QED BY <2>1, <2>2, <3>1
  <2>4. is_dt_step[i] => dt_states'[i].just_called_dt /\ ~is_done'[i]
    BY <1>2, <1>5, <2>1 DEF CooldownInv, RealAction, Active
  <2> QED BY <1>2, <2>3, <2>4 DEF CooldownInv
<1>14. BudgetInv'
  <2> SUFFICES ASSUME NEW i \in Envs
               PROVE  /\ episode_lengths'[i] <= env_step + 1
                      /\ ~is_done'[i] =>
                           IF thinking_mode = "selective_gate"
                           THEN episode_lengths'[i] = env_step + 1
                           ELSE episode_lengths'[i] + tool_callings[i] = env_step + 1
    BY <1>4, <1>2, <1>7 DEF BudgetInv, Active
  <2>1. episode_lengths[i] \in Nat /\ tool_callings[i] \in Nat /\ env_step \in Nat
        /\ is_dt_step[i] \in BOOLEAN
    BY <1>2, <1>3 DEF TypeOK
  <2>2. episode_lengths'[i] = episode_lengths[i] + (IF RealAction(i) THEN 1 ELSE 0)
    BY <1>2, <2>1 DEF Charge, TypeOK
  <2>3. episode_lengths[i] <= env_step
    BY <1>2 DEF BudgetInv
  <2>4. CASE is_done'[i]
    BY <2>1, <2>2, <2>3, <2>4
  <2>5. CASE ~is_done'[i]
    <3>1. Active(i)
      BY <1>5, <2>5 DEF Active
    <3>2. CASE thinking_mode = "selective_gate"
      <4>1. ~is_dt_step[i] /\ episode_lengths[i] = env_step
        BY <1>2, <3>1, <3>2 DEF BudgetInv, CooldownInv
      <4>2. episode_lengths'[i] = episode_lengths[i] + 1
        BY <2>2, <3>1, <4>1 DEF RealAction
      <4> QED BY <2>1, <3>2, <4>1, <4>2
    <3>3. CASE thinking_mode = "dt_action" /\ is_dt_step[i]
      <4>1. episode_lengths[i] + tool_callings[i] = env_step + 1
        BY <1>2, <3>1, <3>3 DEF BudgetInv
      <4>2. episode_lengths'[i] = episode_lengths[i]
        BY <2>1, <2>2, <3>3 DEF RealAction
      <4> QED BY <2>1, <3>3, <4>1, <4>2
    <3>4. CASE thinking_mode = "dt_action" /\ ~is_dt_step[i]
      <4>1. episode_lengths[i] + tool_callings[i] = env_step
        BY <1>2, <3>1, <3>4 DEF BudgetInv
      <4>2. episode_lengths'[i] = episode_lengths[i] + 1
        BY <2>1, <2>2, <3>1, <3>4 DEF RealAction
      <4> QED BY <2>1, <3>4, <4>1, <4>2
    <3> QED BY <1>4, <3>2, <3>3, <3>4
  <2> QED BY <2>4, <2>5
<1>15. RenewalInv'
  BY <1>7 DEF RenewalInv, Renewing
<1> QED BY <1>9, <1>10, <1>11, <1>12, <1>13, <1>14, <1>15 DEF IInv

-----------------------------------------------------------------------------
(* The theorems.                                                             *)

\* Every step of the rollout keeps the inductive invariant.
LEMMA NextInv == IInv /\ [Next]_vars => IInv'
BY InitInv, ResetInv, RenewalKeepsInv, GateInv, DeliberateInv, ComposeInv, GenerateInv, InterceptInv,
   StepEnvsInv, EvaluateInv, GatherInv, StutterInv DEF Next

(* The loop only reaches states of the inductive invariant. *)
THEOREM Inductive == Spec => []IInv
BY InitInv, NextInv, PTL DEF Spec

(* The variables of the loop keep their types: prompts, memos and counters   *)
(* stay in range for every batch, step limit and history length.             *)
THEOREM TypeCorrect == Spec => []TypeOK
<1>1. IInv => TypeOK
  BY DEF IInv
<1> QED BY <1>1, Inductive, PTL

(* The cooldown holds in both modes: no trajectory ever has two calls of     *)
(* deep_think in consecutive rows, and a finished one has none at its end.   *)
THEOREM CooldownHolds == Spec => []CallsAreSpaced
<1>1. IInv => CallsAreSpaced
  BY DEF IInv
<1> QED BY <1>1, Inductive, PTL

-----------------------------------------------------------------------------
(* What the steps write, trajectory by trajectory.                           *)

(* How a row of the gate is counted. *)
LEMMA GateRowCounted ==
  ASSUME NEW d \in BOOLEAN
  PROVE  /\ GateRow(d) \in Rows /\ GateStep(GateRow(d)) /\ (Call(GateRow(d)) <=> d)
         /\ ~IsTurn(GateRow(d)) /\ ~EnvRow(GateRow(d)) /\ ~ActiveTurn(GateRow(d))
         /\ ~RealTurn(GateRow(d)) /\ ~Rewarding(GateRow(d))
         /\ ~GateRow(d).is_dt_step /\ ~Judged(GateRow(d))
BY DEF GateRow, Rows, GateStep, Call, IsTurn, EnvRow, ActiveTurn, RealTurn, Rewarding, Judged

(* How a row of a turn is counted. *)
LEMMA TurnRowCounted ==
  ASSUME TypeOK, NEW i \in Envs, NEW a \in Answers
  PROVE  LET row == TurnRow(i, Outcome(i, a))
         IN  /\ row \in Rows /\ EnvRow(row) /\ IsTurn(row) /\ ~GateStep(row)
             /\ ActiveTurn(row) <=> Active(i)
             /\ Judged(row) <=> Active(i)
             /\ RealTurn(row) <=> RealAction(i)
             /\ Call(row) <=> is_dt_step[i]
             /\ row.is_dt_step = is_dt_step[i]
             /\ row.is_action_valid = Outcome(i, a).is_action_valid
             /\ row.rewards = Outcome(i, a).rewards
             /\ Outcome(i, a).rewards = IF ~is_dt_step[i] /\ a.won THEN 1 ELSE 0
             /\ Outcome(i, a).done <=> a.done /\ ~is_dt_step[i]
             /\ Outcome(i, a).is_action_valid \in BOOLEAN
             /\ is_dt_step[i] => Outcome(i, a).is_action_valid
             /\ Rewarding(row) <=> RealAction(i) /\ a.won
<1>1. is_dt_step[i] \in BOOLEAN /\ Active(i) \in BOOLEAN
      /\ a.won \in BOOLEAN /\ a.done \in BOOLEAN
  BY DEF TypeOK, Active, Answers
<1>2. /\ Outcome(i, a).rewards = IF ~is_dt_step[i] /\ a.won THEN 1 ELSE 0
      /\ Outcome(i, a).done <=> a.done /\ ~is_dt_step[i]
      /\ Outcome(i, a).is_action_valid \in BOOLEAN
      /\ is_dt_step[i] => Outcome(i, a).is_action_valid
  BY <1>1 DEF Outcome, ComputeReward, ProjectedValid
<1> DEFINE row == TurnRow(i, Outcome(i, a))
<1>3. /\ row \in Rows /\ ~row.is_gate_step /\ ~row.gate_decision
      /\ row.is_dt_step = is_dt_step[i] /\ row.active_masks = Active(i)
      /\ row.is_action_valid = Outcome(i, a).is_action_valid
      /\ row.rewards = Outcome(i, a).rewards
  BY <1>1, <1>2 DEF TurnRow, Rows
<1> HIDE DEF row
<1>4. /\ EnvRow(row) /\ IsTurn(row) /\ ~GateStep(row) /\ (Call(row) <=> is_dt_step[i])
      /\ (ActiveTurn(row) <=> Active(i)) /\ (Judged(row) <=> Active(i))
      /\ (RealTurn(row) <=> RealAction(i))
  BY <1>3 DEF EnvRow, IsTurn, GateStep, Call, ActiveTurn, Judged, RealTurn, RealAction
<1>5. Rewarding(row) <=> RealAction(i) /\ a.won
  BY <1>1, <1>2, <1>3, <1>4 DEF Rewarding, RealAction
<1> QED BY <1>2, <1>3, <1>4, <1>5 DEF row

(* The gate. *)
LEMMA GateFacts ==
  ASSUME IInv, Gate
  PROVE  /\ phase = "gate" /\ phase' = "deliberate" /\ thinking_mode = "selective_gate"
         /\ UNCHANGED <<managerVars, rollout, env_step, is_done, is_dt_step, text_actions,
                        total_infos, episode_rewards, episode_lengths, tool_callings,
                        action_output_tokens, success, gen_batch_output>>
         /\ \A i \in Envs :
              /\ gate_decisions'[i] \in BOOLEAN
              /\ gate_decisions'[i] => Active(i)
              /\ total_batch_list'[i] =
                   IF Active(i) THEN Append(total_batch_list[i], GateRow(gate_decisions'[i]))
                                ELSE total_batch_list[i]
              /\ total_output_tokens'[i] =
                   total_output_tokens[i] + (IF Active(i) THEN 1 ELSE 0)
<1>1. PICK outs \in [Envs -> GateChoices] :
        /\ gate_decisions' = [i \in Envs |-> Active(i) /\ GateOpens(outs[i], dt_states[i])]
        /\ total_batch_list' =
             [i \in Envs |-> IF Active(i)
                             THEN Append(total_batch_list[i], GateRow(gate_decisions'[i]))
                             ELSE total_batch_list[i]]
  BY DEF Gate
<1>2. /\ phase = "gate" /\ phase' = "deliberate"
      /\ UNCHANGED <<managerVars, rollout, env_step, is_done, is_dt_step, text_actions,
                     total_infos, episode_rewards, episode_lengths, tool_callings,
                     action_output_tokens, success, gen_batch_output>>
      /\ total_output_tokens' = Charge(total_output_tokens, {i \in Envs : Active(i)}, 1)
      /\ TypeOK /\ thinking_mode = "selective_gate"
  BY DEF Gate, IInv, PhaseInv
<1>3. ASSUME NEW i \in Envs
      PROVE  /\ gate_decisions'[i] \in BOOLEAN
             /\ gate_decisions'[i] => Active(i)
  BY <1>1, <1>2 DEF TypeOK, Active, GateOpens, GateDecision
<1>4. ASSUME NEW i \in Envs
      PROVE  total_output_tokens'[i] = total_output_tokens[i] + (IF Active(i) THEN 1 ELSE 0)
  BY <1>2 DEF TypeOK, Charge
<1> QED BY <1>1, <1>2, <1>3, <1>4

(* The calls of a set of trajectories. *)
LEMMA DeepThinkFacts ==
  ASSUME TypeOK, NEW S \in SUBSET Envs, DeepThink(S), env_step < MaxSteps
  PROVE  \A i \in Envs :
           /\ tool_callings'[i] = tool_callings[i] + (IF i \in S THEN 1 ELSE 0)
           /\ total_output_tokens'[i] = total_output_tokens[i] + (IF i \in S THEN 2 ELSE 0)
           /\ i \in S => dt_states'[i].memo_step = env_step + 1
           /\ i \in S => dt_states'[i].just_called_dt
           /\ i \notin S => dt_states'[i] = dt_states[i]
<1>1. PICK memos \in [S -> MemoChoices[thinking_mode]] :
        dt_states' = [i \in Envs |-> IF i \in S
                                     THEN RecordDeepThink(dt_states[i], memos[i], env_step + 1)
                                     ELSE dt_states[i]]
  BY DEF DeepThink
<1>2. ASSUME NEW i \in Envs
      PROVE  /\ i \in S => dt_states'[i].memo_step = env_step + 1
             /\ i \in S => dt_states'[i].just_called_dt
             /\ i \notin S => dt_states'[i] = dt_states[i]
  BY <1>1 DEF RecordDeepThink
<1>3. ASSUME NEW i \in Envs
      PROVE  /\ tool_callings'[i] = tool_callings[i] + (IF i \in S THEN 1 ELSE 0)
             /\ total_output_tokens'[i] = total_output_tokens[i] + (IF i \in S THEN 2 ELSE 0)
  BY DEF DeepThink, Charge, TypeOK
<1> QED BY <1>2, <1>3

(* The deliberation of selective_gate. *)
LEMMA DeliberateFacts ==
  ASSUME IInv, Deliberate
  PROVE  /\ phase = "deliberate" /\ phase' = "compose" /\ thinking_mode = "selective_gate"
         /\ UNCHANGED <<thinking_mode, memory, games, obs, rollout, env_step, is_done,
                        loopLocals, total_batch_list, total_infos, episode_rewards,
                        episode_lengths, action_output_tokens, success, gen_batch_output>>
         /\ \A i \in Envs :
              LET called == Active(i) /\ gate_decisions[i]
              IN  /\ tool_callings'[i] = tool_callings[i] + (IF called THEN 1 ELSE 0)
                  /\ total_output_tokens'[i] = total_output_tokens[i] + (IF called THEN 2 ELSE 0)
                  /\ called => dt_states'[i].memo_step = env_step + 1
                  /\ called => dt_states'[i].just_called_dt
                  /\ called => ~dt_states[i].just_called_dt
                  /\ ~called => dt_states'[i] = dt_states[i]
<1> DEFINE S == {i \in Envs : Active(i) /\ gate_decisions[i]}
<1>1. /\ TypeOK /\ PhaseInv /\ CooldownInv
      /\ phase = "deliberate" /\ phase' = "compose" /\ DeepThink(S)
      /\ UNCHANGED <<thinking_mode, memory, games, obs, rollout, env_step, is_done,
                     loopLocals, total_batch_list, total_infos, episode_rewards,
                     episode_lengths, action_output_tokens, success, gen_batch_output>>
  BY DEF IInv, Deliberate
<1>2. env_step < MaxSteps /\ thinking_mode = "selective_gate"
  BY <1>1 DEF PhaseInv, TurnPhases
<1>3. S \in SUBSET Envs /\ \A i \in Envs : i \in S <=> Active(i) /\ gate_decisions[i]
  OBVIOUS
<1> HIDE DEF S
<1>4. \A i \in Envs :
        /\ tool_callings'[i] = tool_callings[i] + (IF i \in S THEN 1 ELSE 0)
        /\ total_output_tokens'[i] = total_output_tokens[i] + (IF i \in S THEN 2 ELSE 0)
        /\ i \in S => dt_states'[i].memo_step = env_step + 1
        /\ i \in S => dt_states'[i].just_called_dt
        /\ i \notin S => dt_states'[i] = dt_states[i]
  BY <1>1, <1>2, <1>3, DeepThinkFacts
<1>5. \A i \in Envs : gate_decisions[i] => ~dt_states[i].just_called_dt
  BY <1>1 DEF CooldownInv
<1> QED BY <1>1, <1>2, <1>3, <1>4, <1>5

(* The interception of dt_action. *)
LEMMA InterceptFacts ==
  ASSUME IInv, Intercept
  PROVE  /\ phase = "intercept" /\ phase' = "step" /\ thinking_mode = "dt_action"
         /\ UNCHANGED <<thinking_mode, memory, games, obs, rollout, env_step, is_done,
                        gate_decisions, system, total_batch_list, total_infos,
                        episode_rewards, episode_lengths, action_output_tokens, success,
                        gen_batch_output>>
         /\ \A i \in Envs :
              /\ is_dt_step'[i] \in BOOLEAN
              /\ is_dt_step'[i] => Active(i) /\ ~dt_states[i].just_called_dt
              /\ tool_callings'[i] = tool_callings[i] + (IF is_dt_step'[i] THEN 1 ELSE 0)
              /\ total_output_tokens'[i] =
                   total_output_tokens[i] + (IF is_dt_step'[i] THEN 2 ELSE 0)
              /\ is_dt_step'[i] => dt_states'[i].memo_step = env_step + 1
              /\ is_dt_step'[i] => dt_states'[i].just_called_dt
              /\ ~is_dt_step'[i] => dt_states'[i] = dt_states[i]
<1> DEFINE S == {i \in Envs : CallsDeepThink(i)}
<1>1. /\ TypeOK /\ PhaseInv
      /\ phase = "intercept" /\ phase' = "step" /\ DeepThink(S)
      /\ is_dt_step' = [i \in Envs |-> i \in S]
      /\ UNCHANGED <<thinking_mode, memory, games, obs, rollout, env_step, is_done,
                     gate_decisions, system, total_batch_list, total_infos,
                     episode_rewards, episode_lengths, action_output_tokens, success,
                     gen_batch_output>>
  BY DEF IInv, Intercept
<1>2. env_step < MaxSteps /\ thinking_mode = "dt_action"
  BY <1>1 DEF PhaseInv, TurnPhases
<1>3. S \in SUBSET Envs /\ \A i \in S : Active(i) /\ ~dt_states[i].just_called_dt
  BY DEF CallsDeepThink
<1> HIDE DEF S
<1>4. ASSUME NEW i \in Envs
      PROVE  is_dt_step'[i] \in BOOLEAN /\ (is_dt_step'[i] <=> i \in S)
  <2>1. is_dt_step' \in [Envs -> BOOLEAN]
    BY <1>1
  <2>2. is_dt_step'[i] <=> i \in S
    BY <1>1
  <2> QED BY <2>1, <2>2
<1>5. \A i \in Envs :
        /\ tool_callings'[i] = tool_callings[i] + (IF i \in S THEN 1 ELSE 0)
        /\ total_output_tokens'[i] = total_output_tokens[i] + (IF i \in S THEN 2 ELSE 0)
        /\ i \in S => dt_states'[i].memo_step = env_step + 1
        /\ i \in S => dt_states'[i].just_called_dt
        /\ i \notin S => dt_states'[i] = dt_states[i]
  BY <1>1, <1>2, <1>3, DeepThinkFacts
<1>6. ASSUME NEW i \in Envs
      PROVE  /\ is_dt_step'[i] \in BOOLEAN
             /\ is_dt_step'[i] => Active(i) /\ ~dt_states[i].just_called_dt
             /\ tool_callings'[i] = tool_callings[i] + (IF is_dt_step'[i] THEN 1 ELSE 0)
             /\ total_output_tokens'[i] =
                  total_output_tokens[i] + (IF is_dt_step'[i] THEN 2 ELSE 0)
             /\ is_dt_step'[i] => dt_states'[i].memo_step = env_step + 1
             /\ is_dt_step'[i] => dt_states'[i].just_called_dt
             /\ ~is_dt_step'[i] => dt_states'[i] = dt_states[i]
  <2>1. CASE i \in S
    <3>1. is_dt_step'[i] /\ is_dt_step'[i] \in BOOLEAN
      BY <1>4, <2>1
    <3> QED BY <1>3, <1>5, <2>1, <3>1
  <2>2. CASE i \notin S
    <3>1. ~is_dt_step'[i] /\ is_dt_step'[i] \in BOOLEAN
      BY <1>4, <2>2
    <3> QED BY <1>5, <2>2, <3>1
  <2> QED BY <2>1, <2>2
<1> QED BY <1>1, <1>2, <1>6

(* The turn. *)
LEMMA StepEnvsFacts ==
  ASSUME IInv, StepEnvs
  PROVE  /\ phase = "step" /\ phase' = AfterStep(is_done', env_step + 1)
         /\ env_step' = env_step + 1 /\ env_step < MaxSteps /\ env_step \in Nat
         /\ phase' \in {FirstPhase, "evaluate"}
         /\ UNCHANGED <<thinking_mode, rollout, loopLocals, tool_callings,
                        total_output_tokens, action_output_tokens, success, gen_batch_output>>
         /\ \E answers \in [Envs -> Answers] : \A i \in Envs :
              /\ answers[i] \in GameAnswers(games[i], ProjectedCommand(text_actions[i]))
              /\ games'[i] = GamePlayed(games[i], answers[i])
              /\ obs'[i] = BuildTextObs(FALSE, memory'[i], dt_states[i])
              /\ Len(memory'[i]) = env_step + 1
              /\ total_batch_list'[i] =
                   Append(total_batch_list[i], TurnRow(i, Outcome(i, answers[i])))
              /\ total_infos'[i] =
                   Append(total_infos[i],
                          [won |-> answers[i].won,
                           is_action_valid |-> Outcome(i, answers[i]).is_action_valid])
              /\ is_done'[i] = (is_done[i] \/ Outcome(i, answers[i]).done)
              /\ episode_rewards'[i] = episode_rewards[i] +
                   (IF Active(i) THEN Outcome(i, answers[i]).rewards ELSE 0)
              /\ episode_lengths'[i] = episode_lengths[i] + (IF RealAction(i) THEN 1 ELSE 0)
              /\ dt_states'[i] = IF RealAction(i) THEN ConsumeDTBlock(dt_states[i])
                                 ELSE dt_states[i]
<1>1. PICK answers \in [Envs -> Answers] :
        /\ ManagerStep(text_actions, answers)
        /\ total_batch_list' = [i \in Envs |->
              Append(total_batch_list[i], TurnRow(i, Outcome(i, answers[i])))]
        /\ total_infos' = [i \in Envs |->
              Append(total_infos[i],
                     [won |-> answers[i].won,
                      is_action_valid |-> Outcome(i, answers[i]).is_action_valid])]
        /\ is_done' = [i \in Envs |-> is_done[i] \/ Outcome(i, answers[i]).done]
        /\ episode_rewards' = [i \in Envs |-> episode_rewards[i] +
              IF Rewarded(i) THEN Outcome(i, answers[i]).rewards ELSE 0]
  <2>1. PICK answers \in [Envs -> Answers] :
          LET outcome == [i \in Envs |-> Outcome(i, answers[i])]
          IN  /\ ManagerStep(text_actions, answers)
              /\ episode_rewards' = [i \in Envs |-> episode_rewards[i] +
                                       IF Rewarded(i) THEN outcome[i].rewards ELSE 0]
              /\ total_batch_list' = [i \in Envs |->
                                        Append(total_batch_list[i], TurnRow(i, outcome[i]))]
              /\ total_infos' = [i \in Envs |->
                                   Append(total_infos[i],
                                          [won |-> answers[i].won,
                                           is_action_valid |-> outcome[i].is_action_valid])]
              /\ is_done' = [i \in Envs |-> is_done[i] \/ outcome[i].done]
    BY DEF StepEnvs
  <2>2. \A i \in Envs : [j \in Envs |-> Outcome(j, answers[j])][i] = Outcome(i, answers[i])
    OBVIOUS
  <2> QED BY <2>1, <2>2
<1>2. /\ TypeOK /\ PhaseInv /\ LockStepInv
      /\ phase = "step" /\ env_step' = env_step + 1
      /\ phase' = AfterStep(is_done', env_step + 1)
      /\ episode_lengths' = Charge(episode_lengths, {i \in Envs : RealAction(i)}, 1)
      /\ dt_states' = [i \in Envs |-> IF RealAction(i) THEN ConsumeDTBlock(dt_states[i])
                                      ELSE dt_states[i]]
      /\ UNCHANGED <<rollout, loopLocals, tool_callings, total_output_tokens,
                     action_output_tokens, success, gen_batch_output>>
  BY DEF IInv, StepEnvs
<1>3. env_step < MaxSteps /\ env_step \in Nat
  BY <1>2 DEF PhaseInv, TurnPhases, TypeOK
<1>4. phase' \in {FirstPhase, "evaluate"}
  BY <1>2 DEF AfterStep
<1>5. thinking_mode' = thinking_mode
  BY <1>1 DEF ManagerStep
<1>6. ASSUME NEW i \in Envs
      PROVE  /\ answers[i] \in GameAnswers(games[i], ProjectedCommand(text_actions[i]))
             /\ games'[i] = GamePlayed(games[i], answers[i])
             /\ obs'[i] = BuildTextObs(FALSE, memory'[i], dt_states[i])
             /\ Len(memory'[i]) = env_step + 1
  <2>1. /\ answers[i] \in GameAnswers(games[i], ProjectedCommand(text_actions[i]))
        /\ games'[i] = GamePlayed(games[i], answers[i])
        /\ obs'[i] = BuildTextObs(FALSE, memory'[i], dt_states[i])
        /\ memory'[i] = Append(memory[i], ProjectedCommand(text_actions[i]))
    BY <1>1 DEF ManagerStep
  <2>2. memory[i] \in Seq(Actions) /\ Len(memory[i]) = env_step
    BY <1>2 DEF TypeOK, ManagerTypeOK, LockStepInv
  <2> QED BY <2>1, <2>2
<1>7. ASSUME NEW i \in Envs
      PROVE  /\ total_batch_list'[i] =
                  Append(total_batch_list[i], TurnRow(i, Outcome(i, answers[i])))
             /\ total_infos'[i] =
                  Append(total_infos[i],
                         [won |-> answers[i].won,
                          is_action_valid |-> Outcome(i, answers[i]).is_action_valid])
             /\ is_done'[i] = (is_done[i] \/ Outcome(i, answers[i]).done)
  BY <1>1
<1>8. ASSUME NEW i \in Envs
      PROVE  /\ episode_rewards'[i] = episode_rewards[i] +
                  (IF Active(i) THEN Outcome(i, answers[i]).rewards ELSE 0)
             /\ episode_lengths'[i] = episode_lengths[i] + (IF RealAction(i) THEN 1 ELSE 0)
             /\ dt_states'[i] = IF RealAction(i) THEN ConsumeDTBlock(dt_states[i])
                                ELSE dt_states[i]
  <2>1. episode_rewards'[i] = episode_rewards[i] +
          (IF Active(i) THEN Outcome(i, answers[i]).rewards ELSE 0)
    BY <1>1 DEF Rewarded
  <2>2. episode_lengths'[i] = episode_lengths[i] + (IF RealAction(i) THEN 1 ELSE 0)
    BY <1>2 DEF TypeOK, Charge
  <2>3. dt_states'[i] = IF RealAction(i) THEN ConsumeDTBlock(dt_states[i]) ELSE dt_states[i]
    BY <1>2
  <2> QED BY <2>1, <2>2, <2>3
<1>9. \A i \in Envs :
        /\ answers[i] \in GameAnswers(games[i], ProjectedCommand(text_actions[i]))
        /\ games'[i] = GamePlayed(games[i], answers[i])
        /\ obs'[i] = BuildTextObs(FALSE, memory'[i], dt_states[i])
        /\ Len(memory'[i]) = env_step + 1
        /\ total_batch_list'[i] =
             Append(total_batch_list[i], TurnRow(i, Outcome(i, answers[i])))
        /\ total_infos'[i] =
             Append(total_infos[i],
                    [won |-> answers[i].won,
                     is_action_valid |-> Outcome(i, answers[i]).is_action_valid])
        /\ is_done'[i] = (is_done[i] \/ Outcome(i, answers[i]).done)
        /\ episode_rewards'[i] = episode_rewards[i] +
             (IF Active(i) THEN Outcome(i, answers[i]).rewards ELSE 0)
        /\ episode_lengths'[i] = episode_lengths[i] + (IF RealAction(i) THEN 1 ELSE 0)
        /\ dt_states'[i] = IF RealAction(i) THEN ConsumeDTBlock(dt_states[i])
                           ELSE dt_states[i]
  BY <1>6, <1>7, <1>8
<1> QED BY ONLY <1>1, <1>2, <1>3, <1>4, <1>5, <1>9

-----------------------------------------------------------------------------
(* The counters.                                                             *)

(* The rows of a trajectory are rows, and their counts are numbers. *)
LEMMA RowsCounted ==
  ASSUME TypeOK, NEW i \in Envs
  PROVE  LET rows == total_batch_list[i]
         IN  /\ rows \in Seq(Rows)
             /\ EnvRows(rows) \in Nat /\ ActiveTurns(rows) \in Nat /\ RealTurns(rows) \in Nat
             /\ GateSteps(rows) \in Nat /\ Calls(rows) \in Nat /\ Rewardings(rows) \in Nat
             /\ tool_callings[i] \in Nat /\ total_output_tokens[i] \in Nat
             /\ action_output_tokens[i] \in Nat /\ episode_lengths[i] \in Nat
             /\ episode_rewards[i] \in Nat
             /\ is_dt_step[i] \in BOOLEAN /\ is_done[i] \in BOOLEAN /\ gate_decisions[i] \in BOOLEAN
<1>1. GateRow(TRUE) \in Rows
  BY GateRowType
<1>2. total_batch_list[i] \in Seq(Rows)
  BY DEF TypeOK
<1>3. /\ tool_callings[i] \in Nat /\ total_output_tokens[i] \in Nat
      /\ action_output_tokens[i] \in Nat /\ episode_lengths[i] \in Nat
      /\ episode_rewards[i] \in Nat
      /\ is_dt_step[i] \in BOOLEAN /\ is_done[i] \in BOOLEAN /\ gate_decisions[i] \in BOOLEAN
  BY DEF TypeOK
<1> QED BY <1>1, <1>2, <1>3, CountsAppend

\* Before the first rollout nothing is counted and no row is gathered.
LEMMA InitLedger == Init => LedgerInv
<1> SUFFICES ASSUME Init, NEW i \in Envs
             PROVE  /\ total_batch_list[i] = <<>> /\ ~RowAhead(i) /\ ~CallAhead(i) /\ ~ActionAhead(i)
                    /\ episode_lengths[i] = 0 /\ episode_rewards[i] = 0 /\ tool_callings[i] = 0
                    /\ action_output_tokens[i] = 0 /\ total_output_tokens[i] = 0
  BY CountsEmpty DEF LedgerInv
<1> QED BY DEF Init, AllEnvs, RowAhead, CallAhead, ActionAhead

\* A new batch of environments starts with empty rows and counters.
LEMMA ResetLedger == ASSUME Reset PROVE LedgerInv'
<1> SUFFICES ASSUME NEW i \in Envs
             PROVE  /\ total_batch_list'[i] = <<>>
                    /\ ~RowAhead(i)' /\ ~CallAhead(i)' /\ ~ActionAhead(i)'
                    /\ episode_lengths'[i] = 0 /\ episode_rewards'[i] = 0 /\ tool_callings'[i] = 0
                    /\ action_output_tokens'[i] = 0 /\ total_output_tokens'[i] = 0
  BY CountsEmpty DEF LedgerInv
<1>1. phase' = "renew"
  BY DEF Reset
<1> QED BY <1>1 DEF Reset, AllEnvs, RowAhead, CallAhead, ActionAhead

(* The steps that neither record a row nor charge a trajectory. *)
LEMMA QuietLedger ==
  ASSUME LedgerInv,
         UNCHANGED <<is_done, total_batch_list, ledgers>>,
         \A i \in Envs : ~RowAhead(i) /\ ~CallAhead(i) /\ ~ActionAhead(i),
         \A i \in Envs : ~RowAhead(i)' /\ ~CallAhead(i)' /\ ~ActionAhead(i)'
  PROVE  LedgerInv'
BY DEF LedgerInv, ledgers

\* The gate gives active environments a row and a token; a decision to call is ahead
\* of the call it announces.
LEMMA GateLedger == ASSUME IInv, LedgerInv, Gate PROVE LedgerInv'
<1>1. TypeOK
  BY DEF IInv
<1>2. ASSUME NEW i \in Envs
      PROVE  LET rows == total_batch_list[i]
                 new  == total_batch_list'[i]
             IN  /\ gate_decisions'[i] => Active(i)
                 /\ episode_lengths[i] = RealTurns(new)
                 /\ episode_rewards[i] = Rewardings(new)
                 /\ tool_callings[i] + (IF gate_decisions'[i] THEN 1 ELSE 0) = Calls(new)
                 /\ action_output_tokens[i] = ActiveTurns(new)
                 /\ total_output_tokens'[i] =
                      action_output_tokens[i] + GateSteps(new) + 2 * tool_callings[i]
  <2> DEFINE rows == total_batch_list[i]
             new  == total_batch_list'[i]
             row  == GateRow(gate_decisions'[i])
  <2>1. /\ gate_decisions'[i] \in BOOLEAN
        /\ gate_decisions'[i] => Active(i)
        /\ new = IF Active(i) THEN Append(rows, row) ELSE rows
        /\ total_output_tokens'[i] = total_output_tokens[i] + (IF Active(i) THEN 1 ELSE 0)
    BY GateFacts
  <2>2. /\ episode_lengths[i] = RealTurns(rows)
        /\ episode_rewards[i] = Rewardings(rows)
        /\ tool_callings[i] + 0 = Calls(rows) + 0
        /\ action_output_tokens[i] = ActiveTurns(rows) + 0
        /\ total_output_tokens[i] =
             action_output_tokens[i] + GateSteps(rows) + 2 * tool_callings[i]
    BY GateFacts DEF LedgerInv, RowAhead, CallAhead, ActionAhead
  <2>3. /\ rows \in Seq(Rows)
        /\ ActiveTurns(rows) \in Nat /\ RealTurns(rows) \in Nat
        /\ GateSteps(rows) \in Nat /\ Calls(rows) \in Nat /\ Rewardings(rows) \in Nat
        /\ tool_callings[i] \in Nat /\ total_output_tokens[i] \in Nat
        /\ action_output_tokens[i] \in Nat
    BY <1>1, RowsCounted
  <2>4. /\ row \in Rows /\ GateStep(row) /\ (Call(row) <=> gate_decisions'[i])
        /\ ~ActiveTurn(row) /\ ~RealTurn(row) /\ ~Rewarding(row)
    BY <2>1, GateRowCounted
  <2> HIDE DEF rows, new, row
  <2>5. CASE Active(i)
    <3>1. /\ ActiveTurns(new) = ActiveTurns(rows) + (IF ActiveTurn(row) THEN 1 ELSE 0)
          /\ RealTurns(new) = RealTurns(rows) + (IF RealTurn(row) THEN 1 ELSE 0)
          /\ GateSteps(new) = GateSteps(rows) + (IF GateStep(row) THEN 1 ELSE 0)
          /\ Calls(new) = Calls(rows) + (IF Call(row) THEN 1 ELSE 0)
          /\ Rewardings(new) = Rewardings(rows) + (IF Rewarding(row) THEN 1 ELSE 0)
      BY <2>1, <2>3, <2>4, <2>5, CountsAppend
    <3>2. /\ ActiveTurns(new) = ActiveTurns(rows) /\ RealTurns(new) = RealTurns(rows)
          /\ GateSteps(new) = GateSteps(rows) + 1 /\ Rewardings(new) = Rewardings(rows)
          /\ gate_decisions'[i] => Calls(new) = Calls(rows) + 1
          /\ ~gate_decisions'[i] => Calls(new) = Calls(rows)
      BY <2>3, <2>4, <3>1
    <3>3. /\ tool_callings[i] + (IF gate_decisions'[i] THEN 1 ELSE 0) = Calls(new)
          /\ action_output_tokens[i] = ActiveTurns(new)
          /\ total_output_tokens'[i] =
               action_output_tokens[i] + GateSteps(new) + 2 * tool_callings[i]
      <4>1. tool_callings[i] + (IF gate_decisions'[i] THEN 1 ELSE 0) = Calls(new)
        BY <2>2, <2>3, <3>2
      <4>2. action_output_tokens[i] = ActiveTurns(new)
        BY <2>2, <2>3, <3>2
      <4>3. total_output_tokens'[i] = total_output_tokens[i] + 1
        BY <2>1, <2>5
      <4>4. total_output_tokens'[i] =
              action_output_tokens[i] + GateSteps(new) + 2 * tool_callings[i]
        BY <2>2, <2>3, <3>2, <4>3, SMTT(30)
      <4> QED BY <4>1, <4>2, <4>4
    <3> QED BY <2>1, <2>2, <3>2, <3>3 DEF new
  <2>6. CASE ~Active(i)
    BY <2>1, <2>2, <2>3, <2>6 DEF rows, new
  <2> QED BY <2>5, <2>6
<1>3. phase' = "deliberate"
  BY GateFacts
<1>4. ASSUME NEW i \in Envs
      PROVE  /\ tool_callings[i] + (IF gate_decisions'[i] THEN 1 ELSE 0) =
                  Calls(total_batch_list'[i]) + 0
             /\ action_output_tokens[i] = ActiveTurns(total_batch_list'[i]) + 0
  <2>1. action_output_tokens[i] \in Nat
        /\ tool_callings[i] + (IF gate_decisions'[i] THEN 1 ELSE 0) \in Nat
    BY <1>1, RowsCounted
  <2>2. \A n \in Nat : n + 0 = n
    OBVIOUS
  <2> QED BY <1>2, <2>1, <2>2
<1>5. UNCHANGED <<is_done, episode_lengths, episode_rewards, tool_callings, action_output_tokens>>
  BY GateFacts
<1> QED
  BY <1>2, <1>3, <1>4, <1>5 DEF LedgerInv, RowAhead, CallAhead, ActionAhead, Active

\* The calls that the gate announced are made and charged.
LEMMA DeliberateLedger == ASSUME IInv, LedgerInv, Deliberate PROVE LedgerInv'
<1>1. TypeOK
  BY DEF IInv
<1>2. /\ phase = "deliberate" /\ phase' = "compose"
      /\ UNCHANGED <<is_done, gate_decisions, is_dt_step, total_batch_list, episode_rewards,
                     episode_lengths, action_output_tokens>>
  BY DeliberateFacts DEF loopLocals
<1> SUFFICES ASSUME NEW i \in Envs
             PROVE  /\ episode_lengths[i] = RealTurns(total_batch_list[i])
                    /\ episode_rewards[i] = Rewardings(total_batch_list[i])
                    /\ tool_callings'[i] + 0 = Calls(total_batch_list[i]) + 0
                    /\ action_output_tokens[i] = ActiveTurns(total_batch_list[i]) + 0
                    /\ total_output_tokens'[i] = action_output_tokens[i]
                         + GateSteps(total_batch_list[i]) + 2 * tool_callings'[i]
  BY <1>2 DEF LedgerInv, RowAhead, CallAhead, ActionAhead
<1> DEFINE rows == total_batch_list[i]
           n == IF gate_decisions[i] THEN 1 ELSE 0
<1>3. /\ gate_decisions[i] => Active(i)
      /\ episode_lengths[i] = RealTurns(rows)
      /\ episode_rewards[i] = Rewardings(rows)
      /\ tool_callings[i] + n = Calls(rows) + 0
      /\ action_output_tokens[i] = ActiveTurns(rows) + 0
      /\ total_output_tokens[i] =
           action_output_tokens[i] + GateSteps(rows) + 2 * tool_callings[i]
  BY <1>2 DEF LedgerInv, RowAhead, CallAhead, ActionAhead
<1>4. /\ GateSteps(rows) \in Nat /\ Calls(rows) \in Nat /\ ActiveTurns(rows) \in Nat
      /\ tool_callings[i] \in Nat /\ total_output_tokens[i] \in Nat
      /\ action_output_tokens[i] \in Nat /\ gate_decisions[i] \in BOOLEAN
  BY <1>1, RowsCounted
<1>5. /\ tool_callings'[i] = tool_callings[i] + n
      /\ total_output_tokens'[i] = total_output_tokens[i] + 2 * n
  <2>1. CASE gate_decisions[i]
    BY <1>3, <1>4, <2>1, DeliberateFacts
  <2>2. CASE ~gate_decisions[i]
    BY <1>4, <2>2, DeliberateFacts
  <2> QED BY <1>4, <2>1, <2>2
<1>6. n \in Nat
  OBVIOUS
<1> HIDE DEF rows, n
<1> QED BY <1>3, <1>4, <1>5, <1>6 DEF rows

\* Every active environment is charged an action, whose row is to come.
LEMMA GenerateLedger == ASSUME IInv, LedgerInv, Generate PROVE LedgerInv'
<1>1. TypeOK
  BY DEF IInv
<1>2. /\ phase = "generate" /\ phase' \in {"intercept", "step"}
      /\ UNCHANGED <<is_done, total_batch_list, episode_rewards, episode_lengths, tool_callings>>
      /\ \A i \in Envs : is_dt_step'[i] = FALSE
  BY DEF Generate, AllEnvs
<1>3. ASSUME NEW i \in Envs
      PROVE  /\ total_output_tokens'[i] = total_output_tokens[i] + (IF Active(i) THEN 1 ELSE 0)
             /\ action_output_tokens'[i] = action_output_tokens[i] + (IF Active(i) THEN 1 ELSE 0)
  BY <1>1 DEF Generate, Charge, Charged, TypeOK
<1> SUFFICES ASSUME NEW i \in Envs
             PROVE  /\ episode_lengths[i] = RealTurns(total_batch_list[i])
                    /\ episode_rewards[i] = Rewardings(total_batch_list[i])
                    /\ tool_callings[i] + 0 = Calls(total_batch_list[i]) + 0
                    /\ action_output_tokens'[i] =
                         ActiveTurns(total_batch_list[i]) + (IF ~is_done[i] THEN 1 ELSE 0)
                    /\ total_output_tokens'[i] = action_output_tokens'[i]
                         + GateSteps(total_batch_list[i]) + 2 * tool_callings[i]
  BY <1>2 DEF LedgerInv, RowAhead, CallAhead, ActionAhead, Active
<1> DEFINE rows == total_batch_list[i]
           n == IF ~is_done[i] THEN 1 ELSE 0
<1>4. /\ episode_lengths[i] = RealTurns(rows)
      /\ episode_rewards[i] = Rewardings(rows)
      /\ tool_callings[i] + 0 = Calls(rows) + 0
      /\ action_output_tokens[i] = ActiveTurns(rows) + 0
      /\ total_output_tokens[i] =
           action_output_tokens[i] + GateSteps(rows) + 2 * tool_callings[i]
  BY <1>2 DEF LedgerInv, RowAhead, CallAhead, ActionAhead
<1>5. /\ GateSteps(rows) \in Nat /\ Calls(rows) \in Nat /\ ActiveTurns(rows) \in Nat
      /\ tool_callings[i] \in Nat /\ total_output_tokens[i] \in Nat
      /\ action_output_tokens[i] \in Nat
  BY <1>1, RowsCounted
<1>6. /\ total_output_tokens'[i] = total_output_tokens[i] + n
      /\ action_output_tokens'[i] = action_output_tokens[i] + n
      /\ n \in Nat
  BY <1>3 DEF Active
<1> HIDE DEF rows, n
<1> QED BY <1>4, <1>5, <1>6 DEF rows, n

\* An intercepted call is charged, and its row is to come.
LEMMA InterceptLedger == ASSUME IInv, LedgerInv, Intercept PROVE LedgerInv'
<1>1. TypeOK
  BY DEF IInv
<1>2. /\ phase = "intercept" /\ phase' = "step"
      /\ UNCHANGED <<is_done, gate_decisions, total_batch_list, episode_rewards,
                     episode_lengths, action_output_tokens>>
  BY InterceptFacts
<1> SUFFICES ASSUME NEW i \in Envs
             PROVE  /\ episode_lengths[i] = RealTurns(total_batch_list[i])
                    /\ episode_rewards[i] = Rewardings(total_batch_list[i])
                    /\ tool_callings'[i] + 0 =
                         Calls(total_batch_list[i]) + (IF is_dt_step'[i] THEN 1 ELSE 0)
                    /\ action_output_tokens[i] =
                         ActiveTurns(total_batch_list[i]) + (IF ~is_done[i] THEN 1 ELSE 0)
                    /\ total_output_tokens'[i] = action_output_tokens[i]
                         + GateSteps(total_batch_list[i]) + 2 * tool_callings'[i]
  BY <1>2 DEF LedgerInv, RowAhead, CallAhead, ActionAhead, Active
<1> DEFINE rows == total_batch_list[i]
           n == IF is_dt_step'[i] THEN 1 ELSE 0
<1>3. /\ episode_lengths[i] = RealTurns(rows)
      /\ episode_rewards[i] = Rewardings(rows)
      /\ tool_callings[i] + 0 = Calls(rows) + 0
      /\ action_output_tokens[i] = ActiveTurns(rows) + (IF ~is_done[i] THEN 1 ELSE 0)
      /\ total_output_tokens[i] =
           action_output_tokens[i] + GateSteps(rows) + 2 * tool_callings[i]
  BY <1>2 DEF LedgerInv, RowAhead, CallAhead, ActionAhead, Active
<1>4. /\ GateSteps(rows) \in Nat /\ Calls(rows) \in Nat /\ ActiveTurns(rows) \in Nat
      /\ tool_callings[i] \in Nat /\ total_output_tokens[i] \in Nat
      /\ action_output_tokens[i] \in Nat
  BY <1>1, RowsCounted
<1>5. /\ tool_callings'[i] = tool_callings[i] + n
      /\ total_output_tokens'[i] = total_output_tokens[i] + 2 * n
      /\ n \in Nat
  <2>1. is_dt_step'[i] \in BOOLEAN
    BY InterceptFacts
  <2>2. CASE is_dt_step'[i]
    BY <1>4, <2>2, InterceptFacts
  <2>3. CASE ~is_dt_step'[i]
    BY <1>4, <2>3, InterceptFacts
  <2> QED BY <2>1, <2>2, <2>3
<1>6. tool_callings'[i] + 0 = Calls(rows) + n
  <2> HIDE DEF rows, n
  <2> QED BY <1>3, <1>4, <1>5
<1>7. total_output_tokens'[i] = action_output_tokens[i] + GateSteps(rows) + 2 * tool_callings'[i]
  <2> HIDE DEF rows, n
  <2> QED BY <1>3, <1>4, <1>5
<1> QED BY <1>3, <1>6, <1>7

\* Stepping the environments gathers one row per environment, as the counters say.
LEMMA StepEnvsLedger == ASSUME IInv, LedgerInv, StepEnvs PROVE LedgerInv'
<1>1. TypeOK /\ CooldownInv
  BY DEF IInv
<1>2. /\ phase = "step" /\ phase' \in {FirstPhase, "evaluate"}
      /\ UNCHANGED <<gate_decisions, is_dt_step, tool_callings,
                     total_output_tokens, action_output_tokens>>
  BY StepEnvsFacts DEF loopLocals
<1>3. phase' \in {"gate", "compose", "evaluate"}
  BY <1>2, FreshTypes
<1>4. PICK answers \in [Envs -> Answers] : \A i \in Envs :
        /\ total_batch_list'[i] =
             Append(total_batch_list[i], TurnRow(i, Outcome(i, answers[i])))
        /\ episode_rewards'[i] = episode_rewards[i] +
             (IF Active(i) THEN Outcome(i, answers[i]).rewards ELSE 0)
        /\ episode_lengths'[i] = episode_lengths[i] + (IF RealAction(i) THEN 1 ELSE 0)
  BY StepEnvsFacts
<1> SUFFICES ASSUME NEW i \in Envs
             PROVE  LET new == total_batch_list'[i]
                    IN  /\ episode_lengths'[i] = RealTurns(new)
                        /\ episode_rewards'[i] = Rewardings(new)
                        /\ tool_callings[i] + 0 = Calls(new) + 0
                        /\ action_output_tokens[i] = ActiveTurns(new) + 0
                        /\ total_output_tokens[i] = action_output_tokens[i]
                             + GateSteps(new) + 2 * tool_callings[i]
  BY <1>2, <1>3 DEF LedgerInv, RowAhead, CallAhead, ActionAhead
<1> DEFINE rows == total_batch_list[i]
           new  == total_batch_list'[i]
           row  == TurnRow(i, Outcome(i, answers[i]))
<1>5. /\ episode_lengths[i] = RealTurns(rows)
      /\ episode_rewards[i] = Rewardings(rows)
      /\ tool_callings[i] + 0 = Calls(rows) + (IF is_dt_step[i] THEN 1 ELSE 0)
      /\ action_output_tokens[i] = ActiveTurns(rows) + (IF Active(i) THEN 1 ELSE 0)
      /\ total_output_tokens[i] =
           action_output_tokens[i] + GateSteps(rows) + 2 * tool_callings[i]
  BY <1>2 DEF LedgerInv, RowAhead, CallAhead, ActionAhead, Active
<1>6. /\ rows \in Seq(Rows)
      /\ GateSteps(rows) \in Nat /\ Calls(rows) \in Nat /\ ActiveTurns(rows) \in Nat
      /\ RealTurns(rows) \in Nat /\ Rewardings(rows) \in Nat
      /\ tool_callings[i] \in Nat /\ total_output_tokens[i] \in Nat
      /\ action_output_tokens[i] \in Nat /\ is_dt_step[i] \in BOOLEAN /\ is_done[i] \in BOOLEAN
  BY <1>1, RowsCounted
<1>7. /\ row \in Rows /\ ~GateStep(row)
      /\ ActiveTurn(row) <=> Active(i)
      /\ RealTurn(row) <=> RealAction(i)
      /\ Call(row) <=> is_dt_step[i]
      /\ Outcome(i, answers[i]).rewards = IF ~is_dt_step[i] /\ answers[i].won THEN 1 ELSE 0
      /\ Rewarding(row) <=> RealAction(i) /\ answers[i].won
  BY <1>1, TurnRowCounted
<1>8. /\ new = Append(rows, row)
      /\ episode_rewards'[i] = episode_rewards[i] +
           (IF Active(i) THEN Outcome(i, answers[i]).rewards ELSE 0)
      /\ episode_lengths'[i] = episode_lengths[i] + (IF RealAction(i) THEN 1 ELSE 0)
  BY <1>4
<1>9. RealAction(i) <=> Active(i) /\ ~is_dt_step[i]
  BY DEF RealAction
<1> HIDE DEF rows, new, row
<1>10. /\ ActiveTurns(new) = ActiveTurns(rows) + (IF ActiveTurn(row) THEN 1 ELSE 0)
       /\ RealTurns(new) = RealTurns(rows) + (IF RealTurn(row) THEN 1 ELSE 0)
       /\ GateSteps(new) = GateSteps(rows) + (IF GateStep(row) THEN 1 ELSE 0)
       /\ Calls(new) = Calls(rows) + (IF Call(row) THEN 1 ELSE 0)
       /\ Rewardings(new) = Rewardings(rows) + (IF Rewarding(row) THEN 1 ELSE 0)
  BY <1>6, <1>7, <1>8, CountsAppend
<1>11. episode_lengths'[i] = RealTurns(new)
  <2>1. CASE RealAction(i)
    BY <1>5, <1>6, <1>7, <1>8, <1>10, <2>1
  <2>2. CASE ~RealAction(i)
    BY <1>5, <1>6, <1>7, <1>8, <1>10, <2>2
  <2> QED BY <2>1, <2>2
<1>12. episode_rewards'[i] = Rewardings(new)
  <2>1. CASE RealAction(i) /\ answers[i].won
    <3>1. Active(i) /\ ~is_dt_step[i]
      BY <1>9, <2>1
    <3>2. episode_rewards'[i] = episode_rewards[i] + 1
      BY <1>7, <1>8, <2>1, <3>1
    <3> QED BY <1>5, <1>6, <1>7, <1>10, <2>1, <3>2
  <2>2. CASE ~(RealAction(i) /\ answers[i].won)
    <3>1. (IF Active(i) THEN Outcome(i, answers[i]).rewards ELSE 0) = 0
      BY <1>7, <1>9, <2>2
    <3> QED BY <1>5, <1>6, <1>7, <1>8, <1>10, <2>2, <3>1
  <2> QED BY <2>1, <2>2
<1>13. tool_callings[i] + 0 = Calls(new) + 0
  <2>1. CASE is_dt_step[i]
    BY <1>5, <1>6, <1>7, <1>10, <2>1
  <2>2. CASE ~is_dt_step[i]
    BY <1>5, <1>6, <1>7, <1>10, <2>2
  <2> QED BY <2>1, <2>2
<1>14. action_output_tokens[i] = ActiveTurns(new) + 0
  <2>1. CASE Active(i)
    BY <1>5, <1>6, <1>7, <1>10, <2>1
  <2>2. CASE ~Active(i)
    BY <1>5, <1>6, <1>7, <1>10, <2>2
  <2> QED BY <2>1, <2>2
<1>15. GateSteps(new) = GateSteps(rows)
  BY <1>6, <1>7, <1>10
<1> QED BY <1>5, <1>11, <1>12, <1>13, <1>14, <1>15 DEF new

\* Every step of the rollout keeps the counters and the rows in step.
LEMMA NextLedger == ASSUME IInv, LedgerInv, [Next]_vars PROVE LedgerInv'
<1>1. CASE Compose
  BY <1>1, QuietLedger DEF Compose, RowAhead, CallAhead, ActionAhead
<1>2. CASE Evaluate
  BY <1>2, QuietLedger DEF Evaluate, RowAhead, CallAhead, ActionAhead
<1>3. CASE Gather
  BY <1>3, QuietLedger DEF Gather, RowAhead, CallAhead, ActionAhead
<1>4. CASE UNCHANGED vars
  BY <1>4 DEF vars, managerVars, loopLocals, ledgers, LedgerInv, RowAhead, CallAhead,
              ActionAhead, Active
<1>5. CASE Renew \/ Rebuild \/ Begin
  <2>1. /\ UNCHANGED <<is_done, total_batch_list, ledgers>>
        /\ phase \in Renewing /\ phase' \in {"rebuild", "begin", "gate", "compose"}
    BY <1>5, RenewalFacts DEF loopVars
  <2> QED BY <2>1, QuietLedger DEF Renewing, RowAhead, CallAhead, ActionAhead
<1> QED
  BY <1>1, <1>2, <1>3, <1>4, <1>5, ResetLedger, GateLedger, DeliberateLedger, GenerateLedger,
     InterceptLedger, StepEnvsLedger DEF Next

-----------------------------------------------------------------------------
(* The pairing of rows and infos.                                            *)

(* A row of a turn and an info tell the same. *)
TellTheSame(row, info) ==
  /\ row.is_action_valid = info.is_action_valid
  /\ RealTurn(row) => (row.rewards = 1 <=> info.won)

Paired(rows, infos) ==
  \A k \in 1 .. Len(rows) :
    IsTurn(rows[k]) => TellTheSame(rows[k], infos[InfoIndex(rows, k)])

\* The pairing of rows and infos, in the words of the lemmas below.
LEMMA PairingIsPaired ==
  PairingInv <=>
    \A i \in Envs : /\ Len(total_infos[i]) = env_step
                    /\ Paired(total_batch_list[i], total_infos[i])
BY DEF PairingInv, Paired, TellTheSame

(* A row that is no turn leaves the pairing as it is. *)
LEMMA PairedGateRow ==
  ASSUME NEW rows \in Seq(Rows), NEW infos, NEW r \in Rows, ~IsTurn(r), Paired(rows, infos)
  PROVE  Paired(Append(rows, r), infos)
<1> DEFINE n == Len(rows)
           new == Append(rows, r)
<1>1. /\ n \in Nat /\ Len(new) = n + 1 /\ new[n + 1] = r
      /\ \A k \in 1 .. n : new[k] = rows[k]
  OBVIOUS
<1>2. \A k \in 0 .. n : InfoIndex(new, k) = InfoIndex(rows, k)
  BY InfoIndexAppend
<1> HIDE DEF new
<1> SUFFICES ASSUME NEW k \in 1 .. n + 1, IsTurn(new[k])
             PROVE  TellTheSame(new[k], infos[InfoIndex(new, k)])
  BY <1>1 DEF Paired, new
<1>3. k \in 1 .. n
  BY <1>1
<1> QED BY <1>1, <1>2, <1>3 DEF Paired

(* A turn appends a row and an info that tell the same. *)
LEMMA PairedTurnRow ==
  ASSUME NEW rows \in Seq(Rows), NEW infos \in Seq(Infos), NEW r \in Rows, NEW f \in Infos,
         IsTurn(r), TellTheSame(r, f), Paired(rows, infos),
         InfoIndex(rows, Len(rows)) = Len(infos)
  PROVE  Paired(Append(rows, r), Append(infos, f))
<1> DEFINE n == Len(rows)
           m == Len(infos)
           new == Append(rows, r)
           more == Append(infos, f)
<1>1. /\ n \in Nat /\ Len(new) = n + 1 /\ new[n + 1] = r
      /\ \A k \in 1 .. n : new[k] = rows[k]
  OBVIOUS
<1>2. m \in Nat /\ more[m + 1] = f /\ \A j \in 1 .. m : more[j] = infos[j]
  OBVIOUS
<1>3. /\ \A k \in 0 .. n : InfoIndex(new, k) = InfoIndex(rows, k)
      /\ InfoIndex(new, n + 1) = m + 1
  BY InfoIndexAppend
<1>4. \A k \in 1 .. n : IsTurn(rows[k]) => InfoIndex(rows, k) \in 1 .. m
  BY InfoIndexBounds
<1> HIDE DEF new, more, m
<1> SUFFICES ASSUME NEW k \in 1 .. n + 1, IsTurn(new[k])
             PROVE  TellTheSame(new[k], more[InfoIndex(new, k)])
  BY <1>1 DEF Paired, new, more
<1>5. CASE k = n + 1
  BY <1>1, <1>2, <1>3, <1>5
<1>6. CASE k \in 1 .. n
  <2>1. InfoIndex(new, k) = InfoIndex(rows, k) /\ new[k] = rows[k]
    BY <1>1, <1>3, <1>6
  <2>2. more[InfoIndex(rows, k)] = infos[InfoIndex(rows, k)]
    BY <1>2, <1>4, <1>6, <2>1
  <2> QED BY <1>6, <2>1, <2>2 DEF Paired
<1> QED BY <1>1, <1>5, <1>6

\* Before the first rollout there is neither a row nor an info.
LEMMA InitPairing == Init => PairingInv
BY DEF Init, AllEnvs, PairingInv

\* Every step of the rollout appends row and info of a turn together.
LEMMA NextPairing == ASSUME IInv, PairingInv, [Next]_vars PROVE PairingInv'
<1>1. TypeOK /\ LockStepInv
  BY DEF IInv
<1>2. \A i \in Envs : Len(total_infos[i]) = env_step /\ Paired(total_batch_list[i], total_infos[i])
  BY PairingIsPaired
<1>3. CASE Reset
  BY <1>3 DEF Reset, AllEnvs, PairingInv
<1>4. CASE Gate
  <2>1. UNCHANGED <<env_step, total_infos>>
    BY <1>4, GateFacts
  <2>2. ASSUME NEW i \in Envs PROVE Paired(total_batch_list'[i], total_infos[i])
    <3>1. /\ gate_decisions'[i] \in BOOLEAN
          /\ total_batch_list'[i] =
               IF Active(i) THEN Append(total_batch_list[i], GateRow(gate_decisions'[i]))
                            ELSE total_batch_list[i]
      BY <1>4, GateFacts
    <3>2. GateRow(gate_decisions'[i]) \in Rows /\ ~IsTurn(GateRow(gate_decisions'[i]))
      BY <3>1, GateRowCounted
    <3>3. total_batch_list[i] \in Seq(Rows)
      BY <1>1, RowsCounted
    <3>4. Paired(Append(total_batch_list[i], GateRow(gate_decisions'[i])), total_infos[i])
      BY <1>2, <3>2, <3>3, PairedGateRow
    <3> QED BY <1>2, <3>1, <3>4
  <2> QED BY <1>2, <2>1, <2>2 DEF PairingInv, Paired, TellTheSame
<1>5. CASE StepEnvs
  <2>1. env_step' = env_step + 1
    BY <1>5, StepEnvsFacts
  <2>2. PICK answers \in [Envs -> Answers] : \A i \in Envs :
          /\ total_batch_list'[i] =
               Append(total_batch_list[i], TurnRow(i, Outcome(i, answers[i])))
          /\ total_infos'[i] =
               Append(total_infos[i],
                      [won |-> answers[i].won,
                       is_action_valid |-> Outcome(i, answers[i]).is_action_valid])
    BY <1>5, StepEnvsFacts
  <2>3. ASSUME NEW i \in Envs
        PROVE  /\ Len(total_infos'[i]) = env_step + 1
               /\ Paired(total_batch_list'[i], total_infos'[i])
    <3> DEFINE row  == TurnRow(i, Outcome(i, answers[i]))
               info == [won |-> answers[i].won,
                        is_action_valid |-> Outcome(i, answers[i]).is_action_valid]
    <3>1. /\ row \in Rows /\ IsTurn(row)
          /\ RealTurn(row) <=> RealAction(i)
          /\ row.is_action_valid = Outcome(i, answers[i]).is_action_valid
          /\ Outcome(i, answers[i]).is_action_valid \in BOOLEAN
          /\ row.rewards = Outcome(i, answers[i]).rewards
          /\ Outcome(i, answers[i]).rewards =
               IF ~is_dt_step[i] /\ answers[i].won THEN 1 ELSE 0
      BY <1>1, TurnRowCounted
    <3>2. answers[i].won \in BOOLEAN
      BY DEF Answers
    <3>3. info \in Infos /\ TellTheSame(row, info)
      <4> HIDE DEF row
      <4> QED BY <3>1, <3>2 DEF Infos, TellTheSame, RealAction
    <3>4. total_batch_list[i] \in Seq(Rows) /\ total_infos[i] \in Seq(Infos)
          /\ InfoIndex(total_batch_list[i], Len(total_batch_list[i])) = Len(total_infos[i])
      BY <1>1 DEF TypeOK, LockStepInv
    <3>5. total_batch_list'[i] = Append(total_batch_list[i], row)
          /\ total_infos'[i] = Append(total_infos[i], info)
      BY <2>2
    <3> HIDE DEF row, info
    <3>6. Paired(total_batch_list'[i], total_infos'[i])
      BY <1>2, <3>1, <3>3, <3>4, <3>5, PairedTurnRow
    <3>7. Len(total_infos'[i]) = env_step + 1
      BY <1>2, <3>3, <3>4, <3>5
    <3> QED BY <3>6, <3>7
  <2> QED BY <2>1, <2>3 DEF PairingInv, Paired, TellTheSame
<1>6. CASE UNCHANGED <<env_step, total_batch_list, total_infos>>
  BY <1>6 DEF PairingInv
<1>7. CASE Renew \/ Rebuild \/ Begin
  BY <1>6, <1>7, RenewalFacts DEF loopVars
<1> QED
  BY <1>3, <1>4, <1>5, <1>6, <1>7
  DEF Next, vars, loopLocals, Deliberate, Compose, Generate, Intercept, Evaluate, Gather

-----------------------------------------------------------------------------
(* Rows of calls are neutral.                                                *)

\* Every step of the rollout keeps the rows of calls neutral.
LEMMA NextNeutral == ASSUME IInv, CallRowsAreNeutral, [Next]_vars PROVE CallRowsAreNeutral'
<1>1. TypeOK /\ CooldownInv
  BY DEF IInv
<1>2. CASE Reset
  BY <1>2 DEF Reset, AllEnvs, CallRowsAreNeutral
<1>3. CASE Gate
  <2>1. is_done' = is_done
    BY <1>3, GateFacts
  <2> SUFFICES ASSUME NEW i \in Envs, NEW k \in DOMAIN total_batch_list'[i],
                      total_batch_list'[i][k].is_dt_step
               PROVE  /\ total_batch_list'[i][k].is_action_valid
                      /\ total_batch_list'[i][k].rewards = 0
                      /\ is_done[i] => \E l \in (k + 1) .. Len(total_batch_list'[i]) :
                                         RealTurn(total_batch_list'[i][l])
    BY <2>1 DEF CallRowsAreNeutral
  <2> DEFINE rows == total_batch_list[i]
             row  == GateRow(gate_decisions'[i])
             new  == total_batch_list'[i]
  <2>2. /\ gate_decisions'[i] \in BOOLEAN
        /\ new = IF Active(i) THEN Append(rows, row) ELSE rows
    BY <1>3, GateFacts
  <2>3. rows \in Seq(Rows) /\ row \in Rows /\ ~row.is_dt_step
    BY <1>1, <2>2, RowsCounted, GateRowCounted
  <2>4. \A j \in DOMAIN rows :
          rows[j].is_dt_step =>
            /\ rows[j].is_action_valid /\ rows[j].rewards = 0
            /\ is_done[i] => \E l \in (j + 1) .. Len(rows) : RealTurn(rows[l])
    BY DEF CallRowsAreNeutral
  <2> HIDE DEF rows, row
  <2>5. CASE Active(i)
    <3>1. /\ new[Len(rows) + 1] = row /\ Len(rows) \in Nat /\ Len(new) = Len(rows) + 1
          /\ DOMAIN rows = 1 .. Len(rows) /\ DOMAIN new = 1 .. Len(rows) + 1
          /\ \A j \in 1 .. Len(rows) : new[j] = rows[j]
      BY <2>2, <2>3, <2>5
    <3>2. k \in DOMAIN rows /\ new[k] = rows[k]
      BY <2>3, <3>1
    <3> QED BY <2>4, <2>5, <3>2 DEF Active
  <2>6. CASE ~Active(i)
    BY <2>2, <2>4, <2>6
  <2> QED BY <2>5, <2>6
<1>4. CASE StepEnvs
  <2>1. phase = "step"
    BY <1>4, StepEnvsFacts
  <2>2. PICK answers \in [Envs -> Answers] : \A i \in Envs :
          /\ total_batch_list'[i] =
               Append(total_batch_list[i], TurnRow(i, Outcome(i, answers[i])))
          /\ is_done'[i] = (is_done[i] \/ Outcome(i, answers[i]).done)
    BY <1>4, StepEnvsFacts
  <2> SUFFICES ASSUME NEW i \in Envs, NEW k \in DOMAIN total_batch_list'[i],
                      total_batch_list'[i][k].is_dt_step
               PROVE  /\ total_batch_list'[i][k].is_action_valid
                      /\ total_batch_list'[i][k].rewards = 0
                      /\ is_done'[i] => \E l \in (k + 1) .. Len(total_batch_list'[i]) :
                                          RealTurn(total_batch_list'[i][l])
    BY DEF CallRowsAreNeutral
  <2> DEFINE rows == total_batch_list[i]
             row  == TurnRow(i, Outcome(i, answers[i]))
             new  == total_batch_list'[i]
  <2>3. /\ new = Append(rows, row)
        /\ is_done'[i] <=> is_done[i] \/ Outcome(i, answers[i]).done
    BY <2>2
  <2>4. /\ row \in Rows
        /\ RealTurn(row) <=> RealAction(i)
        /\ row.is_dt_step = is_dt_step[i]
        /\ row.is_action_valid = Outcome(i, answers[i]).is_action_valid
        /\ row.rewards = Outcome(i, answers[i]).rewards
        /\ Outcome(i, answers[i]).rewards =
             IF ~is_dt_step[i] /\ answers[i].won THEN 1 ELSE 0
        /\ Outcome(i, answers[i]).done <=> answers[i].done /\ ~is_dt_step[i]
        /\ is_dt_step[i] => Outcome(i, answers[i]).is_action_valid
    BY <1>1, TurnRowCounted
  <2>5. rows \in Seq(Rows)
    BY <1>1, RowsCounted
  <2>6. \A j \in DOMAIN rows :
          rows[j].is_dt_step =>
            /\ rows[j].is_action_valid /\ rows[j].rewards = 0
            /\ is_done[i] => \E l \in (j + 1) .. Len(rows) : RealTurn(rows[l])
    BY DEF CallRowsAreNeutral
  <2>7. is_dt_step[i] => Active(i)
    BY <1>1, <2>1 DEF CooldownInv
  <2> HIDE DEF rows, row
  <2>8. /\ new[Len(rows) + 1] = row /\ Len(rows) \in Nat /\ Len(new) = Len(rows) + 1
        /\ DOMAIN rows = 1 .. Len(rows) /\ DOMAIN new = 1 .. Len(rows) + 1
        /\ \A j \in 1 .. Len(rows) : new[j] = rows[j]
    BY <2>3, <2>4, <2>5
  <2> HIDE DEF new
  <2> SUFFICES /\ new[k].is_action_valid /\ new[k].rewards = 0
               /\ is_done'[i] => \E l \in (k + 1) .. Len(new) : RealTurn(new[l])
    BY DEF new
  <2>9. k \in 1 .. Len(rows) + 1 /\ new[k].is_dt_step
    BY <2>8 DEF new
  <2>10. CASE k = Len(rows) + 1
    <3>1. is_dt_step[i]
      BY <2>4, <2>8, <2>9, <2>10
    <3>2. ~is_done'[i]
      BY <2>3, <2>4, <2>7, <3>1 DEF Active
    <3> QED BY <2>4, <2>8, <2>10, <3>1, <3>2
  <2>11. CASE k \in 1 .. Len(rows)
    <3>1. rows[k].is_dt_step /\ new[k] = rows[k]
      BY <2>8, <2>9, <2>11
    <3>2. new[k].is_action_valid /\ new[k].rewards = 0
      BY <2>6, <2>8, <2>11, <3>1
    <3>3. ASSUME is_done'[i] PROVE \E l \in (k + 1) .. Len(new) : RealTurn(new[l])
      <4>1. CASE is_done[i]
        <5>1. PICK l \in (k + 1) .. Len(rows) : RealTurn(rows[l])
          BY <2>6, <2>8, <2>11, <3>1, <4>1
        <5>2. l \in (k + 1) .. Len(new) /\ new[l] = rows[l]
          BY <2>8, <2>11, <5>1
        <5> QED BY <5>1, <5>2
      <4>2. CASE ~is_done[i]
        <5>1. RealAction(i)
          BY <2>3, <2>4, <3>3, <4>2 DEF RealAction, Active
        <5>2. Len(rows) + 1 \in (k + 1) .. Len(new) /\ RealTurn(new[Len(rows) + 1])
          BY <2>4, <2>8, <2>11, <5>1
        <5> QED BY <5>2
      <4> QED BY <4>1, <4>2
    <3> QED BY <3>2, <3>3
  <2> QED BY <2>8, <2>9, <2>10, <2>11
<1>5. CASE UNCHANGED <<is_done, total_batch_list>>
  BY <1>5 DEF CallRowsAreNeutral
<1>6. CASE Renew \/ Rebuild \/ Begin
  BY <1>5, <1>6, RenewalFacts DEF loopVars
<1> QED
  BY <1>2, <1>3, <1>4, <1>5, <1>6
  DEF Next, vars, Deliberate, Compose, Generate, Intercept, Evaluate, Gather

(* What a reset tells the model. *)
LEMMA FreshPrompt ==
  /\ BuildTextObs(TRUE, <<>>, NewDTState) =
       [current_step |-> 1, history |-> 0, memo |-> 0,
        guidance |-> IF thinking_mode = "selective_gate" THEN "base" ELSE "dt_avail"]
  /\ NewDTState.memo_step = 0 /\ NewDTState.latest_memo = "blank"
  /\ NewDTState.just_called_dt = FALSE
BY DEF BuildTextObs, BuildDTActionUser, NewDTState

(* The mode is one of the two, and the step is a number. *)
LEMMA ModeType ==
  ASSUME TypeOK
  PROVE  thinking_mode \in {"dt_action", "selective_gate"} /\ env_step \in Nat
<1>1. thinking_mode \in ThinkingModes
  BY DEF TypeOK, ManagerTypeOK
<1>2. thinking_mode \in {"dt_action", "selective_gate"}
  BY ONLY <1>1, ThinkingModesAssumption
<1>3. env_step \in Nat
  BY DEF TypeOK
<1> QED BY <1>2, <1>3

-----------------------------------------------------------------------------
(* What steers the generations.                                              *)

(* Before the first row there was no call and no gate. *)
LEMMA NoneCalled == ~CalledWithin(<<>>, 1) /\ ~CalledWithin(<<>>, 2) /\ ~GateOpened(<<>>)
BY DEF CalledWithin, GateOpened

(* The last row, and the row before a new one. *)
LEMMA CalledAppend ==
  ASSUME NEW rows \in Seq(Rows), NEW r \in Rows
  PROVE  /\ CalledWithin(rows, 1) <=> Len(rows) > 0 /\ rows[Len(rows)].is_dt_step
         /\ CalledWithin(Append(rows, r), 1) <=> r.is_dt_step
         /\ CalledWithin(Append(rows, r), 2) <=> r.is_dt_step \/ CalledWithin(rows, 1)
         /\ GateOpened(Append(rows, r)) <=> r.gate_decision
<1> DEFINE n == Len(rows)
           new == Append(rows, r)
<1>1. /\ n \in Nat /\ Len(new) = n + 1 /\ new[n + 1] = r
      /\ \A k \in 1 .. n : new[k] = rows[k]
  OBVIOUS
<1>2. CalledWithin(rows, 1) <=> n > 0 /\ rows[n].is_dt_step
  <2>1. \A k \in 1 .. n : k > n - 1 <=> k = n
    BY <1>1
  <2>2. n > 0 <=> n \in 1 .. n
    BY <1>1
  <2> HIDE DEF n
  <2> QED BY <2>1, <2>2 DEF CalledWithin, n
<1>3. CalledWithin(new, 1) <=> r.is_dt_step
  <2>1. \A k \in 1 .. n + 1 : k > n + 1 - 1 <=> k = n + 1
    BY <1>1
  <2>2. n + 1 \in 1 .. n + 1
    BY <1>1
  <2> HIDE DEF n, new
  <2> QED BY <1>1, <2>1, <2>2 DEF CalledWithin
<1>4. CalledWithin(new, 2) <=> r.is_dt_step \/ (n > 0 /\ rows[n].is_dt_step)
  <2>1. \A k \in 1 .. n + 1 : k > n + 1 - 2 <=> k = n + 1 \/ k = n
    BY <1>1
  <2>2. n + 1 \in 1 .. n + 1 /\ (n > 0 <=> n \in 1 .. n) /\ (n \in 1 .. n + 1 <=> n \in 1 .. n)
    BY <1>1
  <2> HIDE DEF n, new
  <2> QED BY <1>1, <2>1, <2>2 DEF CalledWithin
<1>5. GateOpened(new) <=> r.gate_decision
  BY <1>1 DEF GateOpened
<1> QED BY <1>2, <1>3, <1>4, <1>5

(* In dt_action the flag of a state tells of a call in the last row, or of   *)
(* one whose row is still to be recorded.                                    *)
LEMMA FlagTells ==
  ASSUME IInv, SteeringInv, NEW i \in Envs, thinking_mode = "dt_action", phase # "renew"
  PROVE  dt_states[i].just_called_dt <=> CalledWithin(total_batch_list[i], 1) \/ CallAhead(i)
<1> DEFINE rows == total_batch_list[i]
<1>1. rows \in Seq(Rows) /\ GateRow(TRUE) \in Rows
  BY GateRowType DEF IInv, TypeOK
<1>2. CalledWithin(rows, 1) <=> Len(rows) > 0 /\ rows[Len(rows)].is_dt_step
  BY <1>1, CalledAppend
<1>3. /\ Len(rows) > 0 /\ rows[Len(rows)].is_dt_step => dt_states[i].just_called_dt
      /\ phase = "step" /\ is_dt_step[i] => dt_states[i].just_called_dt
  BY DEF IInv, CooldownInv
<1>4. dt_states[i].just_called_dt => CalledWithin(rows, 1) \/ CallAhead(i)
  BY DEF SteeringInv
<1> QED BY <1>2, <1>3, <1>4 DEF CallAhead

(* A reset ends with nothing to tell of. *)
LEMMA RenewalSteering ==
  ASSUME IInv, Reset \/ Renew \/ Rebuild \/ Begin
  PROVE  SteeringInv' /\ SteeredByOwnCalls'
<1>1. CASE Reset
  <2>1. phase' = "renew"
    BY <1>1 DEF Reset
  <2> QED BY <2>1 DEF SteeringInv, SteeredByOwnCalls, TurnPhases
<1>2. CASE Renew \/ Rebuild \/ Begin
  <2>1. /\ phase' \in {"rebuild", "begin", "gate", "compose"}
        /\ phase' = "compose" => thinking_mode' # "selective_gate"
        /\ thinking_mode' = thinking_mode /\ total_batch_list' = total_batch_list
        /\ thinking_mode \in {"dt_action", "selective_gate"}
        /\ \A i \in Envs : total_batch_list[i] = <<>> /\ dt_states'[i] = NewDTState
        /\ phase' # "rebuild" =>
              \A i \in Envs : obs'[i] = BuildTextObs(TRUE, <<>>, NewDTState)
    BY <1>2, RenewalFacts, ModeType DEF loopVars, IInv, FirstPhase
  <2>2. SteeringInv'
    <3>1. \A i \in Envs : ~dt_states'[i].just_called_dt
      BY <2>1, FreshPrompt
    <3> QED BY <2>1, <3>1, NoneCalled DEF SteeringInv
  <2>3. ASSUME NEW i \in Envs, phase' # "rebuild"
        PROVE  obs'[i].guidance = IF thinking_mode = "selective_gate" THEN "base" ELSE "dt_avail"
    <3>1. obs'[i] = BuildTextObs(TRUE, <<>>, NewDTState)
      BY <2>1, <2>3
    <3> QED BY ONLY <3>1 DEF BuildTextObs, BuildDTActionUser, NewDTState
  <2>4. SteeredByOwnCalls'
    BY <2>1, <2>3, NoneCalled DEF SteeredByOwnCalls, TurnPhases
  <2> QED BY <2>2, <2>4
<1> QED BY <1>1, <1>2

(* The decision of the gate is the one of its row. *)
LEMMA GateSteering ==
  ASSUME IInv, SteeringInv, SteeredByOwnCalls, Gate
  PROVE  SteeringInv' /\ SteeredByOwnCalls'
<1>1. /\ phase = "gate" /\ phase' = "deliberate" /\ thinking_mode = "selective_gate"
      /\ UNCHANGED <<managerVars, is_done>>
  BY GateFacts
<1>2. ASSUME NEW i \in Envs
      PROVE  gate_decisions'[i] /\ Active(i) <=> GateOpened(total_batch_list'[i])
  <2>1. /\ gate_decisions'[i] \in BOOLEAN
        /\ gate_decisions'[i] => Active(i)
        /\ total_batch_list'[i] =
             IF Active(i) THEN Append(total_batch_list[i], GateRow(gate_decisions'[i]))
                          ELSE total_batch_list[i]
    BY GateFacts
  <2>2. /\ total_batch_list[i] \in Seq(Rows) /\ GateRow(gate_decisions'[i]) \in Rows
        /\ GateRow(gate_decisions'[i]).gate_decision = gate_decisions'[i]
    <3>1. total_batch_list[i] \in Seq(Rows)
      BY DEF IInv, TypeOK
    <3>2. GateRow(gate_decisions'[i]) \in Rows
      BY <2>1 DEF GateRow, Rows
    <3>3. GateRow(gate_decisions'[i]).gate_decision = gate_decisions'[i]
      BY DEF GateRow
    <3> QED BY <3>1, <3>2, <3>3
  <2>3. CASE Active(i)
    BY <2>1, <2>2, <2>3, CalledAppend
  <2>4. CASE ~Active(i)
    <3>1. ~GateOpened(total_batch_list[i])
      BY <1>1 DEF SteeringInv
    <3> QED BY <2>1, <2>4, <3>1
  <2> QED BY <2>3, <2>4
<1>3. SteeringInv'
  BY <1>1, <1>2 DEF SteeringInv, managerVars, Active
<1>4. SteeredByOwnCalls'
  BY <1>1 DEF SteeredByOwnCalls, managerVars, TurnPhases
<1> QED BY <1>3, <1>4

(* The system prompts are composed from flags and decisions that tell of the *)
(* last row.                                                                 *)
LEMMA ComposeSteering ==
  ASSUME IInv, SteeringInv, SteeredByOwnCalls, Compose
  PROVE  SteeringInv' /\ SteeredByOwnCalls'
<1>1. /\ phase = "compose" /\ phase' = "generate"
      /\ \A i \in Envs : system'[i] = OuterSystem(i)
      /\ UNCHANGED <<managerVars, is_done, gate_decisions, total_batch_list>>
  BY DEF Compose
<1>2. thinking_mode \in {"dt_action", "selective_gate"}
  BY ModeType DEF IInv
<1>3. SteeringInv'
  BY <1>1 DEF SteeringInv, managerVars, CallAhead
<1>4. ASSUME NEW i \in Envs, thinking_mode = "selective_gate"
      PROVE  OuterSystem(i) = IF GateOpened(total_batch_list[i]) THEN "post_dt" ELSE "no_dt"
  BY <1>1, <1>4 DEF SteeringInv, OuterSystem
<1>5. ASSUME NEW i \in Envs, thinking_mode = "dt_action"
      PROVE  OuterSystem(i) = IF CalledWithin(total_batch_list[i], 1) THEN "dt_used" ELSE "dt_avail"
  <2>1. dt_states[i].just_called_dt <=> CalledWithin(total_batch_list[i], 1)
    BY <1>1, <1>5, FlagTells DEF CallAhead
  <2> QED BY <1>5, <2>1 DEF OuterSystem
<1>6. SteeredByOwnCalls'
  BY <1>1, <1>2, <1>4, <1>5 DEF SteeredByOwnCalls, managerVars, TurnPhases
<1> QED BY <1>3, <1>6

(* The generations leave prompts and rows alone; a call that is intercepted  *)
(* sets the flag ahead of its row.                                           *)
LEMMA InnerSteering ==
  ASSUME IInv, SteeringInv, SteeredByOwnCalls, Deliberate \/ Generate \/ Intercept
  PROVE  SteeringInv' /\ SteeredByOwnCalls'
<1>1. CASE Deliberate
  <2>1. /\ phase = "deliberate" /\ phase' = "compose" /\ thinking_mode = "selective_gate"
        /\ UNCHANGED <<thinking_mode, obs, is_done, gate_decisions, total_batch_list>>
    BY <1>1, DeliberateFacts DEF loopLocals
  <2> QED BY <2>1 DEF SteeringInv, SteeredByOwnCalls, TurnPhases, Active
<1>2. CASE Generate
  <2>1. /\ phase = "generate" /\ phase' \in {"intercept", "step"}
        /\ UNCHANGED <<managerVars, total_batch_list>>
    BY <1>2 DEF Generate
  <2> QED BY <2>1 DEF SteeringInv, SteeredByOwnCalls, TurnPhases, managerVars, CallAhead
<1>3. CASE Intercept
  <2>1. /\ phase = "intercept" /\ phase' = "step" /\ thinking_mode = "dt_action"
        /\ UNCHANGED <<thinking_mode, obs, total_batch_list>>
        /\ \A i \in Envs : ~is_dt_step'[i] => dt_states'[i] = dt_states[i]
    BY <1>3, InterceptFacts
  <2>2. \A i \in Envs : dt_states[i].just_called_dt => CalledWithin(total_batch_list[i], 1)
    BY <2>1 DEF SteeringInv, CallAhead
  <2>3. SteeringInv'
    BY <2>1, <2>2 DEF SteeringInv, CallAhead
  <2>4. SteeredByOwnCalls'
    BY <2>1 DEF SteeredByOwnCalls, TurnPhases
  <2> QED BY <2>3, <2>4
<1> QED BY <1>1, <1>2, <1>3

(* The prompt a turn ends with tells of the flag as it was before the turn   *)
(* ended the cooldown.                                                       *)
LEMMA StepEnvsSteering ==
  ASSUME IInv, SteeringInv, SteeredByOwnCalls, StepEnvs
  PROVE  SteeringInv' /\ SteeredByOwnCalls'
<1>1. TypeOK /\ CooldownInv
  BY DEF IInv
<1>2. /\ phase = "step" /\ phase' \in {"gate", "compose", "evaluate"}
      /\ thinking_mode' = thinking_mode
      /\ phase' = "compose" => thinking_mode # "selective_gate"
      /\ thinking_mode \in {"dt_action", "selective_gate"}
  BY <1>1, StepEnvsFacts, ModeType DEF FirstPhase
<1>3. PICK answers \in [Envs -> Answers] : \A i \in Envs :
        /\ obs'[i] = BuildTextObs(FALSE, memory'[i], dt_states[i])
        /\ total_batch_list'[i] =
             Append(total_batch_list[i], TurnRow(i, Outcome(i, answers[i])))
        /\ dt_states'[i] = IF RealAction(i) THEN ConsumeDTBlock(dt_states[i])
                           ELSE dt_states[i]
  BY StepEnvsFacts
<1>4. ASSUME NEW i \in Envs
      PROVE  /\ CalledWithin(total_batch_list'[i], 1) <=> is_dt_step[i]
             /\ CalledWithin(total_batch_list'[i], 2) <=>
                  is_dt_step[i] \/ CalledWithin(total_batch_list[i], 1)
             /\ ~GateOpened(total_batch_list'[i])
  <2> DEFINE row == TurnRow(i, Outcome(i, answers[i]))
  <2>1. row \in Rows /\ row.is_dt_step = is_dt_step[i]
    BY <1>1, TurnRowType
  <2>2. row.gate_decision = FALSE
    BY DEF TurnRow
  <2>3. total_batch_list[i] \in Seq(Rows) /\ total_batch_list'[i] = Append(total_batch_list[i], row)
    BY <1>1, <1>3 DEF TypeOK
  <2> HIDE DEF row
  <2> QED BY <2>1, <2>2, <2>3, CalledAppend
<1>5. ASSUME NEW i \in Envs
      PROVE  obs'[i].guidance =
               CASE thinking_mode = "selective_gate" -> "base"
                 [] thinking_mode # "selective_gate" /\ ~dt_states[i].just_called_dt -> "dt_avail"
                 [] OTHER -> "dt_used"
  <2>1. obs'[i] = BuildTextObs(FALSE, memory'[i], dt_states[i])
    BY <1>3
  <2> QED BY ONLY <1>2, <2>1 DEF BuildTextObs, BuildDTActionUser
<1>6. ASSUME NEW i \in Envs, thinking_mode = "dt_action"
      PROVE  dt_states[i].just_called_dt <=> CalledWithin(total_batch_list'[i], 2)
  BY <1>2, <1>4, <1>6, FlagTells DEF CallAhead
<1>7. SteeredByOwnCalls'
  BY <1>2, <1>5, <1>6 DEF SteeredByOwnCalls
<1>8. ASSUME NEW i \in Envs, thinking_mode = "dt_action", dt_states'[i].just_called_dt
      PROVE  CalledWithin(total_batch_list'[i], 1)
  <2>1. dt_states[i] \in DTState(MaxSteps)
    BY <1>1 DEF TypeOK, ManagerTypeOK
  <2>2. ~RealAction(i) /\ dt_states'[i] = dt_states[i]
    BY <1>3, <1>8, <2>1, DTStateType
  <2>3. ~is_dt_step[i] => ~Active(i) /\ CalledWithin(total_batch_list[i], 1)
    BY <1>2, <1>8, <2>2, FlagTells DEF RealAction, CallAhead
  <2>4. CalledWithin(total_batch_list[i], 1) => Active(i)
    <3>1. total_batch_list[i] \in Seq(Rows) /\ GateRow(TRUE) \in Rows
      BY <1>1, GateRowType DEF TypeOK
    <3>2. LET rows == total_batch_list[i]
          IN  Len(rows) > 0 /\ rows[Len(rows)].is_dt_step => Active(i)
      BY <1>1 DEF CooldownInv
    <3> QED BY <3>1, <3>2, CalledAppend
  <2> QED BY <1>4, <2>3, <2>4
<1>9. SteeringInv'
  BY <1>2, <1>4, <1>8 DEF SteeringInv
<1> QED BY <1>7, <1>9

(* Every step steers by the calls of the rollout. *)
LEMMA NextSteering ==
  ASSUME IInv, SteeringInv, SteeredByOwnCalls, [Next]_vars
  PROVE  SteeringInv' /\ SteeredByOwnCalls'
<1>1. CASE Evaluate \/ Gather
  <2>1. /\ phase \in {"evaluate", "gather"} /\ phase' \in {"gather", "idle"}
        /\ UNCHANGED <<managerVars, total_batch_list>>
    BY <1>1 DEF Evaluate, Gather
  <2> QED BY <2>1 DEF SteeringInv, SteeredByOwnCalls, TurnPhases, managerVars, CallAhead
<1>2. CASE UNCHANGED vars
  BY <1>2 DEF vars, managerVars, loopLocals, SteeringInv, SteeredByOwnCalls, CallAhead, Active
<1> QED
  BY <1>1, <1>2, RenewalSteering, GateSteering, ComposeSteering, InnerSteering,
     StepEnvsSteering DEF Next

-----------------------------------------------------------------------------
(* Memos and prompts.                                                        *)

(* What the end of a turn tells the model. *)
LEMMA TurnPrompt ==
  ASSUME NEW history, Len(history) \in Nat, NEW state
  PROVE  LET prompt == BuildTextObs(FALSE, history, state)
         IN  /\ prompt.current_step = Len(history) + 1
             /\ prompt.history = IF Len(history) < HistoryLength THEN Len(history)
                                 ELSE HistoryLength
             /\ prompt.memo = IF state.latest_memo = "blank" \/ HistoryLength = 0
                              THEN 0 ELSE state.memo_step
BY DEF BuildTextObs, BuildDTActionUser, RenderMemoBlock

(* What the prompt of a reset counts. *)
LEMMA FreshCounts ==
  LET prompt == BuildTextObs(TRUE, <<>>, NewDTState)
  IN  prompt.current_step = 1 /\ prompt.history = 0 /\ prompt.memo = 0
BY DEF BuildTextObs, BuildDTActionUser

(* The first prompts have no history and no memo. *)
LEMMA InitPrompt == Init => PromptInv
<1> SUFFICES ASSUME Init, NEW i \in Envs
             PROVE  /\ ~CallAhead(i) /\ ~RowAhead(i)
                    /\ dt_states[i].memo_step = LastCallTurn(total_batch_list[i])
                    /\ obs[i].current_step = env_step + 1
                    /\ obs[i].history = IF env_step < HistoryLength THEN env_step
                                        ELSE HistoryLength
                    /\ obs[i].memo = IF dt_states[i].latest_memo = "blank" \/ HistoryLength = 0
                                     THEN 0 ELSE dt_states[i].memo_step
  BY DEF PromptInv
<1>1. phase = "idle" /\ env_step = 0
  BY DEF Init
<1>2. dt_states[i].memo_step = 0 /\ dt_states[i].latest_memo = "blank"
  <2>1. dt_states[i] = NewDTState
    BY DEF Init, ManagerInit
  <2> QED BY <2>1, FreshPrompt
<1>3. LastCallTurn(total_batch_list[i]) = 0
  <2>1. total_batch_list[i] = <<>>
    BY DEF Init, AllEnvs
  <2> QED BY <2>1, LastCallEmpty
<1>4. obs[i].current_step = 1 /\ obs[i].history = 0 /\ obs[i].memo = 0
  <2>1. obs = [j \in Envs |-> BuildTextObs(TRUE, <<>>, NewDTState)]
    BY DEF Init, ManagerInit
  <2> DEFINE prompt == BuildTextObs(TRUE, <<>>, NewDTState)
  <2>2. prompt.current_step = 1 /\ prompt.history = 0 /\ prompt.memo = 0
    BY FreshCounts
  <2>3. obs = [j \in Envs |-> prompt]
    BY <2>1
  <2> HIDE DEF prompt
  <2> QED BY <2>2, <2>3
<1> QED BY <1>1, <1>2, <1>3, <1>4, HistoryLengthAssumption DEF CallAhead, RowAhead

(* A reset starts without memos, and ends with the same prompts. *)
LEMMA RenewalPrompt ==
  ASSUME IInv, Reset \/ Renew \/ Rebuild \/ Begin
  PROVE  PromptInv'
<1>1. CASE Reset
  <2>1. phase' = "renew"
    BY <1>1 DEF Reset
  <2> QED BY <2>1 DEF PromptInv, CallAhead, RowAhead, BetweenTurns, FirstPhase
<1>2. CASE Renew \/ Rebuild \/ Begin
  <2>1. /\ phase' \in {"rebuild", "begin", "gate", "compose"}
        /\ phase' \in {"gate", "compose"} => phase' = FirstPhase
        /\ env_step' = 0 /\ total_batch_list' = total_batch_list
        /\ \A i \in Envs : total_batch_list[i] = <<>> /\ dt_states'[i] = NewDTState
        /\ phase' # "rebuild" =>
              \A i \in Envs : obs'[i] = BuildTextObs(TRUE, <<>>, NewDTState)
    BY <1>2, RenewalFacts DEF loopVars
  <2>2. BetweenTurns' => phase' # "rebuild"
    BY DEF BetweenTurns, FirstPhase
  <2>3. ASSUME NEW i \in Envs
        PROVE  /\ dt_states'[i].memo_step = LastCallTurn(total_batch_list'[i])
               /\ dt_states'[i].memo_step = 0 /\ dt_states'[i].latest_memo = "blank"
    BY <2>1, FreshPrompt, LastCallEmpty
  <2>4. ASSUME NEW i \in Envs, phase' # "rebuild"
        PROVE  obs'[i].current_step = 1 /\ obs'[i].history = 0 /\ obs'[i].memo = 0
    <3> DEFINE prompt == BuildTextObs(TRUE, <<>>, NewDTState)
    <3>1. prompt.current_step = 1 /\ prompt.history = 0 /\ prompt.memo = 0
      BY FreshCounts
    <3>2. obs'[i] = prompt
      BY <2>1, <2>4
    <3> HIDE DEF prompt
    <3> QED BY <3>1, <3>2
  <2> QED BY <2>1, <2>2, <2>3, <2>4, HistoryLengthAssumption DEF PromptInv, CallAhead, RowAhead
<1> QED BY <1>1, <1>2

(* The number of turns recorded is the number of turns played. *)
LEMMA TurnsPlayed ==
  ASSUME IInv, PairingInv, NEW i \in Envs
  PROVE  EnvRows(total_batch_list[i]) = env_step
<1>1. total_batch_list[i] \in Seq(Rows)
      /\ InfoIndex(total_batch_list[i], Len(total_batch_list[i])) = Len(total_infos[i])
      /\ Len(total_infos[i]) = env_step
  BY DEF IInv, TypeOK, LockStepInv, PairingInv
<1> QED BY <1>1, TurnsCounted

\* The gate announces the calls of the turn, whose memos are to come.
LEMMA GatePrompt == ASSUME IInv, PairingInv, PromptInv, Gate PROVE PromptInv'
<1>1. TypeOK
  BY DEF IInv
<1>2. /\ phase = "gate" /\ phase' = "deliberate" /\ thinking_mode' = "selective_gate"
      /\ UNCHANGED <<dt_states, env_step>>
  BY GateFacts DEF managerVars
<1> SUFFICES ASSUME NEW i \in Envs
             PROVE  LET called == LastCallTurn(total_batch_list'[i])
                    IN  /\ gate_decisions'[i] => called = env_step + 1
                        /\ ~gate_decisions'[i] => dt_states[i].memo_step = called
  BY <1>2 DEF PromptInv, CallAhead, RowAhead, BetweenTurns, FirstPhase
<1> DEFINE rows == total_batch_list[i]
           row  == GateRow(gate_decisions'[i])
<1>3. /\ gate_decisions'[i] \in BOOLEAN
      /\ gate_decisions'[i] => Active(i)
      /\ total_batch_list'[i] = IF Active(i) THEN Append(rows, row) ELSE rows
  BY GateFacts
<1>4. rows \in Seq(Rows) /\ row \in Rows /\ (Call(row) <=> gate_decisions'[i])
  BY <1>1, <1>3, RowsCounted, GateRowCounted
<1>5. dt_states[i].memo_step = LastCallTurn(rows)
  BY <1>2 DEF PromptInv, CallAhead, RowAhead
<1>6. EnvRows(rows) = env_step
  BY TurnsPlayed
<1> HIDE DEF rows, row
<1>7. LastCallTurn(Append(rows, row)) =
        IF Call(row) THEN EnvRows(rows) + 1 ELSE LastCallTurn(rows)
  BY <1>4, LastCallAppend
<1>8. CASE Active(i)
  BY <1>3, <1>4, <1>5, <1>6, <1>7, <1>8
<1>9. CASE ~Active(i)
  BY <1>3, <1>5, <1>9
<1> QED BY <1>8, <1>9

\* The announced calls write the memo of the turn.
LEMMA DeliberatePrompt == ASSUME IInv, LedgerInv, PromptInv, Deliberate PROVE PromptInv'
<1>1. /\ phase = "deliberate" /\ phase' = "compose" /\ thinking_mode' = "selective_gate"
      /\ UNCHANGED <<env_step, total_batch_list>>
  BY DeliberateFacts
<1> SUFFICES ASSUME NEW i \in Envs
             PROVE  dt_states'[i].memo_step = LastCallTurn(total_batch_list[i])
  BY <1>1 DEF PromptInv, CallAhead, RowAhead, BetweenTurns, FirstPhase
<1>2. /\ gate_decisions[i] => Active(i)
      /\ gate_decisions[i] => LastCallTurn(total_batch_list[i]) = env_step + 1
      /\ ~gate_decisions[i] => dt_states[i].memo_step = LastCallTurn(total_batch_list[i])
  BY <1>1 DEF PromptInv, LedgerInv, CallAhead, RowAhead
<1>3. CASE gate_decisions[i]
  BY <1>2, <1>3, DeliberateFacts
<1>4. CASE ~gate_decisions[i]
  BY <1>2, <1>4, DeliberateFacts
<1> QED BY <1>3, <1>4

\* An intercepted call writes the memo of the turn, ahead of its row.
LEMMA InterceptPrompt == ASSUME IInv, PromptInv, Intercept PROVE PromptInv'
<1>1. phase = "intercept" /\ phase' = "step" /\ UNCHANGED <<env_step, total_batch_list>>
  BY InterceptFacts
<1> SUFFICES ASSUME NEW i \in Envs
             PROVE  /\ is_dt_step'[i] => dt_states'[i].memo_step = env_step + 1
                    /\ ~is_dt_step'[i] =>
                         dt_states'[i].memo_step = LastCallTurn(total_batch_list[i])
  BY <1>1 DEF PromptInv, CallAhead, RowAhead, BetweenTurns, FirstPhase
<1>2. dt_states[i].memo_step = LastCallTurn(total_batch_list[i])
  BY <1>1 DEF PromptInv, CallAhead, RowAhead
<1> QED BY <1>2, InterceptFacts

\* Stepping the environments builds the next prompt from the new observation.
LEMMA StepEnvsPrompt == ASSUME IInv, PairingInv, PromptInv, StepEnvs PROVE PromptInv'
<1>1. TypeOK /\ CooldownInv
  BY DEF IInv
<1>2. /\ phase = "step" /\ phase' \in {FirstPhase, "evaluate"}
      /\ env_step' = env_step + 1 /\ env_step \in Nat
      /\ UNCHANGED <<thinking_mode, is_dt_step, gate_decisions>>
  BY StepEnvsFacts DEF loopLocals
<1>3. phase' \in {"gate", "compose", "evaluate"}
  BY <1>2, FreshTypes
<1>4. PICK answers \in [Envs -> Answers] : \A i \in Envs :
        /\ obs'[i] = BuildTextObs(FALSE, memory'[i], dt_states[i])
        /\ Len(memory'[i]) = env_step + 1
        /\ total_batch_list'[i] =
             Append(total_batch_list[i], TurnRow(i, Outcome(i, answers[i])))
        /\ dt_states'[i] = IF RealAction(i) THEN ConsumeDTBlock(dt_states[i])
                           ELSE dt_states[i]
  BY StepEnvsFacts
<1>5. ASSUME NEW i \in Envs
      PROVE  /\ dt_states'[i].memo_step = dt_states[i].memo_step
             /\ dt_states'[i].latest_memo = dt_states[i].latest_memo
  <2>1. dt_states[i] \in DTState(MaxSteps)
    BY <1>1 DEF TypeOK, ManagerTypeOK
  <2>2. /\ ConsumeDTBlock(dt_states[i]).memo_step = dt_states[i].memo_step
        /\ ConsumeDTBlock(dt_states[i]).latest_memo = dt_states[i].latest_memo
    BY <2>1 DEF ConsumeDTBlock, DTState
  <2>3. dt_states'[i] \in {ConsumeDTBlock(dt_states[i]), dt_states[i]}
    BY <1>4
  <2> QED BY <2>2, <2>3
<1>6. ASSUME NEW i \in Envs
      PROVE  dt_states[i].memo_step = LastCallTurn(total_batch_list'[i])
  <2> DEFINE rows == total_batch_list[i]
             row  == TurnRow(i, Outcome(i, answers[i]))
  <2>1. rows \in Seq(Rows) /\ row \in Rows /\ (Call(row) <=> is_dt_step[i])
    BY <1>1, RowsCounted, TurnRowCounted
  <2>2. /\ is_dt_step[i] => dt_states[i].memo_step = env_step + 1
        /\ ~is_dt_step[i] => dt_states[i].memo_step = LastCallTurn(rows)
    BY <1>2 DEF PromptInv, CallAhead, RowAhead
  <2>3. EnvRows(rows) = env_step
    BY TurnsPlayed
  <2>4. total_batch_list'[i] = Append(rows, row)
    BY <1>4
  <2> HIDE DEF rows, row
  <2>5. LastCallTurn(Append(rows, row)) =
          IF Call(row) THEN EnvRows(rows) + 1 ELSE LastCallTurn(rows)
    BY <2>1, LastCallAppend
  <2>6. CASE is_dt_step[i]
    BY <2>1, <2>2, <2>3, <2>4, <2>5, <2>6
  <2>7. CASE ~is_dt_step[i]
    BY <2>1, <2>2, <2>4, <2>5, <2>7
  <2> QED BY <2>6, <2>7
<1>7. ASSUME NEW i \in Envs
      PROVE  /\ obs'[i].current_step = env_step + 1 + 1
             /\ obs'[i].history = IF env_step + 1 < HistoryLength THEN env_step + 1
                                  ELSE HistoryLength
             /\ obs'[i].memo = IF dt_states[i].latest_memo = "blank" \/ HistoryLength = 0
                               THEN 0 ELSE dt_states[i].memo_step
  <2>1. Len(memory'[i]) = env_step + 1
    BY <1>4
  <2>2. Len(memory'[i]) \in Nat
    BY <1>2, <2>1
  <2> DEFINE prompt == BuildTextObs(FALSE, memory'[i], dt_states[i])
  <2>3. /\ prompt.current_step = Len(memory'[i]) + 1
        /\ prompt.history = IF Len(memory'[i]) < HistoryLength THEN Len(memory'[i])
                            ELSE HistoryLength
        /\ prompt.memo = IF dt_states[i].latest_memo = "blank" \/ HistoryLength = 0
                         THEN 0 ELSE dt_states[i].memo_step
    BY <2>2, TurnPrompt
  <2>4. obs'[i] = prompt
    BY <1>4
  <2> HIDE DEF prompt
  <2> QED BY <2>1, <2>3, <2>4
<1> QED BY <1>2, <1>3, <1>5, <1>6, <1>7 DEF PromptInv, CallAhead, RowAhead

\* Every step of the rollout keeps the prompts true to the environments.
LEMMA NextPrompt == ASSUME IInv, LedgerInv, PairingInv, PromptInv, [Next]_vars PROVE PromptInv'
<1>1. PhaseInv /\ TypeOK
  BY DEF IInv
<1>2. CASE Compose
  <2>1. /\ phase = "compose" /\ phase' = "generate" /\ thinking_mode' = thinking_mode
        /\ UNCHANGED <<dt_states, env_step, total_batch_list>>
    BY <1>2 DEF Compose, managerVars
  <2> QED BY <2>1 DEF PromptInv, CallAhead, RowAhead, BetweenTurns, FirstPhase
<1>3. CASE Generate
  <2>1. /\ phase = "generate" /\ phase' \in {"intercept", "step"}
        /\ thinking_mode' = thinking_mode /\ \A i \in Envs : is_dt_step'[i] = FALSE
        /\ UNCHANGED <<dt_states, env_step, total_batch_list>>
    BY <1>3 DEF Generate, managerVars, AllEnvs
  <2> QED BY <2>1 DEF PromptInv, CallAhead, RowAhead, BetweenTurns, FirstPhase
<1>4. CASE Evaluate \/ Gather
  <2>1. /\ phase \in {"evaluate", "gather"} /\ phase' \in {"gather", "idle"}
        /\ UNCHANGED <<dt_states, obs, env_step, total_batch_list>>
    BY <1>4 DEF Evaluate, Gather, managerVars
  <2> QED BY <2>1 DEF PromptInv, CallAhead, RowAhead, BetweenTurns
<1>5. CASE UNCHANGED vars
  BY <1>5 DEF vars, managerVars, loopLocals, PromptInv, CallAhead, RowAhead, BetweenTurns,
              FirstPhase
<1> QED
  BY <1>2, <1>3, <1>4, <1>5, RenewalPrompt, GatePrompt, DeliberatePrompt, InterceptPrompt,
     StepEnvsPrompt DEF Next

-----------------------------------------------------------------------------
(* The theorems about rows, counters, infos and prompts.                     *)

(* Before the first rollout there is nothing to carry over. *)
LEMMA InitBooks == Init => BooksInv
<1> SUFFICES ASSUME Init PROVE BooksInv
  OBVIOUS
<1>1. CallRowsAreNeutral
  BY DEF Init, AllEnvs, CallRowsAreNeutral
<1>2. SteeringInv /\ SteeredByOwnCalls
  <2>1. \A i \in Envs : ~dt_states[i].just_called_dt
    BY FreshPrompt DEF Init, ManagerInit
  <2> QED BY <2>1 DEF Init, SteeringInv, SteeredByOwnCalls, TurnPhases
<1> QED BY <1>1, <1>2, InitInv, InitLedger, InitPairing, InitPrompt DEF BooksInv

(* Every step keeps the books. *)
LEMMA NextBooks == BooksInv /\ [Next]_vars => BooksInv'
BY NextInv, NextLedger, NextPairing, NextPrompt, NextNeutral, NextSteering DEF BooksInv

(* The loop only reaches states whose books are kept: the counters, the      *)
(* infos, the memos and the prompts say what the rows say, at every point of *)
(* a turn.                                                                   *)
THEOREM BooksKept == Spec => []BooksInv
BY InitBooks, NextBooks, PTL DEF Spec

(* No turn is under way between turns. *)
LEMMA NoTurnUnderWay ==
  ASSUME BetweenTurns, NEW i \in Envs
  PROVE  ~RowAhead(i) /\ ~CallAhead(i) /\ ~ActionAhead(i) /\ phase # "renew"
BY DEF BetweenTurns, FirstPhase, RowAhead, CallAhead, ActionAhead

(* The counters stamped on the rows (episode length, rewards, calls, action  *)
(* and total tokens) are the counts of the rows of the trajectory, for every *)
(* batch, mode, step limit and games.                                        *)
THEOREM CountersCount == Spec => []CountersMatchRows
<1>1. BooksInv => CountersMatchRows
  <2> SUFFICES ASSUME BooksInv, BetweenTurns, NEW i \in Envs
               PROVE  LET rows == total_batch_list[i]
                      IN  /\ episode_lengths[i] = RealTurns(rows)
                          /\ episode_rewards[i] = Rewardings(rows)
                          /\ tool_callings[i] = Calls(rows)
                          /\ tool_callings[i] = dt_states[i].dt_count
                          /\ action_output_tokens[i] = ActiveTurns(rows)
                          /\ total_output_tokens[i] =
                               action_output_tokens[i] + GateSteps(rows) + 2 * tool_callings[i]
    BY DEF CountersMatchRows
  <2>1. TypeOK /\ CooldownInv /\ LedgerInv
    BY DEF BooksInv, IInv
  <2>2. tool_callings[i] \in Nat /\ Calls(total_batch_list[i]) \in Nat
        /\ ActiveTurns(total_batch_list[i]) \in Nat
    BY <2>1, RowsCounted
  <2>3. ~RowAhead(i) /\ ~CallAhead(i) /\ ~ActionAhead(i) /\ phase # "renew"
    BY NoTurnUnderWay
  <2>4. tool_callings[i] = dt_states[i].dt_count
    BY <2>1, <2>3 DEF CooldownInv
  <2>5. /\ episode_lengths[i] = RealTurns(total_batch_list[i])
        /\ episode_rewards[i] = Rewardings(total_batch_list[i])
        /\ tool_callings[i] + 0 = Calls(total_batch_list[i]) + 0
        /\ action_output_tokens[i] = ActiveTurns(total_batch_list[i]) + 0
        /\ total_output_tokens[i] =
             action_output_tokens[i] + GateSteps(total_batch_list[i]) + 2 * tool_callings[i]
    BY <2>1, <2>3 DEF LedgerInv
  <2> QED BY <2>2, <2>4, <2>5
<1> QED BY <1>1, BooksKept, PTL

(* The k-th turn row of a trajectory and its k-th info are of one env step,  *)
(* gate rows in between and steps after the end of the game included.        *)
THEOREM RowsAndInfosPaired == Spec => []RowsMatchInfos
<1>1. BooksInv => RowsMatchInfos
  <2> SUFFICES ASSUME BooksInv, NEW i \in Envs
               PROVE  LET rows == total_batch_list[i]
                      IN  /\ EnvRows(rows) = env_step /\ Len(total_infos[i]) = env_step
                          /\ \A k \in DOMAIN rows :
                               LET info == total_infos[i][EnvRows(SubSeq(rows, 1, k))]
                               IN  EnvRow(rows[k]) =>
                                     /\ rows[k].is_action_valid = info.is_action_valid
                                     /\ RealTurn(rows[k]) => (rows[k].rewards = 1 <=> info.won)
    BY DEF RowsMatchInfos
  <2> DEFINE rows == total_batch_list[i]
  <2>1. TypeOK /\ IInv /\ PairingInv
    BY DEF BooksInv, IInv
  <2>2. rows \in Seq(Rows)
    BY <2>1, RowsCounted
  <2>3. EnvRows(rows) = env_step /\ Len(total_infos[i]) = env_step
    BY <2>1, TurnsPlayed DEF PairingInv
  <2>4. ASSUME NEW k \in DOMAIN rows, EnvRow(rows[k])
        PROVE  LET info == total_infos[i][EnvRows(SubSeq(rows, 1, k))]
               IN  /\ rows[k].is_action_valid = info.is_action_valid
                   /\ RealTurn(rows[k]) => (rows[k].rewards = 1 <=> info.won)
    <3>1. k \in 1 .. Len(rows) /\ k \in 0 .. Len(rows)
      BY <2>2, <2>4
    <3>2. EnvRows(SubSeq(rows, 1, k)) = InfoIndex(rows, k)
      BY <2>2, <3>1, InfoIndexCounts
    <3>3. IsTurn(rows[k])
      BY <2>4 DEF EnvRow, IsTurn
    <3>4. LET info == total_infos[i][InfoIndex(rows, k)]
          IN  /\ rows[k].is_action_valid = info.is_action_valid
              /\ RealTurn(rows[k]) => (rows[k].rewards = 1 <=> info.won)
      BY <2>1, <3>1, <3>3 DEF PairingInv
    <3> QED BY <3>2, <3>4
  <2> QED BY <2>3, <2>4
<1> QED BY <1>1, BooksKept, PTL

(* The row of a call earns nothing, is no invalid action, and never ends a   *)
(* trajectory: a real action does.                                           *)
THEOREM CallsNeutral == Spec => []CallRowsAreNeutral
<1>1. BooksInv => CallRowsAreNeutral
  BY DEF BooksInv
<1> QED BY <1>1, BooksKept, PTL

(* In every turn of every rollout, what steers a generation follows from the *)
(* calls this trajectory made in this rollout.                               *)
THEOREM OwnCallsSteer == Spec => []SteeredByOwnCalls
<1>1. BooksInv => SteeredByOwnCalls
  BY DEF BooksInv
<1> QED BY <1>1, BooksKept, PTL

(* The step and the memo a prompt shows are the ones of the loop and of the  *)
(* last call, for every history length.                                      *)
THEOREM PromptsTruthful == Spec => []PromptsTellTheTruth
<1>1. BooksInv => PromptsTellTheTruth
  <2> SUFFICES ASSUME BooksInv, BetweenTurns, NEW i \in Envs
               PROVE  LET called == LastCallTurn(total_batch_list[i])
                      IN  /\ obs[i].current_step = env_step + 1
                          /\ obs[i].history = IF env_step < HistoryLength THEN env_step
                                              ELSE HistoryLength
                          /\ dt_states[i].memo_step = called
                          /\ obs[i].memo = IF dt_states[i].latest_memo = "blank" \/ HistoryLength = 0
                                           THEN 0 ELSE called
    BY DEF PromptsTellTheTruth
  <2>1. PromptInv
    BY DEF BooksInv
  <2>2. ~RowAhead(i) /\ ~CallAhead(i) /\ phase # "renew"
    BY NoTurnUnderWay
  <2>3. dt_states[i].memo_step = LastCallTurn(total_batch_list[i])
    BY <2>1, <2>2 DEF PromptInv
  <2>4. /\ obs[i].current_step = env_step + 1
        /\ obs[i].history = IF env_step < HistoryLength THEN env_step ELSE HistoryLength
        /\ obs[i].memo = IF dt_states[i].latest_memo = "blank" \/ HistoryLength = 0
                         THEN 0 ELSE dt_states[i].memo_step
    BY <2>1 DEF PromptInv
  <2> QED BY <2>3, <2>4
<1> QED BY <1>1, BooksKept, PTL

-----------------------------------------------------------------------------
(* The verdict.                                                              *)

(* The info of the last judged row says whether the trajectory succeeded. *)
LastJudgedTells(rows, infos, b) ==
  \A k \in 1 .. Len(rows) :
    Judged(rows[k]) /\ (\A l \in (k + 1) .. Len(rows) : ~Judged(rows[l])) =>
      (infos[InfoIndex(rows, k)].won <=> b)

(* A row that is not judged, with or without an info, leaves it at that. *)
LEMMA UnjudgedRow ==
  ASSUME NEW rows \in Seq(Rows), NEW r \in Rows, NEW infos, NEW more, NEW b \in BOOLEAN,
         ~Judged(r), LastJudgedTells(rows, infos, b),
         \A m \in 1 .. InfoIndex(rows, Len(rows)) : more[m] = infos[m]
  PROVE  LastJudgedTells(Append(rows, r), more, b)
<1> DEFINE n == Len(rows)
           new == Append(rows, r)
<1>1. /\ n \in Nat /\ Len(new) = n + 1 /\ new[n + 1] = r
      /\ \A k \in 1 .. n : new[k] = rows[k]
  OBVIOUS
<1>2. \A k \in 1 .. n : InfoIndex(new, k) = InfoIndex(rows, k)
  <2>1. \A k \in 0 .. n : InfoIndex(new, k) = InfoIndex(rows, k)
    BY InfoIndexAppend
  <2> QED BY <2>1, <1>1
<1> HIDE DEF new
<1>3. ASSUME NEW k \in 1 .. Len(new), Judged(new[k]),
             \A l \in (k + 1) .. Len(new) : ~Judged(new[l])
      PROVE  more[InfoIndex(new, k)].won <=> b
  <2>1. k \in 1 .. n
    BY <1>1, <1>3
  <2>2. Judged(rows[k]) /\ \A l \in (k + 1) .. n : ~Judged(rows[l])
    BY <1>1, <1>3, <2>1
  <2>3. infos[InfoIndex(rows, k)].won <=> b
    BY <2>1, <2>2 DEF LastJudgedTells
  <2>4. InfoIndex(rows, k) \in 1 .. InfoIndex(rows, n)
    <3>1. IsTurn(rows[k])
      BY <2>2 DEF Judged
    <3> QED BY <2>1, <3>1, InfoIndexBounds
  <2>5. more[InfoIndex(rows, k)] = infos[InfoIndex(rows, k)]
    BY <2>4
  <2> QED BY <1>2, <2>1, <2>3, <2>5
<1> QED BY <1>3 DEF LastJudgedTells, new

(* A row that is judged is the one whose info tells. *)
LEMMA JudgedRow ==
  ASSUME NEW rows \in Seq(Rows), NEW r \in Rows, NEW more, NEW b \in BOOLEAN,
         Judged(r), more[InfoIndex(rows, Len(rows)) + 1].won <=> b
  PROVE  LastJudgedTells(Append(rows, r), more, b)
<1> DEFINE n == Len(rows)
           new == Append(rows, r)
<1>1. n \in Nat /\ Len(new) = n + 1 /\ new[n + 1] = r
  OBVIOUS
<1>2. InfoIndex(new, n + 1) = InfoIndex(rows, n) + 1
  <2>1. IsTurn(r)
    BY DEF Judged
  <2>2. InfoIndex(new, n + 1) = InfoIndex(rows, n) + (IF IsTurn(r) THEN 1 ELSE 0)
    BY InfoIndexAppend
  <2> QED BY <2>1, <2>2
<1> HIDE DEF new
<1>3. ASSUME NEW k \in 1 .. Len(new), Judged(new[k]),
             \A l \in (k + 1) .. Len(new) : ~Judged(new[l])
      PROVE  more[InfoIndex(new, k)].won <=> b
  <2>1. k = n + 1
    <3> SUFFICES ASSUME k # n + 1 PROVE FALSE
      OBVIOUS
    <3>1. n + 1 \in (k + 1) .. Len(new)
      BY <1>1, <1>3
    <3> QED BY <1>1, <1>3, <3>1
  <2> QED BY <1>2, <2>1
<1> QED BY <1>3 DEF LastJudgedTells, new

(* The invariant of the verdict, with the notion above. *)
LEMMA VerdictTells ==
  VerdictInv <=>
    \A i \in Envs :
      /\ episode_rewards[i] \in {0, 1}
      /\ Active(i) => episode_rewards[i] = 0
      /\ phase \in TurnPhases /\ Active(i) => games[i].standing = "playing"
      /\ ~Active(i) => games[i].standing # "playing"
      /\ games[i].standing = "won" <=> episode_rewards[i] = 1
      /\ LastJudgedTells(total_batch_list[i], total_infos[i], episode_rewards[i] = 1)
      /\ phase = "gather" => (success[i] <=> episode_rewards[i] = 1)
BY DEF VerdictInv, LastJudgedTells

(* No game has been played, and nothing is judged. *)
LEMMA InitVerdict == Init => VerdictInv
<1> SUFFICES ASSUME Init PROVE VerdictInv
  OBVIOUS
<1>1. \A i \in Envs : /\ total_batch_list[i] = <<>> /\ is_done[i] = FALSE
                      /\ episode_rewards[i] = 0
  BY DEF Init, AllEnvs
<1>2. \A i \in Envs : games[i].standing = "playing"
  BY DEF Init, ManagerInit, NewGame
<1>3. phase = "idle"
  BY DEF Init
<1> QED BY <1>1, <1>2, <1>3 DEF VerdictInv, Active

(* A reset starts games that have not been won, and forgets the old rows. *)
LEMMA ResetVerdict == ASSUME Reset PROVE VerdictInv'
<1>1. \A i \in Envs : /\ total_batch_list'[i] = <<>> /\ is_done'[i] = FALSE
                      /\ episode_rewards'[i] = 0
  BY DEF Reset, AllEnvs
<1>2. \A i \in Envs : games'[i].standing = "playing"
  BY DEF Reset, ResetGames, NewGame
<1>3. phase' # "gather"
  BY DEF Reset
<1> QED BY <1>1, <1>2, <1>3 DEF VerdictInv, Active

(* The gate adds a row that is not judged. *)
LEMMA GateVerdict == ASSUME IInv, VerdictInv, Gate PROVE VerdictInv'
<1>1. TypeOK
  BY DEF IInv
<1>2. /\ phase = "gate" /\ phase' = "deliberate"
      /\ UNCHANGED <<games, is_done, total_infos, episode_rewards>>
  BY GateFacts DEF managerVars
<1>3. ASSUME NEW i \in Envs
      PROVE  LastJudgedTells(total_batch_list'[i], total_infos'[i], episode_rewards'[i] = 1)
  <2> DEFINE rows == total_batch_list[i]
             row  == GateRow(gate_decisions'[i])
  <2>1. /\ gate_decisions'[i] \in BOOLEAN
        /\ total_batch_list'[i] = IF Active(i) THEN Append(rows, row) ELSE rows
    BY GateFacts
  <2>2. rows \in Seq(Rows) /\ row \in Rows /\ ~Judged(row)
    BY <1>1, <2>1, RowsCounted, GateRowCounted
  <2>3. LastJudgedTells(rows, total_infos[i], episode_rewards[i] = 1)
    BY VerdictTells
  <2>4. LastJudgedTells(Append(rows, row), total_infos[i], episode_rewards[i] = 1)
    BY <2>2, <2>3, UnjudgedRow
  <2>5. total_infos'[i] = total_infos[i] /\ episode_rewards'[i] = episode_rewards[i]
    BY <1>2
  <2> HIDE DEF rows, row
  <2>6. CASE Active(i)
    <3>1. total_batch_list'[i] = Append(rows, row)
      BY <2>1, <2>6
    <3> QED BY <2>4, <2>5, <3>1
  <2>7. CASE ~Active(i)
    <3>1. total_batch_list'[i] = rows
      BY <2>1, <2>7
    <3> QED BY <2>3, <2>5, <3>1
  <2> QED BY <2>6, <2>7
<1>4. ASSUME NEW i \in Envs
      PROVE  /\ episode_rewards'[i] \in {0, 1}
             /\ Active(i)' => episode_rewards'[i] = 0
             /\ phase' \in TurnPhases /\ Active(i)' => games'[i].standing = "playing"
             /\ ~Active(i)' => games'[i].standing # "playing"
             /\ games'[i].standing = "won" <=> episode_rewards'[i] = 1
  BY <1>2 DEF VerdictInv, Active, TurnPhases
<1> QED BY <1>2, <1>3, <1>4 DEF VerdictInv, LastJudgedTells

(* The steps that play no game and record no row. *)
LEMMA QuietVerdict ==
  ASSUME VerdictInv, UNCHANGED <<games, is_done, total_batch_list, total_infos, episode_rewards>>,
         phase' \in TurnPhases => phase \in TurnPhases,
         phase' = "gather" => \A i \in Envs : success'[i] <=> episode_rewards[i] = 1
  PROVE  VerdictInv'
BY DEF VerdictInv, Active

(* How a game answers and stands, while it is in play. *)
LEMMA GameInPlay ==
  ASSUME NEW game, NEW command, NEW a \in GameAnswers(game, command),
         game.standing = "playing", game.steps \in Nat
  PROVE  /\ a \in Answers
         /\ a.won => a.done /\ command = "command"
         /\ ~a.won => (a.done <=> game.steps + 1 >= EnvLimit)
         /\ GamePlayed(game, a).standing =
              IF a.won THEN "won" ELSE IF a.done THEN "lost" ELSE "playing"
<1> DEFINE atLimit == game.steps + 1 >= EnvLimit
<1>1. \/ a = [won |-> FALSE, done |-> atLimit]
      \/ a \in Answers /\ a.won /\ a.done /\ command = "command"
  BY DEF GameAnswers
<1>2. atLimit \in BOOLEAN
  <2>1. CASE atLimit
    BY <2>1
  <2>2. CASE ~atLimit
    BY <2>2
  <2> QED BY <2>1, <2>2
<1> HIDE DEF atLimit
<1>3. a \in Answers
  <2>1. \A b \in BOOLEAN : [won |-> FALSE, done |-> b] \in Answers
    BY DEF Answers
  <2>2. [won |-> FALSE, done |-> atLimit] \in Answers
    BY <1>2, <2>1
  <2> QED BY <1>1, <2>2
<1>4. (a.won => a.done /\ command = "command") /\ (~a.won => (a.done <=> atLimit))
  BY <1>1
<1>5. /\ a.won => a.done /\ command = "command"
      /\ ~a.won => (a.done <=> game.steps + 1 >= EnvLimit)
  BY <1>4 DEF atLimit
<1>6. GamePlayed(game, a).standing =
        IF a.won THEN "won" ELSE IF a.done THEN "lost" ELSE "playing"
  BY <1>3 DEF GamePlayed, Answers
<1> QED BY <1>3, <1>5, <1>6

(* A turn: a real action is judged by the answer it gets; a noop wins        *)
(* nothing, and does not end a game whose own limit is not the smaller one.  *)
LEMMA StepEnvsVerdict ==
  ASSUME EnvLimit >= MaxSteps, IInv, VerdictInv, StepEnvs
  PROVE  VerdictInv'
<1>1. TypeOK /\ CooldownInv /\ LockStepInv
  BY DEF IInv
<1>2. /\ phase = "step" /\ phase' = AfterStep(is_done', env_step + 1)
      /\ env_step < MaxSteps /\ env_step \in Nat
  BY StepEnvsFacts
<1>3. PICK answers \in [Envs -> Answers] : \A i \in Envs :
        /\ answers[i] \in GameAnswers(games[i], ProjectedCommand(text_actions[i]))
        /\ games'[i] = GamePlayed(games[i], answers[i])
        /\ total_batch_list'[i] =
             Append(total_batch_list[i], TurnRow(i, Outcome(i, answers[i])))
        /\ total_infos'[i] =
             Append(total_infos[i],
                    [won |-> answers[i].won,
                     is_action_valid |-> Outcome(i, answers[i]).is_action_valid])
        /\ is_done'[i] = (is_done[i] \/ Outcome(i, answers[i]).done)
        /\ episode_rewards'[i] = episode_rewards[i] +
             (IF Active(i) THEN Outcome(i, answers[i]).rewards ELSE 0)
  BY StepEnvsFacts
<1>4. phase' \in TurnPhases => env_step + 1 < MaxSteps
  <2>1. env_step + 1 >= MaxSteps => phase' = "evaluate"
    BY <1>2 DEF AfterStep
  <2> QED BY <1>2, <2>1, MaxStepsAssumption DEF TurnPhases
<1>5. phase' # "gather"
  BY <1>2 DEF AfterStep, FirstPhase
<1>6. ASSUME NEW i \in Envs
      PROVE  /\ episode_rewards'[i] \in {0, 1}
             /\ ~is_done'[i] => episode_rewards'[i] = 0
             /\ phase' \in TurnPhases /\ ~is_done'[i] => games'[i].standing = "playing"
             /\ is_done'[i] => games'[i].standing # "playing"
             /\ games'[i].standing = "won" <=> episode_rewards'[i] = 1
             /\ LastJudgedTells(total_batch_list'[i], total_infos'[i], episode_rewards'[i] = 1)
  <2> DEFINE a    == answers[i]
             rows == total_batch_list[i]
             row  == TurnRow(i, Outcome(i, a))
             info == [won |-> a.won, is_action_valid |-> Outcome(i, a).is_action_valid]
             more == Append(total_infos[i], info)
  <2>1. /\ a \in Answers /\ a.won \in BOOLEAN /\ a.done \in BOOLEAN
        /\ is_dt_step[i] \in BOOLEAN /\ is_done[i] \in BOOLEAN
    BY <1>1, <1>3, RowsCounted DEF Answers
  <2>2. /\ rows \in Seq(Rows) /\ row \in Rows /\ (Judged(row) <=> Active(i))
        /\ Outcome(i, a).rewards = IF ~is_dt_step[i] /\ a.won THEN 1 ELSE 0
        /\ Outcome(i, a).done <=> a.done /\ ~is_dt_step[i]
        /\ Outcome(i, a).is_action_valid \in BOOLEAN
    BY <1>1, <2>1, RowsCounted, TurnRowCounted
  <2>3. /\ total_infos[i] \in Seq(Infos)
        /\ InfoIndex(rows, Len(rows)) = Len(total_infos[i])
        /\ info \in Infos
    BY <1>1, <2>1, <2>2 DEF TypeOK, LockStepInv, Infos
  <2>4. /\ \A m \in 1 .. InfoIndex(rows, Len(rows)) : more[m] = total_infos[i][m]
        /\ more[InfoIndex(rows, Len(rows)) + 1] = info
    <3> HIDE DEF info
    <3> QED BY <2>3
  <2>5. /\ episode_rewards[i] \in {0, 1}
        /\ Active(i) => episode_rewards[i] = 0 /\ games[i].standing = "playing"
        /\ ~Active(i) => games[i].standing # "playing"
        /\ games[i].standing = "won" <=> episode_rewards[i] = 1
        /\ LastJudgedTells(rows, total_infos[i], episode_rewards[i] = 1)
    BY <1>2, VerdictTells DEF TurnPhases
  <2>6. /\ total_batch_list'[i] = Append(rows, row) /\ total_infos'[i] = more
        /\ games'[i] = GamePlayed(games[i], a)
        /\ a \in GameAnswers(games[i], ProjectedCommand(text_actions[i]))
        /\ is_done'[i] = (is_done[i] \/ Outcome(i, a).done)
        /\ episode_rewards'[i] = episode_rewards[i] +
             (IF Active(i) THEN Outcome(i, a).rewards ELSE 0)
    BY <1>3
  <2>7. info.won = a.won
    OBVIOUS
  <2> HIDE DEF a, rows, row, info, more
  <2>8. CASE ~Active(i)
    <3>1. is_done'[i] /\ games'[i] = games[i] /\ episode_rewards'[i] = episode_rewards[i]
      <4>1. is_done'[i]
        BY <2>6, <2>8 DEF Active
      <4>2. games'[i] = games[i]
        BY <2>5, <2>6, <2>8 DEF GamePlayed
      <4>3. episode_rewards'[i] = episode_rewards[i]
        BY <2>5, <2>6, <2>8
      <4> QED BY <4>1, <4>2, <4>3
    <3>2. LastJudgedTells(Append(rows, row), more, episode_rewards[i] = 1)
      BY <2>2, <2>4, <2>5, <2>8, UnjudgedRow
    <3> QED BY <2>5, <2>6, <2>8, <3>1, <3>2
  <2>9. CASE Active(i) /\ is_dt_step[i]
    <3>1. text_actions[i] = "noop"
      BY <1>1, <1>2, <2>9 DEF CooldownInv
    <3>2. ProjectedCommand(text_actions[i]) # "command"
      BY <3>1 DEF ProjectedCommand
    <3>3. games[i].steps \in Nat
      BY <1>1, MaxStepsAssumption DEF TypeOK, ManagerTypeOK
    <3>4. ~a.won /\ (a.done <=> games[i].steps + 1 >= EnvLimit)
          /\ games'[i].standing = IF a.won THEN "won" ELSE IF a.done THEN "lost" ELSE "playing"
      BY <2>5, <2>6, <2>9, <3>2, <3>3, GameInPlay
    <3>5. episode_rewards'[i] = 0 /\ ~is_done'[i]
      <4>1. Outcome(i, a).rewards = 0 /\ ~Outcome(i, a).done
        BY <2>2, <2>9
      <4>2. episode_rewards'[i] = 0 + 0
        BY <2>5, <2>6, <2>9, <4>1
      <4>3. (is_done[i] \/ Outcome(i, a).done) = FALSE
        BY <2>9, <4>1 DEF Active
      <4>4. is_done'[i] = FALSE
        BY <2>6, <4>3
      <4> QED BY <4>2, <4>4
    <3>6. phase' \in TurnPhases => ~a.done
      <4>1. games[i].steps <= env_step /\ games[i].steps \in Nat
        BY <1>1, MaxStepsAssumption DEF LockStepInv, TypeOK, ManagerTypeOK
      <4> QED BY <1>2, <1>4, <3>4, <4>1, EnvLimitAssumption, MaxStepsAssumption
    <3>7. LastJudgedTells(Append(rows, row), more, episode_rewards'[i] = 1)
      <4>1. more[InfoIndex(rows, Len(rows)) + 1].won <=> episode_rewards'[i] = 1
        BY <2>4, <2>7, <3>4, <3>5
      <4> QED BY <2>2, <2>9, <4>1, JudgedRow
    <3>8. games'[i].standing # "won" /\ (phase' \in TurnPhases => games'[i].standing = "playing")
      BY <3>4, <3>6
    <3> QED BY <2>6, <3>5, <3>7, <3>8
  <2>10. CASE Active(i) /\ ~is_dt_step[i]
    <3>1. games[i].steps \in Nat
      BY <1>1, MaxStepsAssumption DEF TypeOK, ManagerTypeOK
    <3>2. /\ a.won => a.done
          /\ games'[i].standing = IF a.won THEN "won" ELSE IF a.done THEN "lost" ELSE "playing"
      BY <2>5, <2>6, <2>10, <3>1, GameInPlay
    <3>3. is_done'[i] = a.done
      BY <2>1, <2>2, <2>6, <2>10 DEF Active
    <3>4. episode_rewards'[i] = IF a.won THEN 1 ELSE 0
      <4>1. Outcome(i, a).rewards = IF a.won THEN 1 ELSE 0
        BY <2>2, <2>10
      <4>2. episode_rewards'[i] = 0 + Outcome(i, a).rewards
        BY <2>5, <2>6, <2>10
      <4> QED BY <4>1, <4>2
    <3>5. LastJudgedTells(Append(rows, row), more, episode_rewards'[i] = 1)
      <4>1. more[InfoIndex(rows, Len(rows)) + 1].won <=> episode_rewards'[i] = 1
        BY <2>1, <2>4, <2>7, <3>4
      <4> QED BY <2>2, <2>10, <4>1, JudgedRow
    <3>6. CASE a.won
      BY <2>6, <3>2, <3>3, <3>4, <3>5, <3>6
    <3>7. CASE ~a.won
      BY <2>6, <3>2, <3>3, <3>4, <3>5, <3>7
    <3> QED BY <3>6, <3>7
  <2> QED BY <2>8, <2>9, <2>10
<1> QED BY <1>5, <1>6 DEF VerdictInv, LastJudgedTells, Active

(* The evaluator reads the info that tells. *)
LEMMA EvaluateVerdict == ASSUME IInv, VerdictInv, Evaluate PROVE VerdictInv'
<1>1. TypeOK /\ PhaseInv /\ LockStepInv
  BY DEF IInv
<1>2. /\ phase = "evaluate" /\ phase' = "gather"
      /\ UNCHANGED <<games, is_done, total_batch_list, total_infos, episode_rewards>>
  BY DEF Evaluate, managerVars, ledgers
<1>3. ASSUME NEW i \in Envs PROVE success'[i] <=> episode_rewards[i] = 1
  <2> DEFINE rows == total_batch_list[i]
             last == LastJudged(rows)
  <2>1. rows \in Seq(Rows) /\ \E k \in 1 .. Len(rows) : Judged(rows[k])
    BY <1>1, <1>2, RowsCounted DEF PhaseInv, LockStepInv
  <2>2. /\ last \in 1 .. Len(rows) /\ Judged(rows[last])
        /\ \A l \in (last + 1) .. Len(rows) : ~Judged(rows[l])
    BY <2>1, LastJudgedExists
  <2>3. LastJudgedTells(rows, total_infos[i], episode_rewards[i] = 1)
    BY VerdictTells
  <2>4. success'[i] = total_infos[i][InfoIndex(rows, last)].won
    BY DEF Evaluate
  <2> HIDE DEF rows, last
  <2> QED BY <2>2, <2>3, <2>4 DEF LastJudgedTells
<1>4. phase' \notin TurnPhases
  BY <1>2 DEF TurnPhases
<1> QED BY <1>2, <1>3, <1>4, QuietVerdict

(* Every step keeps reward, infos and games in agreement. *)
LEMMA NextVerdict ==
  ASSUME EnvLimit >= MaxSteps, IInv, VerdictInv, [Next]_vars
  PROVE  VerdictInv'
<1>1. PhaseInv
  BY DEF IInv
<1>2. CASE Deliberate
  BY <1>2, QuietVerdict DEF Deliberate, TurnPhases
<1>3. CASE Compose
  BY <1>3, QuietVerdict DEF Compose, managerVars, ledgers, TurnPhases
<1>4. CASE Generate
  <2>1. phase' \in {"intercept", "step"} /\ phase = "generate"
    BY <1>4 DEF Generate
  <2> QED BY <1>4, <2>1, QuietVerdict DEF Generate, managerVars, TurnPhases
<1>5. CASE Intercept
  BY <1>5, QuietVerdict DEF Intercept, TurnPhases
<1>6. CASE Gather
  BY <1>6, QuietVerdict DEF Gather, managerVars, ledgers, TurnPhases
<1>7. CASE UNCHANGED vars
  <2>1. /\ UNCHANGED <<games, is_done, total_batch_list, total_infos, episode_rewards>>
        /\ UNCHANGED <<phase, success>>
    BY <1>7 DEF vars, managerVars, ledgers
  <2>2. phase = "gather" => \A i \in Envs : success[i] <=> episode_rewards[i] = 1
    BY DEF VerdictInv
  <2> QED BY <2>1, <2>2, QuietVerdict
<1>8. CASE Renew \/ Rebuild \/ Begin
  <2>1. /\ UNCHANGED <<games, is_done, total_batch_list, total_infos, episode_rewards>>
        /\ phase' # "gather" /\ \A i \in Envs : games[i].standing = "playing"
    BY <1>8, RenewalFacts DEF loopVars, ledgers
  <2> QED BY <2>1 DEF VerdictInv, Active
<1> QED
  BY <1>2, <1>3, <1>4, <1>5, <1>6, <1>7, <1>8, ResetVerdict, GateVerdict, StepEnvsVerdict,
     EvaluateVerdict DEF Next

(* A report is written once, from counters and a verdict that agree. *)
LEMMA NextReports ==
  ASSUME IInv, VerdictInv, ReportsAgree, [Next]_vars
  PROVE  ReportsAgree'
<1>1. TypeOK /\ PhaseInv /\ LockStepInv
  BY DEF IInv
<1>2. CASE Gather
  <2>1. /\ phase = "gather" /\ games' = games
        /\ \A i \in Envs :
             /\ gen_batch_output'[i].won = success[i]
             /\ gen_batch_output'[i].episode_rewards = episode_rewards[i]
             /\ gen_batch_output'[i].rows =
                  {k \in DOMAIN total_batch_list[i] : Gathered(total_batch_list[i][k])}
    BY <1>2 DEF Gather, managerVars
  <2>2. ASSUME NEW i \in Envs
        PROVE  /\ success[i] <=> episode_rewards[i] = 1
               /\ success[i] <=> games[i].standing = "won"
    BY <2>1 DEF VerdictInv
  <2>3. ASSUME NEW i \in Envs PROVE gen_batch_output'[i].rows # {}
    <3> DEFINE rows == total_batch_list[i]
    <3>1. rows \in Seq(Rows) /\ \E k \in 1 .. Len(rows) : Judged(rows[k])
      BY <1>1, <2>1, RowsCounted DEF PhaseInv, LockStepInv
    <3>2. PICK k \in 1 .. Len(rows) : Judged(rows[k])
      BY <3>1
    <3>3. k \in {l \in DOMAIN rows : Gathered(rows[l])}
      BY <3>1, <3>2 DEF Judged, Gathered
    <3> QED BY <2>1, <3>3
  <2> QED BY <2>1, <2>2, <2>3 DEF ReportsAgree
<1>3. CASE UNCHANGED vars
  BY <1>3 DEF vars, managerVars, ReportsAgree
<1>4. CASE Reset \/ Gate \/ Deliberate \/ Compose \/ Generate \/ Intercept \/ Evaluate
  <2>1. phase' # "idle"
    BY <1>4 DEF Reset, Gate, Deliberate, Compose, Generate, Intercept, Evaluate, FirstPhase
  <2> QED BY <2>1 DEF ReportsAgree
<1>5. CASE StepEnvs
  <2>1. phase' # "idle"
    BY <1>5, StepEnvsFacts DEF FirstPhase
  <2> QED BY <2>1 DEF ReportsAgree
<1>6. CASE Renew \/ Rebuild \/ Begin
  <2>1. phase' # "idle"
    BY <1>6, RenewalFacts
  <2> QED BY <2>1 DEF ReportsAgree
<1> QED BY <1>2, <1>3, <1>4, <1>5, <1>6 DEF Next

(* With games whose own limit is not smaller than the loop's, the loop only  *)
(* reaches states where reward, infos and games agree.                       *)
THEOREM FullInductive == ASSUME EnvLimit >= MaxSteps PROVE Spec => []FullInv
<1>1. Init => FullInv
  BY InitBooks, InitVerdict DEF FullInv, ReportsAgree, Init
<1>2. FullInv /\ [Next]_vars => FullInv'
  <2>1. BooksInv => IInv
    BY DEF BooksInv
  <2> QED BY <2>1, NextBooks, NextVerdict, NextReports DEF FullInv
<1> QED BY <1>1, <1>2, PTL DEF Spec

(* The success reported for a trajectory agrees with the reward it is        *)
(* trained on and with its game, although each is computed from a list of    *)
(* its own.                                                                  *)
THEOREM VerdictsAgree == ASSUME EnvLimit >= MaxSteps PROVE Spec => []VerdictMatchesReward
<1>1. FullInv => ReportsAgree
  BY DEF FullInv
<1>2. RowsMatchInfos /\ ReportsAgree => VerdictMatchesReward
  BY DEF VerdictMatchesReward
<1> QED BY <1>1, <1>2, FullInductive, RowsAndInfosPaired, PTL

-----------------------------------------------------------------------------
(* What a step never does to a trajectory that is over.                      *)

(* The gate and the calls charge, and the turn counts, only what is active. *)
LEMMA FinishedStep ==
  ASSUME IInv, Next, NEW i \in Envs, is_done[i], is_done'[i]
  PROVE  /\ episode_rewards'[i] = episode_rewards[i]
         /\ episode_lengths'[i] = episode_lengths[i]
         /\ tool_callings'[i] = tool_callings[i]
         /\ total_output_tokens'[i] = total_output_tokens[i]
         /\ dt_states'[i] = dt_states[i]
         /\ ActiveTurns(total_batch_list'[i]) = ActiveTurns(total_batch_list[i])
         /\ GateSteps(total_batch_list'[i]) = GateSteps(total_batch_list[i])
<1>1. TypeOK /\ ~Active(i)
  BY DEF IInv, Active
<1>2. /\ tool_callings[i] \in Nat /\ total_output_tokens[i] \in Nat
      /\ episode_lengths[i] \in Nat /\ episode_rewards[i] \in Nat
      /\ total_batch_list[i] \in Seq(Rows)
      /\ ActiveTurns(total_batch_list[i]) \in Nat /\ GateSteps(total_batch_list[i]) \in Nat
  BY <1>1, RowsCounted
<1>3. CASE Reset
  <2>1. is_done'[i] = FALSE
    BY <1>3 DEF Reset, AllEnvs
  <2> QED BY <2>1
<1>4. CASE Gate
  <2>1. /\ UNCHANGED <<managerVars, episode_rewards, episode_lengths, tool_callings>>
        /\ total_batch_list'[i] = total_batch_list[i]
    BY <1>1, <1>4, GateFacts
  <2>2. total_output_tokens'[i] = total_output_tokens[i]
    BY <1>1, <1>4 DEF Gate, Charge, TypeOK
  <2> QED BY <2>1, <2>2 DEF managerVars
<1>5. CASE Deliberate
  <2>1. /\ UNCHANGED <<episode_rewards, episode_lengths, total_batch_list>>
        /\ tool_callings'[i] = tool_callings[i] + 0
        /\ total_output_tokens'[i] = total_output_tokens[i] + 0
        /\ dt_states'[i] = dt_states[i]
    BY <1>1, <1>5, DeliberateFacts
  <2> QED BY <1>2, <2>1
<1>6. CASE Intercept
  <2>1. /\ UNCHANGED <<episode_rewards, episode_lengths, total_batch_list>>
        /\ tool_callings'[i] = tool_callings[i] + 0
        /\ total_output_tokens'[i] = total_output_tokens[i] + 0
        /\ dt_states'[i] = dt_states[i]
    BY <1>1, <1>6, InterceptFacts
  <2> QED BY <1>2, <2>1
<1>7. CASE Generate
  <2>1. UNCHANGED <<dt_states, episode_rewards, episode_lengths, tool_callings, total_batch_list>>
    BY <1>7 DEF Generate, managerVars
  <2>2. total_output_tokens'[i] = total_output_tokens[i]
    BY <1>1, <1>7 DEF Generate, Charge, Charged, TypeOK
  <2> QED BY <2>1, <2>2
<1>8. CASE StepEnvs
  <2>1. UNCHANGED <<tool_callings, total_output_tokens>>
    BY <1>8, StepEnvsFacts
  <2>2. PICK answers \in [Envs -> Answers] : \A j \in Envs :
          /\ total_batch_list'[j] =
               Append(total_batch_list[j], TurnRow(j, Outcome(j, answers[j])))
          /\ episode_rewards'[j] = episode_rewards[j] +
               (IF Active(j) THEN Outcome(j, answers[j]).rewards ELSE 0)
          /\ episode_lengths'[j] = episode_lengths[j] + (IF RealAction(j) THEN 1 ELSE 0)
          /\ dt_states'[j] = IF RealAction(j) THEN ConsumeDTBlock(dt_states[j])
                             ELSE dt_states[j]
    BY <1>8, StepEnvsFacts, ZenonT(40)
  <2>3. ~RealAction(i)
    BY <1>1 DEF RealAction
  <2>4. /\ episode_rewards'[i] = episode_rewards[i] + 0
        /\ episode_lengths'[i] = episode_lengths[i] + 0
        /\ dt_states'[i] = dt_states[i]
    BY <1>1, <2>2, <2>3
  <2> DEFINE rows == total_batch_list[i]
             row  == TurnRow(i, Outcome(i, answers[i]))
  <2>5. row \in Rows /\ ~ActiveTurn(row) /\ ~GateStep(row)
    BY <1>1, TurnRowCounted
  <2>6. total_batch_list'[i] = Append(rows, row)
    BY <2>2
  <2> HIDE DEF row
  <2>7. /\ ActiveTurns(Append(rows, row)) =
             ActiveTurns(rows) + (IF ActiveTurn(row) THEN 1 ELSE 0)
        /\ GateSteps(Append(rows, row)) = GateSteps(rows) + (IF GateStep(row) THEN 1 ELSE 0)
    BY <1>2, <2>5, CountsAppend
  <2>8. /\ ActiveTurns(Append(rows, row)) = ActiveTurns(rows)
        /\ GateSteps(Append(rows, row)) = GateSteps(rows)
    BY <1>2, <2>5, <2>7
  <2> QED BY <1>2, <2>1, <2>4, <2>6, <2>8
<1>9. CASE Compose \/ Evaluate \/ Gather
  BY <1>9 DEF Compose, Evaluate, Gather, managerVars, ledgers
<1>10. CASE Renew \/ Rebuild \/ Begin
  <2>1. env_step = 0
    BY <1>10, RenewalFacts
  <2> QED BY <2>1 DEF IInv, LockStepInv
<1> QED BY <1>3, <1>4, <1>5, <1>6, <1>7, <1>8, <1>9, <1>10 DEF Next

(* A trajectory that is over is charged nothing and records nothing while    *)
(* the rest of the batch plays on.                                           *)
THEOREM Frozen == Spec => FinishedIsFrozen
<1>1. IInv /\ [Next]_vars =>
        [\A i \in Envs :
           is_done[i] /\ is_done'[i] =>
             /\ episode_rewards'[i] = episode_rewards[i]
             /\ episode_lengths'[i] = episode_lengths[i]
             /\ tool_callings'[i] = tool_callings[i]
             /\ total_output_tokens'[i] = total_output_tokens[i]
             /\ dt_states'[i] = dt_states[i]
             /\ ActiveTurns(total_batch_list'[i]) = ActiveTurns(total_batch_list[i])
             /\ GateSteps(total_batch_list'[i]) = GateSteps(total_batch_list[i])]_vars
  BY FinishedStep
<1> QED BY <1>1, Inductive, PTL DEF Spec, FinishedIsFrozen

-----------------------------------------------------------------------------
(* The loop implements the protocol.                                         *)

(* Steps that the protocol does not see. *)
LEMMA Unseen ==
  ASSUME UNCHANGED <<dt_states, is_done, tool_callings, episode_lengths, episode_rewards,
                     gen_batch_output>>,
         phase \notin {"idle", "renew"}, phase' \notin {"idle", "renew"}
  PROVE  UNCHANGED Protocol!protocolVars
BY DEF Protocol!protocolVars

(* The loop starts closed, with nothing counted and nothing reported. *)
LEMMA InitProtocol == Init => Protocol!ProtocolInit
<1> SUFFICES ASSUME Init PROVE Protocol!ProtocolInit
  OBVIOUS
<1>1. /\ phase = "idle" /\ tool_callings = AllEnvs(0) /\ episode_lengths = AllEnvs(0)
      /\ is_done = AllEnvs(FALSE)
  BY DEF Init
<1>2. [i \in Envs |-> phase # "renew" /\ dt_states[i].just_called_dt] = AllEnvs(FALSE)
  <2>1. \A i \in Envs : dt_states[i] = NewDTState
    BY DEF Init, ManagerInit
  <2>2. NewDTState.just_called_dt = FALSE
    BY DEF NewDTState
  <2>3. \A i \in Envs : (phase # "renew" /\ dt_states[i].just_called_dt) = FALSE
    BY <2>1, <2>2
  <2> QED BY ONLY <2>3, Zenon DEF AllEnvs
<1>3. [i \in Envs |-> episode_rewards[i] > 0] = AllEnvs(FALSE)
  <2>1. \A i \in Envs : episode_rewards[i] = 0
    BY DEF Init, AllEnvs
  <2>2. \A i \in Envs : (episode_rewards[i] > 0) = FALSE
    BY <2>1
  <2> QED BY ONLY <2>2, Zenon DEF AllEnvs
<1>4. [i \in Envs |-> [calls |-> gen_batch_output[i].tool_callings,
                       acts  |-> gen_batch_output[i].episode_lengths,
                       won   |-> gen_batch_output[i].won]]
      = AllEnvs([calls |-> 0, acts |-> 0, won |-> FALSE])
  <2>1. \A i \in Envs : gen_batch_output[i] = EmptyReport
    BY DEF Init, AllEnvs
  <2>2. /\ EmptyReport.tool_callings = 0 /\ EmptyReport.episode_lengths = 0
        /\ EmptyReport.won = FALSE
    BY DEF EmptyReport
  <2>3. \A i \in Envs :
          [calls |-> gen_batch_output[i].tool_callings,
           acts  |-> gen_batch_output[i].episode_lengths,
           won   |-> gen_batch_output[i].won] = [calls |-> 0, acts |-> 0, won |-> FALSE]
    BY <2>1, <2>2
  <2> QED BY ONLY <2>3, Zenon DEF AllEnvs
<1> QED BY <1>1, <1>2, <1>3, <1>4
  DEF Protocol!ProtocolInit, Protocol!All, Protocol!NoReport, AllEnvs

(* A call of the loop begins an episode. *)
LEMMA ResetProtocol == ASSUME Reset PROVE Protocol!Begin
<1>1. /\ phase = "idle" /\ phase' # "idle" /\ tool_callings' = AllEnvs(0)
      /\ episode_lengths' = AllEnvs(0) /\ is_done' = AllEnvs(FALSE)
  BY DEF Reset
<1>2. [i \in Envs |-> phase' # "renew" /\ dt_states'[i].just_called_dt] = AllEnvs(FALSE)
  <2>1. \A i \in Envs : (phase' # "renew" /\ dt_states'[i].just_called_dt) = FALSE
    BY DEF Reset
  <2> QED BY ONLY <2>1, Zenon DEF AllEnvs
<1>3. [i \in Envs |-> episode_rewards'[i] > 0] = AllEnvs(FALSE)
  <2>1. \A i \in Envs : episode_rewards'[i] = 0
    BY DEF Reset, AllEnvs
  <2>2. \A i \in Envs : (episode_rewards'[i] > 0) = FALSE
    BY <2>1
  <2> QED BY ONLY <2>2, Zenon DEF AllEnvs
<1>4. [i \in Envs |-> [calls |-> gen_batch_output'[i].tool_callings,
                       acts  |-> gen_batch_output'[i].episode_lengths,
                       won   |-> gen_batch_output'[i].won]]
      = AllEnvs([calls |-> 0, acts |-> 0, won |-> FALSE])
  <2>1. \A i \in Envs : gen_batch_output'[i] = EmptyReport
    BY DEF Reset, AllEnvs
  <2>2. /\ EmptyReport.tool_callings = 0 /\ EmptyReport.episode_lengths = 0
        /\ EmptyReport.won = FALSE
    BY DEF EmptyReport
  <2>3. \A i \in Envs :
          [calls |-> gen_batch_output'[i].tool_callings,
           acts  |-> gen_batch_output'[i].episode_lengths,
           won   |-> gen_batch_output'[i].won] = [calls |-> 0, acts |-> 0, won |-> FALSE]
    BY <2>1, <2>2
  <2> QED BY ONLY <2>3, Zenon DEF AllEnvs
<1> QED BY <1>1, <1>2, <1>3, <1>4
  DEF Protocol!Begin, Protocol!All, Protocol!NoReport, AllEnvs

(* The later steps of a reset are none of the protocol. *)
LEMMA RenewalProtocol ==
  ASSUME IInv, Renew \/ Rebuild \/ Begin
  PROVE  UNCHANGED Protocol!protocolVars
<1>1. /\ phase \in Renewing /\ phase' \in {"rebuild", "begin", "gate", "compose"}
      /\ UNCHANGED <<is_done, tool_callings, episode_lengths, episode_rewards, gen_batch_output>>
      /\ dt_states' = [i \in Envs |-> NewDTState]
  BY RenewalFacts DEF loopVars, ledgers
<1>2. CASE phase = "renew"
  <2>1. \A i \in Envs : (phase # "renew" /\ dt_states[i].just_called_dt) = FALSE
    BY <1>2
  <2>2. \A i \in Envs : (phase' # "renew" /\ dt_states'[i].just_called_dt) = FALSE
    BY <1>1, FreshPrompt
  <2>3. [i \in Envs |-> phase # "renew" /\ dt_states[i].just_called_dt]
        = [i \in Envs |-> phase' # "renew" /\ dt_states'[i].just_called_dt]
    BY ONLY <2>1, <2>2, Zenon
  <2> QED BY <1>1, <2>3 DEF Renewing, Protocol!protocolVars
<1>3. CASE phase # "renew"
  <2>1. dt_states \in [Envs -> DTState(MaxSteps)] /\ \A i \in Envs : dt_states[i] = NewDTState
    BY <1>1, <1>3 DEF IInv, TypeOK, ManagerTypeOK, RenewalInv, Renewing
  <2>2. dt_states' = dt_states
    BY <1>1, <2>1
  <2> QED BY <1>1, <1>3, <2>2, Unseen DEF Renewing
<1> QED BY <1>2, <1>3

(* The cooldown flags are truth values. *)
LEMMA FlagType ==
  ASSUME TypeOK, NEW i \in Envs
  PROVE  dt_states[i].just_called_dt \in BOOLEAN
<1>1. dt_states[i] \in DTState(MaxSteps)
  BY DEF TypeOK, ManagerTypeOK
<1> QED BY <1>1 DEF DTState

(* The trajectories in S deliberate. *)
LEMMA CallProtocol ==
  ASSUME TypeOK, NEW S \in SUBSET Envs,
         phase \notin {"idle", "renew"}, phase' \notin {"idle", "renew"},
         \A i \in Envs : dt_states'[i].just_called_dt \in BOOLEAN,
         tool_callings' \in [Envs -> Nat],
         UNCHANGED <<is_done, episode_lengths, episode_rewards, gen_batch_output>>,
         \A i \in S : /\ ~is_done[i] /\ ~dt_states[i].just_called_dt
                      /\ dt_states'[i].just_called_dt
                      /\ tool_callings'[i] = tool_callings[i] + 1,
         \A i \in Envs \ S : /\ dt_states'[i] = dt_states[i]
                             /\ tool_callings'[i] = tool_callings[i]
  PROVE  \E T \in SUBSET Envs : Protocol!Deliberate(T)
<1> DEFINE flag  == [i \in Envs |-> phase # "renew" /\ dt_states[i].just_called_dt]
           after == [i \in Envs |-> phase' # "renew" /\ dt_states'[i].just_called_dt]
<1>1. \A t \in S : ~flag[t]
  OBVIOUS
<1>2. tool_callings' = [t \in Envs |-> IF t \in S THEN tool_callings[t] + 1
                                       ELSE tool_callings[t]]
  OBVIOUS
<1>3. ASSUME NEW t \in Envs PROVE after[t] = (flag[t] \/ t \in S)
  <2>1. flag[t] \in BOOLEAN /\ after[t] \in BOOLEAN
    BY FlagType
  <2>2. CASE t \in S
    <3>1. after[t]
      BY <2>2
    <3> HIDE DEF flag, after
    <3> QED BY <2>1, <2>2, <3>1
  <2>3. CASE t \notin S
    <3>1. after[t] = flag[t]
      BY <2>3
    <3> HIDE DEF flag, after
    <3> QED BY <2>1, <2>3, <3>1
  <2> QED BY <2>2, <2>3
<1>4. after = [t \in Envs |-> flag[t] \/ t \in S]
  <2>1. after = [t \in Envs |-> after[t]]
    OBVIOUS
  <2> HIDE DEF after, flag
  <2> QED BY <1>3, <2>1
<1> WITNESS S \in SUBSET Envs
<1> QED BY <1>1, <1>2, <1>4 DEF Protocol!Deliberate

(* The deliberation of selective_gate is one of the protocol. *)
LEMMA DeliberateProtocol ==
  ASSUME IInv, IInv', Deliberate
  PROVE  \E S \in SUBSET Envs : Protocol!Deliberate(S)
<1> DEFINE S == {i \in Envs : Active(i) /\ gate_decisions[i]}
<1>1. /\ TypeOK /\ tool_callings' \in [Envs -> Nat]
      /\ \A i \in Envs : dt_states'[i].just_called_dt \in BOOLEAN
  <2>1. TypeOK /\ TypeOK'
    BY DEF IInv
  <2>2. \A i \in Envs : dt_states'[i] \in DTState(MaxSteps)
    BY <2>1 DEF TypeOK, ManagerTypeOK
  <2> QED BY <2>1, <2>2 DEF TypeOK, DTState
<1>2. /\ S \in SUBSET Envs /\ phase \notin {"idle", "renew"} /\ phase' \notin {"idle", "renew"}
      /\ UNCHANGED <<is_done, episode_lengths, episode_rewards, gen_batch_output>>
  BY DeliberateFacts
<1>3. \A i \in S : /\ ~is_done[i] /\ ~dt_states[i].just_called_dt
                   /\ dt_states'[i].just_called_dt
                   /\ tool_callings'[i] = tool_callings[i] + 1
  BY DeliberateFacts DEF Active
<1>4. ASSUME NEW i \in Envs \ S
      PROVE  dt_states'[i] = dt_states[i] /\ tool_callings'[i] = tool_callings[i]
  <2>1. dt_states'[i] = dt_states[i] /\ tool_callings'[i] = tool_callings[i] + 0
    BY DeliberateFacts
  <2> QED BY <1>1, <2>1, RowsCounted
<1> HIDE DEF S
<1> QED BY <1>1, <1>2, <1>3, <1>4, CallProtocol

(* So is the interception of dt_action. *)
LEMMA InterceptProtocol ==
  ASSUME IInv, IInv', Intercept
  PROVE  \E S \in SUBSET Envs : Protocol!Deliberate(S)
<1> DEFINE S == {i \in Envs : is_dt_step'[i]}
<1>1. /\ TypeOK /\ tool_callings' \in [Envs -> Nat]
      /\ \A i \in Envs : dt_states'[i].just_called_dt \in BOOLEAN
  <2>1. TypeOK /\ TypeOK'
    BY DEF IInv
  <2>2. \A i \in Envs : dt_states'[i] \in DTState(MaxSteps)
    BY <2>1 DEF TypeOK, ManagerTypeOK
  <2> QED BY <2>1, <2>2 DEF TypeOK, DTState
<1>2. /\ S \in SUBSET Envs /\ phase \notin {"idle", "renew"} /\ phase' \notin {"idle", "renew"}
      /\ UNCHANGED <<is_done, episode_lengths, episode_rewards, gen_batch_output>>
  BY InterceptFacts
<1>3. \A i \in S : /\ ~is_done[i] /\ ~dt_states[i].just_called_dt
                   /\ dt_states'[i].just_called_dt
                   /\ tool_callings'[i] = tool_callings[i] + 1
  BY InterceptFacts DEF Active
<1>4. ASSUME NEW i \in Envs \ S
      PROVE  dt_states'[i] = dt_states[i] /\ tool_callings'[i] = tool_callings[i]
  <2>1. dt_states'[i] = dt_states[i] /\ tool_callings'[i] = tool_callings[i] + 0
    BY InterceptFacts
  <2> QED BY <1>1, <2>1, RowsCounted
<1> HIDE DEF S
<1> QED BY <1>1, <1>2, <1>3, <1>4, CallProtocol

(* A turn is an act of the trajectories whose row is no call; a game that    *)
(* ends, or is won, is the one of such a trajectory.                         *)
LEMMA StepEnvsProtocol ==
  ASSUME IInv, IInv', VerdictInv, StepEnvs
  PROVE  \E A \in SUBSET Envs : \E E \in SUBSET A : \E W \in SUBSET E : Protocol!Act(A, E, W)
<1>1. TypeOK /\ TypeOK' /\ BudgetInv
  BY DEF IInv
<1>2. /\ phase = "step" /\ phase' \notin {"idle", "renew"}
      /\ env_step < MaxSteps /\ env_step \in Nat
      /\ UNCHANGED <<tool_callings, gen_batch_output>>
  BY StepEnvsFacts DEF FirstPhase
<1>3. PICK answers \in [Envs -> Answers] : \A i \in Envs :
        /\ answers[i] \in GameAnswers(games[i], ProjectedCommand(text_actions[i]))
        /\ is_done'[i] = (is_done[i] \/ Outcome(i, answers[i]).done)
        /\ episode_rewards'[i] = episode_rewards[i] +
             (IF Active(i) THEN Outcome(i, answers[i]).rewards ELSE 0)
        /\ episode_lengths'[i] = episode_lengths[i] + (IF RealAction(i) THEN 1 ELSE 0)
        /\ dt_states'[i] = IF RealAction(i) THEN ConsumeDTBlock(dt_states[i])
                           ELSE dt_states[i]
  BY StepEnvsFacts
<1> DEFINE A == {i \in Envs : RealAction(i)}
           E == {i \in A : answers[i].done}
           W == {i \in E : answers[i].won}
<1>4. A \in SUBSET Envs /\ E \in SUBSET A /\ W \in SUBSET E
  OBVIOUS
<1>5. ASSUME NEW t \in Envs
      PROVE  /\ is_done[t] \in BOOLEAN /\ is_dt_step[t] \in BOOLEAN
             /\ episode_rewards[t] \in Nat /\ episode_lengths[t] \in Nat
             /\ answers[t].won \in BOOLEAN /\ answers[t].done \in BOOLEAN
             /\ Outcome(t, answers[t]).rewards =
                  IF ~is_dt_step[t] /\ answers[t].won THEN 1 ELSE 0
             /\ Outcome(t, answers[t]).done <=> answers[t].done /\ ~is_dt_step[t]
  <2>1. answers[t] \in Answers
    OBVIOUS
  <2> QED BY <1>1, <2>1, RowsCounted, TurnRowCounted DEF Answers
<1>6. \A t \in A : ~is_done[t] /\ episode_lengths[t] < MaxSteps
  <2> SUFFICES ASSUME NEW t \in A PROVE ~is_done[t] /\ episode_lengths[t] < MaxSteps
    OBVIOUS
  <2>1. t \in Envs /\ ~is_done[t]
    BY DEF RealAction, Active
  <2>2. episode_lengths[t] <= env_step /\ episode_lengths[t] \in Nat
    BY <1>1, <1>5, <2>1 DEF BudgetInv
  <2> QED BY <1>2, <2>1, <2>2, MaxStepsAssumption
<1>7. \A t \in Envs : t \in A <=> RealAction(t)
  OBVIOUS
<1>8. \A t \in A : answers[t].won => answers[t].done
  <2> SUFFICES ASSUME NEW t \in A, answers[t].won PROVE answers[t].done
    OBVIOUS
  <2>1. t \in Envs /\ Active(t)
    BY DEF RealAction
  <2>2. games[t].standing = "playing"
    BY <1>2, <2>1 DEF VerdictInv, TurnPhases
  <2>3. games[t].steps \in Nat
    BY <1>1, <2>1, MaxStepsAssumption DEF TypeOK, ManagerTypeOK
  <2> QED BY <1>3, <2>1, <2>2, <2>3, GameInPlay
<1>9. \A t \in Envs : /\ t \in E <=> RealAction(t) /\ answers[t].done
                      /\ t \in W <=> RealAction(t) /\ answers[t].won
  BY <1>7, <1>8
<1> HIDE DEF A, E, W
<1>10. episode_lengths' = [t \in Envs |-> IF t \in A THEN episode_lengths[t] + 1
                                          ELSE episode_lengths[t]]
  <2>1. ASSUME NEW t \in Envs
        PROVE  episode_lengths'[t] = IF t \in A THEN episode_lengths[t] + 1
                                     ELSE episode_lengths[t]
    BY <1>3, <1>5, <1>7
  <2>2. episode_lengths' \in [Envs -> Nat]
    BY <1>1 DEF TypeOK
  <2> QED BY <2>1, <2>2
<1>11. is_done' = [t \in Envs |-> is_done[t] \/ t \in E]
  <2>1. ASSUME NEW t \in Envs PROVE is_done'[t] = (is_done[t] \/ t \in E)
    <3>1. is_done'[t] = (is_done[t] \/ Outcome(t, answers[t]).done)
      BY <1>3
    <3>2. Outcome(t, answers[t]).done <=> answers[t].done /\ ~is_dt_step[t]
      BY <1>5
    <3>3. is_done[t] \/ Outcome(t, answers[t]).done <=> is_done[t] \/ t \in E
      BY <1>9, <3>2 DEF RealAction, Active
    <3> QED BY <3>1, <3>3
  <2>2. is_done' \in [Envs -> BOOLEAN]
    BY <1>1 DEF TypeOK
  <2> QED BY <2>1, <2>2
<1> DEFINE flag    == [i \in Envs |-> phase # "renew" /\ dt_states[i].just_called_dt]
           flag2   == [i \in Envs |-> phase' # "renew" /\ dt_states'[i].just_called_dt]
           victor  == [i \in Envs |-> episode_rewards[i] > 0]
           victor2 == [i \in Envs |-> episode_rewards'[i] > 0]
<1>12. flag2 = [t \in Envs |-> flag[t] /\ t \notin A]
  <2>1. ASSUME NEW t \in Envs PROVE flag2[t] = (flag[t] /\ t \notin A)
    <3>1. dt_states[t] \in DTState(MaxSteps) /\ flag[t] \in BOOLEAN
          /\ flag[t] = dt_states[t].just_called_dt /\ flag2[t] = dt_states'[t].just_called_dt
      <4>1. dt_states[t] \in DTState(MaxSteps) /\ dt_states'[t] \in DTState(MaxSteps)
        BY <1>1 DEF TypeOK, ManagerTypeOK
      <4>2. dt_states[t].just_called_dt \in BOOLEAN /\ dt_states'[t].just_called_dt \in BOOLEAN
        BY <4>1 DEF DTState
      <4> QED BY <1>2, <4>1, <4>2
    <3>2. ConsumeDTBlock(dt_states[t]).just_called_dt = FALSE
      BY <3>1 DEF ConsumeDTBlock, DTState
    <3> HIDE DEF flag, flag2
    <3>3. CASE t \in A
      <4>1. flag2[t] = FALSE
        BY <1>3, <1>7, <3>1, <3>2, <3>3
      <4> QED BY <3>3, <4>1
    <3>4. CASE t \notin A
      <4>1. flag2[t] = flag[t]
        BY <1>3, <1>7, <3>1, <3>4
      <4> QED BY <3>1, <3>4, <4>1
    <3> QED BY <3>3, <3>4
  <2>2. flag2 = [t \in Envs |-> flag2[t]]
    OBVIOUS
  <2> HIDE DEF flag, flag2
  <2> QED BY <2>1, <2>2
<1>13. victor2 = [t \in Envs |-> victor[t] \/ t \in W]
  <2>1. ASSUME NEW t \in Envs PROVE victor2[t] = (victor[t] \/ t \in W)
    <3>1. episode_rewards'[t] = episode_rewards[t] + (IF t \in W THEN 1 ELSE 0)
      <4>1. CASE Active(t)
        <5>1. episode_rewards'[t] = episode_rewards[t] + Outcome(t, answers[t]).rewards
          BY <1>3, <4>1
        <5>2. t \in W <=> ~is_dt_step[t] /\ answers[t].won
          BY <1>9, <4>1 DEF RealAction
        <5> QED BY <1>5, <5>1, <5>2
      <4>2. CASE ~Active(t)
        <5>1. t \notin W
          BY <1>9, <4>2 DEF RealAction
        <5> QED BY <1>3, <4>2, <5>1
      <4> QED BY <4>1, <4>2
    <3>2. episode_rewards'[t] > 0 <=> episode_rewards[t] > 0 \/ t \in W
      BY <1>5, <3>1
    <3>3. (episode_rewards'[t] > 0) = (episode_rewards[t] > 0 \/ t \in W)
      BY <3>2
    <3> QED BY <3>3
  <2>2. victor2 = [t \in Envs |-> victor2[t]]
    OBVIOUS
  <2> HIDE DEF victor, victor2
  <2> QED BY <2>1, <2>2
<1> USE <1>4 DEF Protocol!Act
<1> WITNESS A \in SUBSET Envs
<1> WITNESS E \in SUBSET A
<1> WITNESS W \in SUBSET E
<1> QED BY <1>2, <1>4, <1>6, <1>10, <1>11, <1>12, <1>13 DEF Protocol!Act

(* The batch handed over is the report, of trajectories that are over or     *)
(* have used their turns up.                                                 *)
LEMMA GatherProtocol == ASSUME IInv, VerdictInv, Gather PROVE Protocol!Deliver
<1>1. TypeOK /\ PhaseInv /\ BudgetInv
  BY DEF IInv
<1>2. /\ phase = "gather" /\ phase' = "idle"
      /\ UNCHANGED <<dt_states, is_done, tool_callings, episode_lengths, episode_rewards>>
      /\ \A t \in Envs : /\ gen_batch_output'[t].tool_callings = tool_callings[t]
                         /\ gen_batch_output'[t].episode_lengths = episode_lengths[t]
                         /\ gen_batch_output'[t].won = success[t]
  BY DEF Gather, managerVars, ledgers
<1>3. ASSUME NEW t \in Envs PROVE is_done[t] \/ episode_lengths[t] + tool_callings[t] >= MaxSteps
  <2> SUFFICES ASSUME ~is_done[t] PROVE episode_lengths[t] + tool_callings[t] >= MaxSteps
    OBVIOUS
  <2>1. Active(t) /\ env_step = MaxSteps
    BY <1>1, <1>2 DEF PhaseInv, Active
  <2>2. episode_lengths[t] \in Nat /\ tool_callings[t] \in Nat
        /\ thinking_mode \in {"dt_action", "selective_gate"}
    BY <1>1, RowsCounted, ModeType
  <2>3. CASE thinking_mode = "selective_gate"
    <3>1. episode_lengths[t] = env_step
      BY <1>1, <2>1, <2>3 DEF BudgetInv
    <3> QED BY <2>1, <2>2, <3>1, MaxStepsAssumption
  <2>4. CASE thinking_mode = "dt_action"
    <3>1. episode_lengths[t] + tool_callings[t] = env_step
      BY <1>1, <1>2, <2>1, <2>4 DEF BudgetInv
    <3> QED BY <2>1, <2>2, <3>1, MaxStepsAssumption
  <2> QED BY <2>2, <2>3, <2>4
<1>4. ASSUME NEW t \in Envs
      PROVE  gen_batch_output'[t].won = (episode_rewards[t] > 0)
  <2>1. success[t] \in BOOLEAN /\ episode_rewards[t] \in {0, 1}
        /\ (success[t] <=> episode_rewards[t] = 1)
    BY <1>1, <1>2 DEF TypeOK, VerdictInv
  <2>2. episode_rewards[t] = 1 <=> episode_rewards[t] > 0
    BY <2>1
  <2> QED BY <1>2, <2>1, <2>2
<1> DEFINE victor == [i \in Envs |-> episode_rewards[i] > 0]
<1>5. [i \in Envs |-> [calls |-> gen_batch_output'[i].tool_callings,
                       acts  |-> gen_batch_output'[i].episode_lengths,
                       won   |-> gen_batch_output'[i].won]]
      = [t \in Envs |-> [calls |-> tool_callings[t], acts |-> episode_lengths[t],
                         won |-> victor[t]]]
  <2>1. \A t \in Envs : victor[t] = gen_batch_output'[t].won
    BY <1>4
  <2> HIDE DEF victor
  <2> QED BY <1>2, <2>1
<1> QED BY <1>2, <1>3, <1>5 DEF Protocol!Deliver

(* Every step of the loop is one of the protocol, or one it does not see. *)
LEMMA NextProtocol ==
  ASSUME IInv, IInv', VerdictInv, [Next]_vars
  PROVE  [Protocol!ProtocolNext]_(Protocol!protocolVars)
<1>1. CASE Reset
  BY <1>1, ResetProtocol DEF Protocol!ProtocolNext
<1>2. CASE Gate
  BY <1>2, Unseen, GateFacts DEF managerVars
<1>3. CASE Deliberate
  <2>1. \E S \in SUBSET Envs : Protocol!Deliberate(S)
    BY <1>3, DeliberateProtocol
  <2> QED BY <2>1 DEF Protocol!ProtocolNext
<1>4. CASE Intercept
  <2>1. \E S \in SUBSET Envs : Protocol!Deliberate(S)
    BY <1>4, InterceptProtocol
  <2> QED BY <2>1 DEF Protocol!ProtocolNext
<1>5. CASE StepEnvs
  <2>1. \E A \in SUBSET Envs : \E E \in SUBSET A : \E W \in SUBSET E : Protocol!Act(A, E, W)
    BY <1>5, StepEnvsProtocol
  <2> QED BY <2>1 DEF Protocol!ProtocolNext
<1>6. CASE Gather
  BY <1>6, GatherProtocol DEF Protocol!ProtocolNext
<1>7. CASE Compose
  BY <1>7, Unseen DEF Compose, managerVars, ledgers
<1>8. CASE Generate
  BY <1>8, Unseen DEF Generate, managerVars
<1>9. CASE Evaluate
  BY <1>9, Unseen DEF Evaluate, managerVars, ledgers
<1>10. CASE UNCHANGED vars
  BY <1>10 DEF vars, managerVars, ledgers, Protocol!protocolVars
<1>11. CASE Renew \/ Rebuild \/ Begin
  BY <1>11, RenewalProtocol
<1> QED BY <1>1, <1>2, <1>3, <1>4, <1>5, <1>6, <1>7, <1>8, <1>9, <1>10, <1>11 DEF Next

(* The loop implements the protocol the trainer relies on: in both modes a   *)
(* real action separates any two calls, nothing happens to a trajectory that *)
(* is over, and the report counts what happened.                             *)
THEOREM ProtocolImplemented == ASSUME EnvLimit >= MaxSteps PROVE Spec => ImplementsProtocol
<1>1. FullInv => IInv /\ VerdictInv
  BY DEF FullInv, BooksInv
<1>2. FullInv /\ FullInv' /\ [Next]_vars => [Protocol!ProtocolNext]_(Protocol!protocolVars)
  BY <1>1, NextInv, NextProtocol
<1> QED
  BY <1>2, InitProtocol, FullInductive, PTL DEF Spec, ImplementsProtocol, Protocol!ProtocolSpec

=============================================================================
