------------------------ MODULE SGLangRolloutProofs ------------------------
(***************************************************************************)
(* The rollout of the SGLang worker, for any number of prompts, samples,   *)
(* turns and calls, any lengths and sizes, any pools, threads and tokens.  *)
(*                                                                         *)
(* The rate limiter keeps its tokens, however it is used, and the rollout  *)
(* is one use of it.  The ids of a request stay those of its messages: an  *)
(* answer and a response add to both the same tokens (AssistantTells,      *)
(* ToolTells), whatever the list ends with.  RolloutInv says of every      *)
(* request, by the place it is at, how its ids, messages, calls and        *)
(* instances fit each other; the properties follow from it.                *)
(***************************************************************************)
EXTENDS SGLangRolloutProperties, SequenceLemmas

BucketTypes == stage \in [Calls -> Stages] /\ waiting \in Seq(Calls)

BucketInv == BucketTypes /\ TokensAreConserved

LEMMA RunningIsFinite == IsFiniteSet(Running) /\ IsFiniteSet(Running')
  BY BucketAssumption, FS_Subset DEF Running

\* What the invariant says of the next state when nothing starts or stops to
\* run and nobody joins or leaves the queue.
LEMMA SameCalls ==
  ASSUME BucketInv, stage' \in [Calls -> Stages], waiting' = waiting, permits' = permits,
         releasing' = releasing, Running' = Running,
         \A c \in Calls : stage'[c] = "acquiring" <=> stage[c] = "acquiring"
  PROVE  BucketInv'
<1>1. BucketTypes'
  BY DEF BucketInv, BucketTypes
<1>2. permits' \in Nat /\ releasing' \in Nat
  BY DEF BucketInv, TokensAreConserved
<1>3. permits' + Cardinality(Running') + releasing' = RateLimit
  BY DEF BucketInv, TokensAreConserved
<1>4. \A i \in DOMAIN waiting' : stage'[waiting'[i]] = "acquiring"
  BY DEF BucketInv, BucketTypes, TokensAreConserved
<1>5. \A c \in Calls : stage'[c] = "acquiring" => \E i \in DOMAIN waiting' : waiting'[i] = c
  BY DEF BucketInv, TokensAreConserved
<1>6. \A i, j \in DOMAIN waiting' : waiting'[i] = waiting'[j] => i = j
  BY DEF BucketInv, TokensAreConserved
<1> QED
  BY <1>1, <1>2, <1>3, <1>4, <1>5, <1>6 DEF BucketInv, TokensAreConserved

LEMMA SubmitKeeps == ASSUME BucketInv, NEW asked, Submit(asked) PROVE BucketInv'
<1>1. stage' \in [Calls -> Stages]
  BY DEF BucketInv, BucketTypes, Submit, Stages
<1>2. \A c \in Calls : stage'[c] \in {"running", "acquiring"} => stage'[c] = stage[c]
  BY DEF Submit
<1>3. \A c \in Calls : stage[c] \in {"running", "acquiring"} => stage'[c] = stage[c]
  BY DEF Submit
<1>4. Running' = Running
  BY <1>2, <1>3 DEF Running
<1> QED
  BY <1>1, <1>2, <1>3, <1>4, SameCalls DEF Submit

LEMMA TakeKeeps == ASSUME BucketInv, NEW taken, Take(taken) PROVE BucketInv'
<1>1. stage' \in [Calls -> Stages]
  BY DEF BucketInv, BucketTypes, Take, Stages
<1>2. \A c \in Calls : stage'[c] \in {"running", "acquiring"} => stage'[c] = stage[c]
  BY DEF Take
<1>3. \A c \in Calls : stage[c] \in {"running", "acquiring"} => stage'[c] = stage[c]
  BY DEF Take
<1>4. Running' = Running
  BY <1>2, <1>3 DEF Running
<1> QED
  BY <1>1, <1>2, <1>3, <1>4, SameCalls DEF Take

LEMMA StartKeeps == ASSUME BucketInv, NEW c \in Calls, Start(c) PROVE BucketInv'
<1> USE DEF BucketInv, BucketTypes
<1>1. /\ stage' \in [Calls -> Stages] /\ stage'[c] = "acquiring" /\ stage[c] = "submitted"
      /\ \A d \in Calls \ {c} : stage'[d] = stage[d]
  BY DEF Start, Stages
<1>2. /\ waiting' \in Seq(Calls) /\ DOMAIN waiting' = 1..(Len(waiting) + 1)
      /\ DOMAIN waiting = 1..Len(waiting) /\ Len(waiting) \in Nat
      /\ waiting'[Len(waiting) + 1] = c
      /\ \A i \in DOMAIN waiting : waiting'[i] = waiting[i]
  BY DEF Start
<1>3. Running' = Running
  BY <1>1 DEF Running
<1>4. permits' \in Nat /\ releasing' \in Nat
      /\ permits' + Cardinality(Running') + releasing' = RateLimit
  BY <1>3 DEF Start, TokensAreConserved
<1>5. \A i \in DOMAIN waiting : waiting[i] \in Calls /\ waiting[i] # c /\ stage[waiting[i]] = "acquiring"
  BY <1>1 DEF TokensAreConserved
<1>6. \A i \in DOMAIN waiting' : i \in DOMAIN waiting \/ i = Len(waiting) + 1
  BY <1>2
<1>7. \A i \in DOMAIN waiting' : stage'[waiting'[i]] = "acquiring"
  BY <1>1, <1>2, <1>5, <1>6
<1>8. \A d \in Calls : stage'[d] = "acquiring" => \E i \in DOMAIN waiting' : waiting'[i] = d
  <2> TAKE d \in Calls
  <2>1. CASE d = c
    BY <2>1, <1>2
  <2>2. CASE d # c
    BY <2>2, <1>1, <1>2 DEF TokensAreConserved
  <2> QED  BY <2>1, <2>2
<1>9. \A i, j \in DOMAIN waiting' : waiting'[i] = waiting'[j] => i = j
  <2> TAKE i, j \in DOMAIN waiting'
  <2>1. CASE i \in DOMAIN waiting /\ j \in DOMAIN waiting
    BY <2>1, <1>2 DEF TokensAreConserved
  <2>2. CASE ~(i \in DOMAIN waiting /\ j \in DOMAIN waiting)
    BY <2>2, <1>2, <1>5, <1>6
  <2> QED  BY <2>1, <2>2
<1> QED
  BY <1>1, <1>2, <1>4, <1>7, <1>8, <1>9 DEF TokensAreConserved

LEMMA AcquireKeeps == ASSUME BucketInv, Acquire PROVE BucketInv'
<1> DEFINE c == Head(waiting)
<1>1. /\ waiting \in Seq(Calls) /\ waiting # <<>>
      /\ Len(waiting) \in Nat \ {0} /\ DOMAIN waiting = 1..Len(waiting)
      /\ c = waiting[1] /\ c \in Calls /\ stage \in [Calls -> Stages]
  BY DEF BucketInv, BucketTypes, Acquire
<1>2. /\ stage' \in [Calls -> Stages] /\ stage'[c] = "running"
      /\ \A d \in Calls \ {c} : stage'[d] = stage[d]
  BY <1>1 DEF Acquire, Stages
<1>3. stage[c] = "acquiring"
  BY <1>1 DEF BucketInv, TokensAreConserved
<1>4. /\ waiting' \in Seq(Calls) /\ DOMAIN waiting' = 1..(Len(waiting) - 1)
      /\ \A i \in DOMAIN waiting' : i + 1 \in DOMAIN waiting /\ waiting'[i] = waiting[i + 1]
  BY <1>1 DEF Acquire
<1> HIDE DEF c
<1>5. permits' \in Nat /\ releasing' \in Nat
      /\ permits' + Cardinality(Running') + releasing' = RateLimit
  <2>1. Running' = Running \cup {c} /\ c \notin Running
    BY <1>1, <1>2, <1>3 DEF Running
  <2>2. Cardinality(Running') = Cardinality(Running) + 1
    BY <2>1, RunningIsFinite, FS_AddElement
  <2>3. Cardinality(Running) \in Nat
    BY RunningIsFinite, FS_CardinalityType
  <2> QED
    BY <2>2, <2>3, BucketAssumption DEF Acquire, BucketInv, TokensAreConserved
<1>6. \A i, j \in DOMAIN waiting : waiting[i] = waiting[j] => i = j
  BY DEF BucketInv, TokensAreConserved
<1>7. \A i \in DOMAIN waiting' : i + 1 \in DOMAIN waiting /\ waiting'[i] # c
  BY <1>1, <1>4, <1>6
<1>8. \A i \in DOMAIN waiting : waiting[i] \in Calls /\ stage[waiting[i]] = "acquiring"
  BY <1>1 DEF BucketInv, TokensAreConserved
<1>9. \A i \in DOMAIN waiting' : stage'[waiting'[i]] = "acquiring"
  BY <1>2, <1>4, <1>7, <1>8
<1>10. \A d \in Calls : stage'[d] = "acquiring" => \E i \in DOMAIN waiting' : waiting'[i] = d
  <2> SUFFICES ASSUME NEW d \in Calls, stage'[d] = "acquiring"
               PROVE  \E i \in DOMAIN waiting' : waiting'[i] = d
    OBVIOUS
  <2>1. d # c /\ stage[d] = "acquiring"
    BY <1>2
  <2>2. PICK k \in DOMAIN waiting : waiting[k] = d
    BY <2>1 DEF BucketInv, TokensAreConserved
  <2>3. k - 1 \in DOMAIN waiting' /\ waiting'[k - 1] = d
    BY <2>1, <2>2, <1>1, <1>4
  <2> QED  BY <2>3
<1>11. \A i, j \in DOMAIN waiting' : waiting'[i] = waiting'[j] => i = j
  BY <1>4, <1>6
<1> QED
  BY <1>2, <1>4, <1>5, <1>9, <1>10, <1>11 DEF BucketInv, BucketTypes, TokensAreConserved

LEMMA ReturnKeeps ==
  ASSUME BucketInv, NEW c \in Calls, NEW answer, Return(c, answer) PROVE BucketInv'
<1>1. /\ stage' \in [Calls -> Stages] /\ stage[c] = "running" /\ stage'[c] \in {"ok", "failed"}
      /\ \A d \in Calls \ {c} : stage'[d] = stage[d]
  BY DEF Return, BucketInv, BucketTypes, Stages
<1>2. Running' = Running \ {c} /\ c \in Running
  BY <1>1 DEF Running
<1>3. Cardinality(Running') = Cardinality(Running) - 1 /\ Cardinality(Running) \in Nat
  BY <1>2, RunningIsFinite, FS_RemoveElement, FS_CardinalityType
<1>4. permits' \in Nat /\ releasing' \in Nat
      /\ permits' + Cardinality(Running') + releasing' = RateLimit
  BY <1>3, BucketAssumption DEF Return, BucketInv, TokensAreConserved
<1>5. waiting' = waiting
  BY DEF Return
<1>6. \A d \in Calls : stage'[d] = "acquiring" <=> stage[d] = "acquiring"
  BY <1>1
<1>7. \A i \in DOMAIN waiting : waiting[i] \in Calls
  BY DEF BucketInv, BucketTypes
<1>8. \A i \in DOMAIN waiting' : stage'[waiting'[i]] = "acquiring"
  BY <1>5, <1>6, <1>7 DEF BucketInv, TokensAreConserved
<1>9. \A d \in Calls : stage'[d] = "acquiring" => \E i \in DOMAIN waiting' : waiting'[i] = d
  BY <1>5, <1>6 DEF BucketInv, TokensAreConserved
<1>10. \A i, j \in DOMAIN waiting' : waiting'[i] = waiting'[j] => i = j
  BY <1>5 DEF BucketInv, TokensAreConserved
<1> QED
  BY <1>1, <1>4, <1>5, <1>8, <1>9, <1>10 DEF BucketInv, BucketTypes, TokensAreConserved

LEMMA ReleaseKeeps == ASSUME BucketInv, Release PROVE BucketInv'
<1>1. Running' = Running /\ stage' = stage /\ waiting' = waiting
  BY DEF Release, Running
<1>2. Cardinality(Running) \in Nat
  BY RunningIsFinite, FS_CardinalityType
<1>3. permits' \in Nat /\ releasing' \in Nat
      /\ permits' + Cardinality(Running') + releasing' = RateLimit
  BY <1>1, <1>2, BucketAssumption DEF Release, BucketInv, TokensAreConserved
<1> QED
  BY <1>1, <1>3 DEF BucketInv, BucketTypes, TokensAreConserved

LEMMA StutterKeeps == ASSUME BucketInv, UNCHANGED bucket PROVE BucketInv'
  BY SameCalls DEF bucket, BucketInv, BucketTypes, Running

LEMMA BucketStarts == ASSUME BucketInit PROVE BucketInv
<1>1. Running = {}
  BY DEF BucketInit, Running
<1>2. Cardinality(Running) = 0
  BY <1>1, FS_EmptySet
<1> QED
  BY <1>2, BucketAssumption
  DEF BucketInit, BucketInv, BucketTypes, TokensAreConserved, Stages

-----------------------------------------------------------------------------
\* The limiter, used in any way: TokenBucketWorker and the execute of the
\* two pools never lose or make a token and never forget who waits.
THEOREM LimiterConserves == BucketSpec => []TokensAreConserved
<1>1. BucketInit => BucketInv
  BY BucketStarts
<1>2. BucketInv /\ [BucketNext]_bucket => BucketInv'
  BY SubmitKeeps, StartKeeps, AcquireKeeps, ReturnKeeps, ReleaseKeeps, TakeKeeps, StutterKeeps
  DEF BucketNext
<1>3. BucketInv => TokensAreConserved
  BY DEF BucketInv
<1> QED
  BY <1>1, <1>2, <1>3, PTL DEF BucketSpec

LEMMA SubmitCalls == ASSUME NEW asked, Submit(asked) PROVE Submit(asked \cap Calls)
  BY DEF Submit

LEMMA TakeCalls == ASSUME NEW taken, Take(taken) PROVE Take(taken \cap Calls)
  BY DEF Take

\* Every step of the rollout is one of the limiter or leaves it alone.
LEMMA RolloutDrivesBucket ==
  ASSUME Next PROVE BucketNext \/ UNCHANGED bucket
<1>1. CASE StartBatch
  BY <1>1 DEF StartBatch
<1>2. ASSUME NEW r \in Rows, CreateTools(r) PROVE UNCHANGED bucket
  BY <1>2 DEF CreateTools
<1>3. ASSUME NEW r \in Rows, CallEngine(r) PROVE UNCHANGED bucket
  BY <1>3 DEF CallEngine
<1>4. ASSUME NEW r \in Rows, Answer(r)
      PROVE  (\E asked \in SUBSET Calls : Submit(asked)) \/ UNCHANGED bucket
  <2>1. PICK answer : TakeAnswer(r, answer)
    BY <1>4 DEF Answer
  <2>2. (\E asked : Submit(asked)) \/ UNCHANGED bucket
    BY <2>1 DEF TakeAnswer
  <2> QED
    BY <2>2, SubmitCalls
<1>5. ASSUME NEW r \in Rows, NEW i \in 1..MaxCalls, ToolAnswers(r, i)
      PROVE  \E taken \in SUBSET Calls : Take(taken)
  <2>1. \E taken : Take(taken)
    BY <1>5 DEF ToolAnswers
  <2> QED
    BY <2>1, TakeCalls
<1>6. ASSUME NEW r \in Rows, Respond(r) PROVE UNCHANGED bucket
  BY <1>6 DEF Respond
<1>7. ASSUME NEW r \in Rows, Finish(r) PROVE UNCHANGED bucket
  BY <1>7 DEF Finish
<1>8. CASE ReturnBatch
  BY <1>8 DEF ReturnBatch
<1>9. ASSUME Pools PROVE BucketNext
  BY <1>9 DEF Pools, BucketNext
<1> QED
  BY <1>1, <1>2, <1>3, <1>4, <1>5, <1>6, <1>7, <1>8, <1>9 DEF Next, BucketNext

(* The rollout implements the limiter with its pools used in any way: what the
   event loop and the threads do with the calls is what TokenBucket says
   (execute of the tools, ExecutionWorker, TokenBucketWorker). *)
THEOREM RolloutImplementsBucket == Spec => BucketSpec
<1>1. Init => BucketInit
  BY DEF Init
<1>2. [Next]_vars => [BucketNext]_bucket
  <2>1. CASE Next
    BY <2>1, RolloutDrivesBucket
  <2>2. CASE UNCHANGED vars
    BY <2>2 DEF vars
  <2> QED BY <2>1, <2>2
<1> QED BY <1>1, <1>2, PTL DEF Spec, BucketSpec

\* The same of the whole rollout: whatever the requests of a batch call, at
\* most RateLimit calls are at the services, and no token is lost.
THEOREM RolloutConserves == Spec => []TokensAreConserved
  BY RolloutImplementsBucket, LimiterConserves, PTL

-----------------------------------------------------------------------------
(* Tokens.                                                                 *)

Tokens == {"prompt", "start", "end", "text", "tool", "user", "(", ")", "response"}

LEMMA CopiesAre ==
  ASSUME NEW S, NEW x \in S, NEW n \in Nat
  PROVE  /\ Copies(x, n) \in Seq(S) /\ Len(Copies(x, n)) = n
         /\ \A i \in 1 .. n : Copies(x, n)[i] = x
<1>1. Copies(x, n) \in [1 .. n -> S]
  BY DEF Copies
<1> QED BY <1>1 DEF Copies

\* What a slice is.
LEMMA SliceIs ==
  ASSUME NEW S, NEW s \in Seq(S), NEW from \in Nat, NEW n \in Nat, from <= Len(s)
  PROVE  /\ Slice(s, from, n) \in Seq(S)
         /\ Len(Slice(s, from, n)) = IF Len(s) - from < n THEN Len(s) - from ELSE n
         /\ \A i \in 1 .. Len(Slice(s, from, n)) : Slice(s, from, n)[i] = s[from + i]
<1> DEFINE k == IF Len(s) - from < n THEN Len(s) - from ELSE n
           t == Slice(s, from, n)
<1>1. k \in Nat /\ from + k <= Len(s)
  OBVIOUS
<1>2. t = [i \in 1 .. k |-> s[from + i]]
  BY DEF Slice
<1> HIDE DEF k, t
<1>3. \A i \in 1 .. k : from + i \in 1 .. Len(s)
  BY <1>1
<1>4. \A i \in 1 .. k : s[from + i] \in S
  BY <1>3
<1>5. t \in [1 .. k -> S] /\ \A i \in 1 .. k : t[i] = s[from + i]
  BY <1>2, <1>4
<1>6. t \in Seq(S) /\ Len(t) = k
  BY <1>1, <1>5
<1>7. /\ t \in Seq(S) /\ Len(t) = k
      /\ \A i \in 1 .. Len(t) : t[i] = s[from + i]
  BY <1>5, <1>6
<1> QED BY <1>7 DEF k, t

\* Tuples put together, which the provers do not see by themselves.
LEMMA OneAndOne ==
  ASSUME NEW a, NEW b
  PROVE  <<a>> \o <<b>> = <<a, b>>
<1> DEFINE S == {a, b}
           s == <<a>>
           t == <<b>>
           u == s \o t
<1>1. s \in Seq(S) /\ Len(s) = 1 /\ s[1] = a
  OBVIOUS
<1>2. t \in Seq(S) /\ Len(t) = 1 /\ t[1] = b
  OBVIOUS
<1> HIDE DEF s, t, S
<1>3. u \in Seq(S) /\ Len(u) = Len(s) + Len(t)
  BY <1>1, <1>2, ConcatProperties
<1>4. \A i \in 1 .. Len(s) + Len(t) : u[i] = IF i <= Len(s) THEN s[i] ELSE t[i - Len(s)]
  BY <1>1, <1>2, ConcatProperties
<1> HIDE DEF u
<1>5. u \in Seq(S) /\ Len(u) = 2
      /\ \A i \in 1 .. 2 : u[i] = IF i <= 1 THEN s[i] ELSE t[i - 1]
  BY <1>1, <1>2, <1>3, <1>4
<1>6. u[1] = a /\ u[2] = b
  BY <1>1, <1>2, <1>5
<1>7. u = <<a, b>>
  BY <1>5, <1>6
<1> QED BY <1>7 DEF u, s, t

LEMMA TwoAndOne ==
  ASSUME NEW a, NEW b, NEW c
  PROVE  <<a, b>> \o <<c>> = <<a, b, c>>
<1> DEFINE S == {a, b, c}
           s == <<a, b>>
           t == <<c>>
           u == s \o t
<1>1. s \in Seq(S) /\ Len(s) = 2 /\ s[1] = a /\ s[2] = b
  OBVIOUS
<1>2. t \in Seq(S) /\ Len(t) = 1 /\ t[1] = c
  OBVIOUS
<1> HIDE DEF s, t, S
<1>3. u \in Seq(S) /\ Len(u) = Len(s) + Len(t)
  BY <1>1, <1>2, ConcatProperties
<1>4. \A i \in 1 .. Len(s) + Len(t) : u[i] = IF i <= Len(s) THEN s[i] ELSE t[i - Len(s)]
  BY <1>1, <1>2, ConcatProperties
<1> HIDE DEF u
<1>5. u \in Seq(S) /\ Len(u) = 3
      /\ \A i \in 1 .. 3 : u[i] = IF i <= 2 THEN s[i] ELSE t[i - 2]
  BY <1>1, <1>2, <1>3, <1>4
<1>6. u[1] = a /\ u[2] = b /\ u[3] = c
  BY <1>1, <1>2, <1>5
<1>7. u = <<a, b, c>>
  BY <1>5, <1>6
<1> QED BY <1>7 DEF u, s, t

LEMMA TwoAndTwo ==
  ASSUME NEW a, NEW b, NEW c, NEW d
  PROVE  <<a, b>> \o <<c, d>> = <<a, b, c, d>>
<1> DEFINE S == {a, b, c, d}
           s == <<a, b>>
           t == <<c, d>>
           u == s \o t
<1>1. s \in Seq(S) /\ Len(s) = 2 /\ s[1] = a /\ s[2] = b
  OBVIOUS
<1>2. t \in Seq(S) /\ Len(t) = 2 /\ t[1] = c /\ t[2] = d
  OBVIOUS
<1> HIDE DEF s, t, S
<1>3. u \in Seq(S) /\ Len(u) = Len(s) + Len(t)
  BY <1>1, <1>2, ConcatProperties
<1>4. \A i \in 1 .. Len(s) + Len(t) : u[i] = IF i <= Len(s) THEN s[i] ELSE t[i - Len(s)]
  BY <1>1, <1>2, ConcatProperties
<1> HIDE DEF u
<1>5. u \in Seq(S) /\ Len(u) = 4
      /\ \A i \in 1 .. 4 : u[i] = IF i <= 2 THEN s[i] ELSE t[i - 2]
  BY <1>1, <1>2, <1>3, <1>4
<1>6. u[1] = a /\ u[2] = b /\ u[3] = c /\ u[4] = d
  BY <1>1, <1>2, <1>5
<1>7. u = <<a, b, c, d>>
  BY <1>5, <1>6
<1> QED BY <1>7 DEF u, s, t

LEMMA ThreeAndOne ==
  ASSUME NEW a, NEW b, NEW c, NEW d
  PROVE  <<a, b, c>> \o <<d>> = <<a, b, c, d>>
<1> DEFINE S == {a, b, c, d}
           s == <<a, b, c>>
           t == <<d>>
           u == s \o t
<1>1. s \in Seq(S) /\ Len(s) = 3 /\ s[1] = a /\ s[2] = b /\ s[3] = c
  OBVIOUS
<1>2. t \in Seq(S) /\ Len(t) = 1 /\ t[1] = d
  OBVIOUS
<1> HIDE DEF s, t, S
<1>3. u \in Seq(S) /\ Len(u) = Len(s) + Len(t)
  BY <1>1, <1>2, ConcatProperties
<1>4. \A i \in 1 .. Len(s) + Len(t) : u[i] = IF i <= Len(s) THEN s[i] ELSE t[i - Len(s)]
  BY <1>1, <1>2, ConcatProperties
<1> HIDE DEF u
<1>5. u \in Seq(S) /\ Len(u) = 4
      /\ \A i \in 1 .. 4 : u[i] = IF i <= 3 THEN s[i] ELSE t[i - 3]
  BY <1>1, <1>2, <1>3, <1>4
<1>6. u[1] = a /\ u[2] = b /\ u[3] = c /\ u[4] = d
  BY <1>1, <1>2, <1>5
<1>7. u = <<a, b, c, d>>
  BY <1>5, <1>6
<1> QED BY <1>7 DEF u, s, t

LEMMA ThreeAndTwo ==
  ASSUME NEW a, NEW b, NEW c, NEW d, NEW e
  PROVE  <<a, b, c>> \o <<d, e>> = <<a, b, c, d, e>>
<1> DEFINE S == {a, b, c, d, e}
           s == <<a, b, c>>
           t == <<d, e>>
           u == s \o t
<1>1. s \in Seq(S) /\ Len(s) = 3 /\ s[1] = a /\ s[2] = b /\ s[3] = c
  OBVIOUS
<1>2. t \in Seq(S) /\ Len(t) = 2 /\ t[1] = d /\ t[2] = e
  OBVIOUS
<1> HIDE DEF s, t, S
<1>3. u \in Seq(S) /\ Len(u) = Len(s) + Len(t)
  BY <1>1, <1>2, ConcatProperties
<1>4. \A i \in 1 .. Len(s) + Len(t) : u[i] = IF i <= Len(s) THEN s[i] ELSE t[i - Len(s)]
  BY <1>1, <1>2, ConcatProperties
<1> HIDE DEF u
<1>5. u \in Seq(S) /\ Len(u) = 5
      /\ \A i \in 1 .. 5 : u[i] = IF i <= 3 THEN s[i] ELSE t[i - 3]
  BY <1>1, <1>2, <1>3, <1>4
<1>6. u[1] = a /\ u[2] = b /\ u[3] = c /\ u[4] = d /\ u[5] = e
  BY <1>1, <1>2, <1>5
<1>7. u = <<a, b, c, d, e>>
  BY <1>5, <1>6
<1> QED BY <1>7 DEF u, s, t

LEMMA FourAndOne ==
  ASSUME NEW a, NEW b, NEW c, NEW d, NEW e
  PROVE  <<a, b, c, d>> \o <<e>> = <<a, b, c, d, e>>
<1> DEFINE S == {a, b, c, d, e}
           s == <<a, b, c, d>>
           t == <<e>>
           u == s \o t
<1>1. s \in Seq(S) /\ Len(s) = 4 /\ s[1] = a /\ s[2] = b /\ s[3] = c /\ s[4] = d
  OBVIOUS
<1>2. t \in Seq(S) /\ Len(t) = 1 /\ t[1] = e
  OBVIOUS
<1> HIDE DEF s, t, S
<1>3. u \in Seq(S) /\ Len(u) = Len(s) + Len(t)
  BY <1>1, <1>2, ConcatProperties
<1>4. \A i \in 1 .. Len(s) + Len(t) : u[i] = IF i <= Len(s) THEN s[i] ELSE t[i - Len(s)]
  BY <1>1, <1>2, ConcatProperties
<1> HIDE DEF u
<1>5. u \in Seq(S) /\ Len(u) = 5
      /\ \A i \in 1 .. 5 : u[i] = IF i <= 4 THEN s[i] ELSE t[i - 4]
  BY <1>1, <1>2, <1>3, <1>4
<1>6. u[1] = a /\ u[2] = b /\ u[3] = c /\ u[4] = d /\ u[5] = e
  BY <1>1, <1>2, <1>5
<1>7. u = <<a, b, c, d, e>>
  BY <1>5, <1>6
<1> QED BY <1>7 DEF u, s, t

LEMMA OneToken ==
  /\ Opening \in Seq(Tokens) /\ Len(Opening) = 1 /\ Opening[1] = "start"
  /\ Closing \in Seq(Tokens) /\ Len(Closing) = 1 /\ Closing[1] = "end"
  /\ <<"response">> \in Seq(Tokens) /\ Len(<<"response">>) = 1
  BY DEF Opening, Closing, Tokens

LEMMA Formatting ==
  /\ FormatConfig["chatml"].opens = <<"tool">> /\ FormatConfig["chatml"].before = <<>>
  /\ FormatConfig["chatml"].after = <<>> /\ FormatConfig["chatml"].merges = FALSE
  /\ FormatConfig["qwen"].opens = <<"user">> /\ FormatConfig["qwen"].before = <<"(">>
  /\ FormatConfig["qwen"].after = <<")">> /\ FormatConfig["qwen"].merges = TRUE
  BY DEF FormatConfig

\* Whether a token that follows others is said by the assistant.
SaidAfter(last, more, j) ==
  \/ more[j] = "text"
  \/ more[j] = "end" /\ (IF j = 1 THEN last ELSE more[j - 1]) \in {"text", "start"}

\* The loss of a list that grows is over what is said if that of the new
\* tokens is.
LEMMA SaidGrows ==
  ASSUME NEW ids \in Seq(Tokens), ids # <<>>, NEW more \in Seq(Tokens), NEW flags \in Seq({0, 1}),
         Len(flags) = Len(more),
         \A j \in 1 .. Len(more) : flags[j] = IF SaidAfter(ids[Len(ids)], more, j) THEN 1 ELSE 0
  PROVE  Said(ids) \o flags = Said(ids \o more)
<1> DEFINE n == Len(ids)
           k == Len(more)
           new == ids \o more
<1>1. n \in Nat \ {0} /\ k \in Nat
  OBVIOUS
<1>2. /\ new \in Seq(Tokens) /\ Len(new) = n + k
      /\ \A i \in 1 .. n : new[i] = ids[i]
      /\ \A j \in 1 .. k : new[n + j] = more[j]
  OBVIOUS
<1>3. DOMAIN ids = 1 .. n /\ DOMAIN new = 1 .. (n + k)
  BY <1>2
<1>4. /\ Said(ids) \in [1 .. n -> {0, 1}]
      /\ \A i \in 1 .. n : Said(ids)[i] = IF IsSaid(ids, i) THEN 1 ELSE 0
  BY <1>3 DEF Said
<1>5. Said(ids) \in Seq({0, 1}) /\ Len(Said(ids)) = n
  BY <1>1, <1>4
<1>6. /\ Said(new) \in [1 .. (n + k) -> {0, 1}]
      /\ \A i \in 1 .. (n + k) : Said(new)[i] = IF IsSaid(new, i) THEN 1 ELSE 0
  BY <1>3 DEF Said
<1>7. Said(new) \in Seq({0, 1}) /\ Len(Said(new)) = n + k
  <2> DEFINE m == n + k
  <2>1. m \in Nat /\ Said(new) \in [1 .. m -> {0, 1}]
    BY <1>1, <1>6
  <2> HIDE DEF m
  <2>2. Said(new) \in Seq({0, 1}) /\ Len(Said(new)) = m
    BY <2>1
  <2> QED BY <2>2 DEF m
<1> DEFINE whole == Said(ids) \o flags
<1>8. /\ whole \in Seq({0, 1}) /\ Len(whole) = n + k
      /\ \A i \in 1 .. n : whole[i] = Said(ids)[i]
      /\ \A j \in 1 .. k : whole[n + j] = flags[j]
  BY <1>5, SMTT(30)
<1>9. ASSUME NEW i \in 1 .. n PROVE IsSaid(new, i) <=> IsSaid(ids, i)
  <2>1. i > 1 => i - 1 \in 1 .. n
    BY <1>1
  <2> HIDE DEF new, n
  <2> QED BY <1>2, <2>1 DEF IsSaid
<1>10. ASSUME NEW j \in 1 .. k PROVE IsSaid(new, n + j) <=> SaidAfter(ids[n], more, j)
  <2>1. n + j > 1 /\ new[n + j] = more[j]
    BY <1>1, <1>2
  <2>2. CASE j = 1
    <3>1. (n + j) - 1 = n /\ n \in 1 .. n
      BY <1>1, <2>2
    <3>2. new[(n + j) - 1] = ids[n]
      BY <1>2, <3>1
    <3> HIDE DEF new, n
    <3>3. SaidAfter(ids[n], more, j)
            <=> (more[j] = "text" \/ (more[j] = "end" /\ ids[n] \in {"text", "start"}))
      BY <2>2 DEF SaidAfter
    <3> QED BY <2>1, <3>2, <3>3 DEF IsSaid
  <2>3. CASE j # 1
    <3>1. j - 1 \in 1 .. k /\ (n + j) - 1 = n + (j - 1)
      BY <1>1, <2>3
    <3>2. new[(n + j) - 1] = more[j - 1]
      BY <1>2, <3>1
    <3> HIDE DEF new, n
    <3>3. SaidAfter(ids[n], more, j)
            <=> (more[j] = "text" \/ (more[j] = "end" /\ more[j - 1] \in {"text", "start"}))
      BY <2>3 DEF SaidAfter
    <3> QED BY <2>1, <3>2, <3>3 DEF IsSaid
  <2> QED BY <2>2, <2>3
<1> HIDE DEF new, n, k, whole
<1>11. ASSUME NEW p \in 1 .. (n + k) PROVE whole[p] = Said(new)[p]
  <2>1. CASE p \in 1 .. n
    <3>1. whole[p] = Said(ids)[p]
      BY <1>8, <2>1
    <3>2. Said(ids)[p] = IF IsSaid(ids, p) THEN 1 ELSE 0
      BY <1>4, <2>1
    <3>3. Said(new)[p] = IF IsSaid(new, p) THEN 1 ELSE 0
      BY <1>6
    <3>4. IsSaid(new, p) <=> IsSaid(ids, p)
      BY <1>9, <2>1
    <3> QED BY <3>1, <3>2, <3>3, <3>4
  <2>2. CASE p \notin 1 .. n
    <3>1. PICK j \in 1 .. k : p = n + j
      <4>1. p - n \in 1 .. k /\ p = n + (p - n)
        BY <1>1, <2>2
      <4> QED BY <4>1
    <3>2. flags[j] = IF SaidAfter(ids[n], more, j) THEN 1 ELSE 0
      BY DEF n, k
    <3>3. whole[p] = flags[j]
      BY <1>8, <3>1
    <3>4. Said(new)[p] = IF IsSaid(new, p) THEN 1 ELSE 0
      BY <1>6
    <3>5. IsSaid(new, p) <=> SaidAfter(ids[n], more, j)
      BY <1>10, <3>1
    <3> QED BY <3>2, <3>3, <3>4, <3>5
  <2> QED BY <2>1, <2>2
<1>12. whole = Said(new)
  BY <1>7, <1>8, <1>11, SeqEqual
<1> QED BY <1>12 DEF whole, new

-----------------------------------------------------------------------------
(* How the lists of a request grow.                                        *)

Messages ==
  [role : {"assistant"}, size : Nat] \cup [role : {"tool"}, tool : Tools, ok : BOOLEAN]

Fields ==
  {"format", "state", "at", "turns", "ids", "loss", "prompt", "text", "messages", "kwargs",
   "calls", "saved", "reason", "scores", "response", "response_loss", "max_model_len"}

LastId(q) == q.ids[Len(q.ids)]

\* The lists fit each other.
Listed(q) ==
  /\ DOMAIN q = Fields
  /\ q.format \in {"chatml", "qwen"}
  /\ q.ids \in Seq(Tokens) /\ q.ids # <<>> /\ q.loss = Said(q.ids)
  /\ q.messages \in Seq(Messages)
  /\ q.text \in Seq(Tokens)

\* One request is the other but for the lists.
ButForLists(q, req) ==
  DOMAIN q = Fields /\ \A field \in Fields \ {"ids", "loss", "messages"} : q[field] = req[field]

LEMMA GrowsBy ==
  ASSUME NEW req, Listed(req), NEW more \in Seq(Tokens), NEW flags \in Seq({0, 1}),
         Len(flags) = Len(more), NEW m \in Messages,
         \A j \in 1 .. Len(more) : flags[j] = IF SaidAfter(LastId(req), more, j) THEN 1 ELSE 0,
         NEW q, q = Grow(req, more, flags, m)
  PROVE  /\ Listed(q) /\ ButForLists(q, req)
         /\ q.ids = req.ids \o more /\ q.messages = Append(req.messages, m)
<1>1. DOMAIN req = Fields
  BY DEF Listed
<1>2. DOMAIN q = Fields
  BY <1>1 DEF Grow
<1>3. /\ q.ids = req.ids \o more
      /\ q.loss = req.loss \o flags
      /\ q.messages = Append(req.messages, m)
  BY <1>1 DEF Grow, Fields
<1>4. \A field \in Fields \ {"ids", "loss", "messages"} : q[field] = req[field]
  BY <1>1 DEF Grow
<1>5. q.format = req.format /\ q.text = req.text
  BY <1>4 DEF Fields
<1>6. q.loss = Said(q.ids)
  BY <1>3, SaidGrows DEF Listed, LastId
<1>7. q.messages \in Seq(Messages)
  BY <1>3 DEF Listed
<1>8. q.ids \in Seq(Tokens) /\ q.ids # <<>>
  <2>1. req.ids \in Seq(Tokens) /\ req.ids # <<>>
    BY DEF Listed
  <2>2. Len(q.ids) = Len(req.ids) + Len(more) /\ q.ids \in Seq(Tokens) /\ Len(req.ids) > 0
    BY <1>3, <2>1
  <2> QED BY <2>1, <2>2
<1> QED
  BY <1>2, <1>3, <1>4, <1>5, <1>6, <1>7, <1>8 DEF Listed, ButForLists

\* What the engine has said, with the token that closes it unless it was cut off.
Spoken(size, over_long) == Copies("text", size) \o (IF over_long THEN <<>> ELSE Closing)

LEMMA SpokenIs ==
  ASSUME NEW size \in Nat, NEW over_long \in BOOLEAN
  PROVE  /\ Spoken(size, over_long) \in Seq(Tokens)
         /\ Len(Spoken(size, over_long)) = IF over_long THEN size ELSE size + 1
         /\ \A j \in 1 .. size : Spoken(size, over_long)[j] = "text"
         /\ ~over_long => Spoken(size, over_long)[size + 1] = "end"
<1>1. /\ Copies("text", size) \in Seq(Tokens) /\ Len(Copies("text", size)) = size
      /\ \A j \in 1 .. size : Copies("text", size)[j] = "text"
  BY CopiesAre DEF Tokens
<1> DEFINE text == Copies("text", size)
<1> HIDE DEF text
<1>2. CASE over_long
  <2>1. Spoken(size, over_long) = text
    BY <1>1, <1>2 DEF Spoken, text
  <2> QED BY <1>1, <1>2, <2>1 DEF text
<1>3. CASE ~over_long
  <2>1. Spoken(size, over_long) = text \o Closing
    BY <1>3 DEF Spoken, text
  <2>2. text \in Seq(Tokens) /\ Len(text) = size /\ \A j \in 1 .. size : text[j] = "text"
    BY <1>1 DEF text
  <2> DEFINE c == Closing
  <2>3. c \in Seq(Tokens) /\ Len(c) = 1 /\ c[1] = "end"
    BY OneToken
  <2> HIDE DEF c
  <2>4. /\ text \o c \in Seq(Tokens) /\ Len(text \o c) = size + 1
        /\ \A j \in 1 .. size : (text \o c)[j] = "text"
        /\ (text \o c)[size + 1] = "end"
    BY <2>2, <2>3, ConcatProperties
  <2> QED BY <1>3, <2>1, <2>4 DEF c
<1> QED BY <1>2, <1>3

\* Everything in it is said, after the token that opens it.
LEMMA SpokenIsSaid ==
  ASSUME NEW size \in Nat, NEW over_long \in BOOLEAN,
         NEW j \in 1 .. Len(Spoken(size, over_long))
  PROVE  SaidAfter("start", Spoken(size, over_long), j)
<1> DEFINE s == Spoken(size, over_long)
<1>1. \A k \in 1 .. size : s[k] = "text"
  BY SpokenIs
<1>2. j \in 1 .. size \/ (~over_long /\ j = size + 1 /\ s[j] = "end")
  BY SpokenIs
<1> HIDE DEF s
<1>3. CASE j \in 1 .. size
  BY <1>1, <1>3 DEF SaidAfter, s
<1>4. CASE ~over_long /\ j = size + 1 /\ s[j] = "end"
  <2>1. (IF j = 1 THEN "start" ELSE s[j - 1]) \in {"text", "start"}
    <3>1. CASE size = 0
      BY <1>4, <3>1
    <3>2. CASE size # 0
      <4>1. j # 1 /\ j - 1 \in 1 .. size
        BY <1>4, <3>2
      <4> QED BY <1>1, <4>1
    <3> QED BY <3>1, <3>2
  <2>2. SaidAfter("start", s, j)
    <3>1. s[j] = "end"
      BY <1>4
    <3> QED BY <2>1, <3>1 DEF SaidAfter
  <2> QED BY <2>2 DEF s
<1> QED BY <1>2, <1>3, <1>4

\* A message of the assistant opens its turn if the generation prompt has not.
LEMMA AssistantGrows ==
  ASSUME NEW req, Listed(req), NEW size \in Nat, NEW over_long \in BOOLEAN, CanAddAssistant(req),
         NEW q, q = AddAssistantMessage(req, size, over_long)
  PROVE  /\ Listed(q) /\ ButForLists(q, req)
         /\ q.messages = Append(req.messages, [role |-> "assistant", size |-> size])
         /\ \/ LastId(req) = "start" /\ q.ids = req.ids \o Spoken(size, over_long)
            \/ LastId(req) = "end" /\ q.ids = req.ids \o (Opening \o Spoken(size, over_long))
<1> DEFINE s == Spoken(size, over_long)
           k == Len(s)
           m == [role |-> "assistant", size |-> size]
<1>1. s \in Seq(Tokens) /\ k \in Nat
  BY SpokenIs
<1>2. m \in Messages
  BY DEF Messages
<1>3. EndsWith(req.ids, Opening) <=> LastId(req) = "start"
  BY DEF EndsWith, LastId, Opening
<1>4. EndsWith(req.ids, Closing) <=> LastId(req) = "end"
  BY DEF EndsWith, LastId, Closing
<1>5. \A j \in 1 .. k : SaidAfter("start", s, j)
  BY SpokenIsSaid
<1> DEFINE ones == Copies(1, k)
<1>6. ones \in Seq({0, 1}) /\ Len(ones) = k /\ \A j \in 1 .. k : ones[j] = 1
  BY <1>1, CopiesAre
<1>7. Copies(0, 0) = <<>>
  <2>1. \A i \in 1 .. 0 : FALSE
    OBVIOUS
  <2> QED BY <2>1 DEF Copies
<1>8. Copies(0, 1) = <<0>>
  BY DEF Copies
<1> DEFINE opened == EndsWith(req.ids, Opening)
           head   == IF opened THEN <<>> ELSE Opening
<1>9. q = Grow(req, head \o s, Copies(0, Len(head)) \o ones, m)
  BY DEF AddAssistantMessage, Spoken
<1> HIDE DEF s, k, m, ones
<1>10. CASE LastId(req) = "start"
  <2>1. head = <<>>
    BY <1>3, <1>10
  <2>2. head \o s = s
    BY <1>1, <2>1
  <2>3. Copies(0, Len(head)) \o ones = ones
    BY <1>6, <1>7, <2>1
  <2>4. q = Grow(req, s, ones, m)
    BY <1>9, <2>2, <2>3
  <2>5. \A j \in 1 .. Len(s) : ones[j] = IF SaidAfter(LastId(req), s, j) THEN 1 ELSE 0
    BY <1>5, <1>6, <1>10 DEF k
  <2>6. Len(ones) = Len(s)
    BY <1>6 DEF k
  <2>7. /\ Listed(q) /\ ButForLists(q, req)
        /\ q.ids = req.ids \o s /\ q.messages = Append(req.messages, m)
    BY <1>1, <1>2, <1>6, <2>4, <2>5, <2>6, GrowsBy
  <2> QED BY <1>10, <2>7 DEF s, m
<1>11. CASE LastId(req) # "start"
  <2>1. LastId(req) = "end"
    BY <1>3, <1>4, <1>11 DEF CanAddAssistant
  <2>2. head = Opening /\ Len(head) = 1
    BY <1>3, <1>11, OneToken
  <2> DEFINE more  == Opening \o s
             flags == <<0>> \o ones
  <2>3. q = Grow(req, more, flags, m)
    BY <1>8, <1>9, <2>2
  <2>4. /\ more \in Seq(Tokens) /\ Len(more) = k + 1
        /\ more[1] = "start" /\ \A j \in 1 .. k : more[j + 1] = s[j]
    <3> DEFINE o == Opening
    <3>1. o \in Seq(Tokens) /\ Len(o) = 1 /\ o[1] = "start"
      BY OneToken
    <3> HIDE DEF o
    <3>2. /\ o \o s \in Seq(Tokens) /\ Len(o \o s) = k + 1
          /\ \A i \in 1 .. (k + 1) : (o \o s)[i] = IF i <= 1 THEN o[i] ELSE s[i - 1]
      <4> DEFINE w == o \o s
      <4>1. w \in Seq(Tokens) /\ Len(w) = Len(o) + Len(s)
        BY <1>1, <3>1, ConcatProperties
      <4>2. \A i \in 1 .. Len(o) + Len(s) : w[i] = IF i <= Len(o) THEN o[i] ELSE s[i - Len(o)]
        BY <1>1, <3>1, ConcatProperties
      <4>3. Len(s) = k /\ k \in Nat
        BY <1>1 DEF k
      <4> HIDE DEF w
      <4>4. w \in Seq(Tokens) /\ Len(w) = k + 1
            /\ \A i \in 1 .. (k + 1) : w[i] = IF i <= 1 THEN o[i] ELSE s[i - 1]
        BY <3>1, <4>1, <4>2, <4>3
      <4> QED BY <4>4 DEF w
    <3>3. \A j \in 1 .. k : j + 1 \in 1 .. (k + 1) /\ ~(j + 1 <= 1) /\ (j + 1) - 1 = j
      BY <1>1
    <3>4. 1 \in 1 .. (k + 1)
      BY <1>1
    <3> QED BY <3>1, <3>2, <3>3, <3>4 DEF o
  <2>5. /\ flags \in Seq({0, 1}) /\ Len(flags) = k + 1
        /\ flags[1] = 0 /\ \A j \in 1 .. k : flags[j + 1] = 1
    BY <1>1, <1>6
  <2> HIDE DEF more, flags, head
  <2>6. ASSUME NEW j \in 1 .. Len(more)
        PROVE  flags[j] = IF SaidAfter(LastId(req), more, j) THEN 1 ELSE 0
    <3>1. CASE j = 1
      <4>1. more[j] = "start" /\ flags[j] = 0
        BY <2>4, <2>5, <3>1
      <4>2. ~SaidAfter(LastId(req), more, j)
        BY <4>1 DEF SaidAfter
      <4> QED BY <4>1, <4>2
    <3>2. CASE j # 1
      <4> DEFINE i == j - 1
      <4>1. i \in 1 .. k /\ j = i + 1
        BY <1>1, <2>4, <3>2
      <4>2. flags[j] = 1
        BY <2>5, <4>1
      <4>3. more[j] = s[i]
        BY <2>4, <4>1
      <4>4. SaidAfter("start", s, i)
        BY <1>5, <4>1
      <4>5. SaidAfter(LastId(req), more, j)
        <5>1. CASE s[i] = "text"
          BY <4>3, <5>1 DEF SaidAfter
        <5>2. CASE s[i] # "text"
          <6>1. s[i] = "end" /\ (IF i = 1 THEN "start" ELSE s[i - 1]) \in {"text", "start"}
            BY <4>4, <5>2 DEF SaidAfter
          <6>2. more[i] = IF i = 1 THEN "start" ELSE s[i - 1]
            <7>1. CASE i = 1
              BY <2>4, <7>1
            <7>2. CASE i # 1
              <8>1. i - 1 \in 1 .. k /\ i = (i - 1) + 1
                BY <1>1, <4>1, <7>2
              <8> QED BY <2>4, <7>2, <8>1
            <7> QED BY <7>1, <7>2
          <6>3. more[j - 1] \in {"text", "start"} /\ more[j] = "end"
            BY <4>3, <6>1, <6>2
          <6> QED BY <3>2, <6>3 DEF SaidAfter
        <5> QED BY <5>1, <5>2
      <4> QED BY <4>2, <4>5
    <3> QED BY <3>1, <3>2
  <2>7. Len(flags) = Len(more)
    BY <2>4, <2>5
  <2>8. /\ Listed(q) /\ ButForLists(q, req)
        /\ q.ids = req.ids \o more /\ q.messages = Append(req.messages, m)
    BY <1>2, <2>3, <2>4, <2>5, <2>6, <2>7, GrowsBy
  <2> QED BY <2>1, <2>8 DEF s, m, more
<1> QED BY <1>10, <1>11

\* The list of a request whose last message is open: it lacks the closing token,
\* because another response to a call of the same answer may follow.
IsOpen(q) == q.format = "qwen" /\ LastId(q) = ")"

\* What the response of a tool adds to the list.
Response(format, open, last_tool) ==
  CASE format = "chatml"                       -> <<"tool", "response", "end">>
    [] format = "qwen" /\ ~open /\ last_tool   -> <<"user", "(", "response", ")", "end">>
    [] format = "qwen" /\ ~open /\ ~last_tool  -> <<"user", "(", "response", ")">>
    [] format = "qwen" /\ open /\ last_tool    -> <<"(", "response", ")", "end">>
    [] format = "qwen" /\ open /\ ~last_tool   -> <<"(", "response", ")">>

LEMMA ResponseIs ==
  ASSUME NEW format \in {"chatml", "qwen"}, NEW open \in BOOLEAN, NEW last_tool \in BOOLEAN,
         NEW more, more = Response(format, open, last_tool)
  PROVE  /\ more \in Seq(Tokens) /\ Len(more) \in Nat \ {0}
         /\ more[Len(more)] = IF format = "qwen" /\ ~last_tool THEN ")" ELSE "end"
         /\ \A last : \A j \in 1 .. Len(more) : ~SaidAfter(last, more, j)
<1>1. CASE format = "chatml"
  <2>1. more = <<"tool", "response", "end">>
    BY <1>1 DEF Response
  <2>2. more \in Seq(Tokens) /\ Len(more) = 3
    BY <2>1 DEF Tokens
  <2>3. \A j \in 1 .. 3 : more[j] # "text" /\ (more[j] = "end" => j = 3)
    BY <2>1
  <2>4. more[2] \notin {"text", "start"}
    BY <2>1
  <2>5. \A last : \A j \in 1 .. 3 : ~SaidAfter(last, more, j)
    BY <2>3, <2>4 DEF SaidAfter
  <2>6. more[3] = "end"
    BY <2>1
  <2>7. more[Len(more)] = IF format = "qwen" /\ ~last_tool THEN ")" ELSE "end"
    BY <1>1, <2>2, <2>6
  <2>8. \A last : \A j \in 1 .. Len(more) : ~SaidAfter(last, more, j)
    BY <2>2, <2>5
  <2>9. Len(more) \in Nat \ {0}
    BY <2>2
  <2> QED BY <2>2, <2>7, <2>8, <2>9
<1>2. CASE format = "qwen" /\ ~open /\ last_tool
  <2>1. more = <<"user", "(", "response", ")", "end">>
    BY <1>2 DEF Response
  <2>2. more \in Seq(Tokens) /\ Len(more) = 5
    BY <2>1 DEF Tokens
  <2>3. \A j \in 1 .. 5 : more[j] # "text" /\ (more[j] = "end" => j = 5)
    BY <2>1
  <2>4. more[4] \notin {"text", "start"}
    BY <2>1
  <2>5. \A last : \A j \in 1 .. 5 : ~SaidAfter(last, more, j)
    BY <2>3, <2>4 DEF SaidAfter
  <2>6. more[5] = "end"
    BY <2>1
  <2>7. more[Len(more)] = IF format = "qwen" /\ ~last_tool THEN ")" ELSE "end"
    BY <1>2, <2>2, <2>6
  <2>8. \A last : \A j \in 1 .. Len(more) : ~SaidAfter(last, more, j)
    BY <2>2, <2>5
  <2>9. Len(more) \in Nat \ {0}
    BY <2>2
  <2> QED BY <2>2, <2>7, <2>8, <2>9
<1>3. CASE format = "qwen" /\ ~open /\ ~last_tool
  <2>1. more = <<"user", "(", "response", ")">>
    BY <1>3 DEF Response
  <2>2. more \in Seq(Tokens) /\ Len(more) = 4
    BY <2>1 DEF Tokens
  <2>3. \A j \in 1 .. 4 : more[j] # "text" /\ (more[j] = "end" => j = 4)
    BY <2>1
  <2>4. more[3] \notin {"text", "start"}
    BY <2>1
  <2>5. \A last : \A j \in 1 .. 4 : ~SaidAfter(last, more, j)
    BY <2>3, <2>4 DEF SaidAfter
  <2>6. more[4] = ")"
    BY <2>1
  <2>7. more[Len(more)] = IF format = "qwen" /\ ~last_tool THEN ")" ELSE "end"
    BY <1>3, <2>2, <2>6
  <2>8. \A last : \A j \in 1 .. Len(more) : ~SaidAfter(last, more, j)
    BY <2>2, <2>5
  <2>9. Len(more) \in Nat \ {0}
    BY <2>2
  <2> QED BY <2>2, <2>7, <2>8, <2>9
<1>4. CASE format = "qwen" /\ open /\ last_tool
  <2>1. more = <<"(", "response", ")", "end">>
    BY <1>4 DEF Response
  <2>2. more \in Seq(Tokens) /\ Len(more) = 4
    BY <2>1 DEF Tokens
  <2>3. \A j \in 1 .. 4 : more[j] # "text" /\ (more[j] = "end" => j = 4)
    BY <2>1
  <2>4. more[3] \notin {"text", "start"}
    BY <2>1
  <2>5. \A last : \A j \in 1 .. 4 : ~SaidAfter(last, more, j)
    BY <2>3, <2>4 DEF SaidAfter
  <2>6. more[4] = "end"
    BY <2>1
  <2>7. more[Len(more)] = IF format = "qwen" /\ ~last_tool THEN ")" ELSE "end"
    BY <1>4, <2>2, <2>6
  <2>8. \A last : \A j \in 1 .. Len(more) : ~SaidAfter(last, more, j)
    BY <2>2, <2>5
  <2>9. Len(more) \in Nat \ {0}
    BY <2>2
  <2> QED BY <2>2, <2>7, <2>8, <2>9
<1>5. CASE format = "qwen" /\ open /\ ~last_tool
  <2>1. more = <<"(", "response", ")">>
    BY <1>5 DEF Response
  <2>2. more \in Seq(Tokens) /\ Len(more) = 3
    BY <2>1 DEF Tokens
  <2>3. \A j \in 1 .. 3 : more[j] # "text" /\ (more[j] = "end" => j = 3)
    BY <2>1
  <2>4. more[2] \notin {"text", "start"}
    BY <2>1
  <2>5. \A last : \A j \in 1 .. 3 : ~SaidAfter(last, more, j)
    BY <2>3, <2>4 DEF SaidAfter
  <2>6. more[3] = ")"
    BY <2>1
  <2>7. more[Len(more)] = IF format = "qwen" /\ ~last_tool THEN ")" ELSE "end"
    BY <1>5, <2>2, <2>6
  <2>8. \A last : \A j \in 1 .. Len(more) : ~SaidAfter(last, more, j)
    BY <2>2, <2>5
  <2>9. Len(more) \in Nat \ {0}
    BY <2>2
  <2> QED BY <2>2, <2>7, <2>8, <2>9
<1> QED BY <1>1, <1>2, <1>3, <1>4, <1>5

ToolMessage(tool, ok) == [role |-> "tool", tool |-> tool, ok |-> ok]

\* The message of a tool puts the list into the state of a closed or an open one.
LEMMA ToolGrows ==
  ASSUME NEW req, Listed(req), LastId(req) = "end" \/ IsOpen(req),
         NEW tool \in Tools, NEW ok \in BOOLEAN, NEW last_tool \in BOOLEAN,
         NEW q, q = AddToolResponse(req, tool, ok, last_tool)
  PROVE  /\ Listed(q) /\ ButForLists(q, req)
         /\ q.messages = Append(req.messages, ToolMessage(tool, ok))
         /\ q.ids = req.ids \o Response(req.format, IsOpen(req), last_tool)
         /\ IF req.format = "qwen" /\ ~last_tool THEN IsOpen(q) ELSE LastId(q) = "end"
<1> DEFINE f    == FormatConfig[req.format]
           end  == IF last_tool \/ ~f.merges THEN Closing ELSE <<>>
           tail == f.after \o end
           head == ToolHead(f, req.ids)
           ids  == head \o <<"response">> \o tail
           more == Response(req.format, IsOpen(req), last_tool)
           m    == ToolMessage(tool, ok)
<1>1. req.format \in {"chatml", "qwen"} /\ m \in Messages
  BY DEF Listed, Messages, ToolMessage
<1>2. q = Grow(req, ids, Copies(0, Len(ids)), m)
  BY DEF AddToolResponse, ToolMessage
<1>3. IsOpen(req) \in BOOLEAN
  BY DEF IsOpen
<1>4. ids = more
  <2>1. CASE req.format = "chatml"
    <3>1. f.opens = <<"tool">> /\ f.before = <<>> /\ f.after = <<>> /\ f.merges = FALSE
      BY <2>1, Formatting
    <3>2. LastId(req) = "end"
      BY <2>1 DEF IsOpen
    <3> HIDE DEF f
    <3>3. end = <<"end">>
      BY <3>1 DEF Closing
    <3>4. head = <<"tool">> \o <<>>
      <4>1. ~EndsWith(req.ids, f.opens) /\ ~EndsWith(req.ids, f.after) /\ ~EndsWith(req.ids, f.before)
        BY <3>1, <3>2 DEF EndsWith, LastId
      <4>2. EndsWith(req.ids, Closing)
        BY <3>2 DEF EndsWith, LastId, Closing
      <4> QED BY <3>1, <4>1, <4>2 DEF ToolHead
    <3>5. tail = <<>> \o end
      BY <3>1
    <3> HIDE DEF end, head, tail
    <3>6. tail = <<"end">> /\ head = <<"tool">>
      BY <3>3, <3>4, <3>5
    <3>7. head \o <<"response">> = <<"tool", "response">>
      BY <3>6, OneAndOne
    <3>8. <<"tool", "response">> \o <<"end">> = <<"tool", "response", "end">>
      BY TwoAndOne
    <3>9. ids = <<"tool", "response", "end">>
      BY <3>6, <3>7, <3>8
    <3> QED BY <2>1, <3>9 DEF Response
  <2>2. CASE req.format = "qwen"
    <3>1. f.opens = <<"user">> /\ f.before = <<"(">> /\ f.after = <<")">> /\ f.merges = TRUE
      BY <2>2, Formatting
    <3> HIDE DEF f
    <3>2. IsOpen(req) => head = <<"(">>
      <4> SUFFICES ASSUME IsOpen(req) PROVE head = <<"(">>
        OBVIOUS
      <4>1. EndsWith(req.ids, f.after)
        BY <3>1 DEF EndsWith, LastId, IsOpen
      <4>2. ~EndsWith(req.ids, f.before) /\ ~EndsWith(req.ids, Closing)
        BY <3>1 DEF EndsWith, LastId, IsOpen, Closing
      <4> QED BY <3>1, <4>1, <4>2 DEF ToolHead
    <3>3. ~IsOpen(req) => head = <<"user">> \o <<"(">>
      <4> SUFFICES ASSUME ~IsOpen(req) PROVE head = <<"user">> \o <<"(">>
        OBVIOUS
      <4>1. LastId(req) = "end"
        OBVIOUS
      <4>2. ~EndsWith(req.ids, f.opens) /\ ~EndsWith(req.ids, f.after) /\ ~EndsWith(req.ids, f.before)
        BY <3>1, <4>1 DEF EndsWith, LastId
      <4>3. EndsWith(req.ids, Closing)
        BY <4>1 DEF EndsWith, LastId, Closing
      <4> QED BY <3>1, <4>2, <4>3 DEF ToolHead
    <3>4. CASE last_tool
      <4>1. end = <<"end">>
        BY <3>1, <3>4 DEF Closing
      <4>2. tail = <<")">> \o end
        BY <3>1
      <4> HIDE DEF end, tail
      <4>3. tail = <<")", "end">>
        BY <4>1, <4>2, OneAndOne
      <4>4. CASE IsOpen(req)
        <5>1. head = <<"(">>
          BY <3>2, <4>4
        <5> HIDE DEF head
        <5>2. head \o <<"response">> = <<"(", "response">>
          BY <5>1, OneAndOne
        <5>3. <<"(", "response">> \o tail = <<"(", "response", ")", "end">>
          BY <4>3, TwoAndTwo
        <5>4. ids = <<"(", "response", ")", "end">>
          BY <5>2, <5>3
        <5> QED BY <2>2, <3>4, <4>4, <5>4 DEF Response
      <4>5. CASE ~IsOpen(req)
        <5>1. head = <<"user">> \o <<"(">>
          BY <3>3, <4>5
        <5> HIDE DEF head
        <5>2. head = <<"user", "(">>
          BY <5>1, OneAndOne
        <5>3. head \o <<"response">> = <<"user", "(", "response">>
          BY <5>2, TwoAndOne
        <5>4. <<"user", "(", "response">> \o tail = <<"user", "(", "response", ")", "end">>
          BY <4>3, ThreeAndTwo
        <5>5. ids = <<"user", "(", "response", ")", "end">>
          BY <5>3, <5>4
        <5> QED BY <2>2, <3>4, <4>5, <5>5 DEF Response
      <4> QED BY <4>4, <4>5
    <3>5. CASE ~last_tool
      <4>1. end = <<>>
        BY <3>1, <3>5
      <4>2. tail = <<")">> \o end
        BY <3>1
      <4> HIDE DEF end, tail
      <4>3. tail = <<")">>
        BY <4>1, <4>2
      <4>4. CASE IsOpen(req)
        <5>1. head = <<"(">>
          BY <3>2, <4>4
        <5> HIDE DEF head
        <5>2. head \o <<"response">> = <<"(", "response">>
          BY <5>1, OneAndOne
        <5>3. <<"(", "response">> \o tail = <<"(", "response", ")">>
          BY <4>3, TwoAndOne
        <5>4. ids = <<"(", "response", ")">>
          BY <5>2, <5>3
        <5> QED BY <2>2, <3>5, <4>4, <5>4 DEF Response
      <4>5. CASE ~IsOpen(req)
        <5>1. head = <<"user">> \o <<"(">>
          BY <3>3, <4>5
        <5> HIDE DEF head
        <5>2. head = <<"user", "(">>
          BY <5>1, OneAndOne
        <5>3. head \o <<"response">> = <<"user", "(", "response">>
          BY <5>2, TwoAndOne
        <5>4. <<"user", "(", "response">> \o tail = <<"user", "(", "response", ")">>
          BY <4>3, ThreeAndOne
        <5>5. ids = <<"user", "(", "response", ")">>
          BY <5>3, <5>4
        <5> QED BY <2>2, <3>5, <4>5, <5>5 DEF Response
      <4> QED BY <4>4, <4>5
    <3> QED BY <3>4, <3>5
  <2> QED BY <1>1, <2>1, <2>2
<1>5. /\ more \in Seq(Tokens) /\ Len(more) \in Nat \ {0}
      /\ more[Len(more)] = IF req.format = "qwen" /\ ~last_tool THEN ")" ELSE "end"
      /\ \A j \in 1 .. Len(more) : ~SaidAfter(LastId(req), more, j)
  BY <1>1, <1>3, ResponseIs
<1> HIDE DEF ids, more, m
<1> DEFINE flags == Copies(0, Len(more))
<1>6. flags \in Seq({0, 1}) /\ Len(flags) = Len(more) /\ \A j \in 1 .. Len(more) : flags[j] = 0
  BY <1>5, CopiesAre
<1>7. q = Grow(req, more, flags, m)
  BY <1>2, <1>4
<1> HIDE DEF flags
<1>8. \A j \in 1 .. Len(more) : flags[j] = IF SaidAfter(LastId(req), more, j) THEN 1 ELSE 0
  BY <1>5, <1>6
<1>9. /\ Listed(q) /\ ButForLists(q, req)
      /\ q.ids = req.ids \o more /\ q.messages = Append(req.messages, m)
  BY <1>1, <1>5, <1>6, <1>7, <1>8, GrowsBy, SMTT(30)
<1>10. LastId(q) = more[Len(more)]
  <2>1. req.ids \in Seq(Tokens)
    BY DEF Listed
  <2> QED BY <1>5, <1>9, <2>1, ConcatProperties DEF LastId
<1>11. q.format = req.format
  BY <1>9 DEF ButForLists, Fields
<1>12. IF req.format = "qwen" /\ ~last_tool THEN IsOpen(q) ELSE LastId(q) = "end"
  BY <1>5, <1>10, <1>11 DEF IsOpen
<1> QED BY <1>9, <1>12 DEF more, m

-----------------------------------------------------------------------------
(* What the chat template renders when a message is added.                 *)

Parts(f, ms) == [i \in DOMAIN ms |-> MessageTokens(f, ms, i)]

\* What is kept of a prompt are tokens, and the same for requests of one prompt.
LEMMA BegunIs ==
  ASSUME NEW req, req.text \in Seq(Tokens)
  PROVE  Begun(req) \in Seq(Tokens) /\ \A q : q.text = req.text => Begun(q) = Begun(req)
<1>1. PromptLength \in Nat \ {0}
  BY BatchAssumption
<1> DEFINE n == IF req.text[PromptLength] = "start" THEN PromptLength - 1 ELSE PromptLength
<1>2. n \in Nat /\ 0 \in Nat /\ 0 <= Len(req.text)
  BY <1>1
<1> HIDE DEF n
<1>3. Slice(req.text, 0, n) \in Seq(Tokens)
  BY <1>2, SliceIs
<1>4. Begun(req) \in Seq(Tokens)
  BY <1>3 DEF Begun, n
<1>5. \A q : q.text = req.text => Begun(q) = Begun(req)
  BY DEF Begun
<1> QED BY <1>4, <1>5

LEMMA FormatTypes ==
  ASSUME NEW format \in {"chatml", "qwen"}, NEW f, f = FormatConfig[format]
  PROVE  /\ f.opens \in Seq(Tokens) /\ f.before \in Seq(Tokens) /\ f.after \in Seq(Tokens)
         /\ f.merges \in BOOLEAN /\ (f.merges <=> format = "qwen")
<1>1. CASE format = "chatml"
  <2>1. f.opens = <<"tool">> /\ f.before = <<>> /\ f.after = <<>> /\ f.merges = FALSE
    BY <1>1, Formatting
  <2>2. <<"tool">> \in Seq(Tokens) /\ <<>> \in Seq(Tokens)
    BY DEF Tokens
  <2> QED BY <1>1, <2>1, <2>2
<1>2. CASE format = "qwen"
  <2>1. f.opens = <<"user">> /\ f.before = <<"(">> /\ f.after = <<")">> /\ f.merges = TRUE
    BY <1>2, Formatting
  <2>2. <<"user">> \in Seq(Tokens) /\ <<"(">> \in Seq(Tokens) /\ <<")">> \in Seq(Tokens)
    BY DEF Tokens
  <2> QED BY <1>2, <2>1, <2>2
<1> QED BY <1>1, <1>2

LEMMA MessageTokensType ==
  ASSUME NEW format \in {"chatml", "qwen"}, NEW f, f = FormatConfig[format],
         NEW ms \in Seq(Messages), NEW i \in DOMAIN ms
  PROVE  MessageTokens(f, ms, i) \in Seq(Tokens)
<1>1. ms[i] \in Messages
  OBVIOUS
<1>2. CASE IsTool(ms, i)
  <2> DEFINE a == IF f.merges /\ IsTool(ms, i - 1) THEN <<>> ELSE f.opens
             z == IF f.merges /\ IsTool(ms, i + 1) THEN <<>> ELSE Closing
  <2>1. f.opens \in Seq(Tokens) /\ f.before \in Seq(Tokens) /\ f.after \in Seq(Tokens)
    BY FormatTypes
  <2>2. a \in Seq(Tokens) /\ z \in Seq(Tokens)
    BY <2>1, OneToken
  <2>3. MessageTokens(f, ms, i) = a \o f.before \o <<"response">> \o f.after \o z
    BY <1>2 DEF MessageTokens
  <2> HIDE DEF a, z
  <2>4. a \o f.before \o <<"response">> \o f.after \o z \in Seq(Tokens)
    BY <2>1, <2>2, OneToken
  <2> QED BY <2>3, <2>4
<1>3. CASE ~IsTool(ms, i)
  <2>1. ms[i].role # "tool"
    BY <1>3 DEF IsTool
  <2>2. ms[i].size \in Nat
    BY <1>1, <2>1 DEF Messages
  <2>3. Copies("text", ms[i].size) \in Seq(Tokens)
    BY <2>2, CopiesAre DEF Tokens
  <2>4. MessageTokens(f, ms, i) = Opening \o Copies("text", ms[i].size) \o Closing
    BY <1>3 DEF MessageTokens
  <2>5. Opening \o Copies("text", ms[i].size) \o Closing \in Seq(Tokens)
    BY <2>3, OneToken
  <2> QED BY <2>4, <2>5
<1> QED BY <1>2, <1>3

LEMMA PartsType ==
  ASSUME NEW format \in {"chatml", "qwen"}, NEW f, f = FormatConfig[format],
         NEW ms \in Seq(Messages)
  PROVE  Parts(f, ms) \in Seq(Seq(Tokens)) /\ Len(Parts(f, ms)) = Len(ms)
<1>1. \A i \in DOMAIN ms : MessageTokens(f, ms, i) \in Seq(Tokens)
  BY MessageTokensType
<1>2. Parts(f, ms) \in [1 .. Len(ms) -> Seq(Tokens)]
  BY <1>1 DEF Parts
<1> QED BY <1>2

\* A message that does not share a turn with the one before it leaves the
\* tokens of the others alone.
LEMMA PartsGrow ==
  ASSUME NEW format \in {"chatml", "qwen"}, NEW f, f = FormatConfig[format],
         NEW ms \in Seq(Messages), NEW m \in Messages, NEW ns, ns = Append(ms, m),
         ~(f.merges /\ m.role = "tool" /\ IsTool(ms, Len(ms)))
  PROVE  Parts(f, ns) = Append(Parts(f, ms), MessageTokens(f, ns, Len(ms) + 1))
<1> DEFINE n == Len(ms)
           P == Parts(f, ms)
           Q == Parts(f, ns)
           e == MessageTokens(f, ns, n + 1)
<1>1. /\ n \in Nat /\ ns \in Seq(Messages) /\ Len(ns) = n + 1 /\ ns[n + 1] = m
      /\ \A i \in 1 .. n : ns[i] = ms[i]
      /\ DOMAIN ms = 1 .. n /\ DOMAIN ns = 1 .. (n + 1)
  OBVIOUS
<1>2. /\ P \in Seq(Seq(Tokens)) /\ Len(P) = n
      /\ Q \in Seq(Seq(Tokens)) /\ Len(Q) = n + 1
  BY <1>1, PartsType
<1>3. /\ \A i \in 1 .. n : P[i] = MessageTokens(f, ms, i)
      /\ \A i \in 1 .. (n + 1) : Q[i] = MessageTokens(f, ns, i)
  BY <1>1 DEF Parts
<1>4. ASSUME NEW i \in 1 .. n PROVE MessageTokens(f, ns, i) = MessageTokens(f, ms, i)
  <2>1. ns[i] = ms[i] /\ (IsTool(ns, i) <=> IsTool(ms, i))
    BY <1>1 DEF IsTool
  <2>2. IsTool(ns, i - 1) <=> IsTool(ms, i - 1)
    <3>1. i - 1 \in 1 .. (n + 1) => i - 1 \in 1 .. n
      BY <1>1
    <3>2. i - 1 \in 1 .. n => i - 1 \in 1 .. (n + 1)
      BY <1>1
    <3> QED BY <1>1, <3>1, <3>2 DEF IsTool
  <2>3. IsTool(ms, i) => (f.merges /\ IsTool(ns, i + 1) <=> f.merges /\ IsTool(ms, i + 1))
    <3>1. CASE i = n
      <4>1. ~IsTool(ms, i + 1)
        BY <1>1, <3>1 DEF IsTool
      <4>2. IsTool(ns, i + 1) <=> m.role = "tool"
        <5>1. i + 1 \in DOMAIN ns /\ ns[i + 1] = m
          BY <1>1, <3>1
        <5> QED BY <5>1 DEF IsTool
      <4> QED BY <3>1, <4>1, <4>2
    <3>2. CASE i # n
      <4>1. i + 1 \in 1 .. n /\ i + 1 \in 1 .. (n + 1)
        <5>1. n \in Nat
          BY <1>1
        <5> HIDE DEF n
        <5> QED BY <5>1, <3>2
      <4>2. ns[i + 1] = ms[i + 1] /\ i + 1 \in DOMAIN ns /\ i + 1 \in DOMAIN ms
        BY <1>1, <4>1
      <4>3. IsTool(ns, i + 1) <=> IsTool(ms, i + 1)
        BY <4>2 DEF IsTool
      <4> QED BY <4>3
    <3> QED BY <3>1, <3>2
  <2> HIDE DEF n
  <2> QED BY <2>1, <2>2, <2>3 DEF MessageTokens
<1>5. e \in Seq(Tokens)
  <2>1. n + 1 \in DOMAIN ns
    BY <1>1
  <2> QED BY <1>1, <2>1, MessageTokensType
<1> HIDE DEF P, Q, e
<1>6. Append(P, e) \in Seq(Seq(Tokens)) /\ Len(Append(P, e)) = n + 1
  BY <1>2, <1>5
<1>7. ASSUME NEW i \in 1 .. (n + 1) PROVE Q[i] = Append(P, e)[i]
  <2>1. CASE i = n + 1
    <3>1. Append(P, e)[n + 1] = e
      BY <1>2, <1>5
    <3>2. Q[i] = e
      BY <1>3, <2>1 DEF e
    <3> QED BY <2>1, <3>1, <3>2
  <2>2. CASE i # n + 1
    <3>1. i \in 1 .. n
      BY <1>1, <2>2
    <3>2. Append(P, e)[i] = P[i]
      BY <1>2, <1>5, <3>1
    <3> QED BY <1>3, <1>4, <3>1, <3>2
  <2> QED BY <2>1, <2>2
<1>8. Q = Append(P, e)
  BY <1>2, <1>6, <1>7, SeqEqual
<1> QED BY <1>8 DEF P, Q, e

\* A prompt and the messages after it, with one more message.
LEMMA ConversationGrows ==
  ASSUME NEW req, Listed(req), NEW m \in Messages,
         NEW q, q.format = req.format, q.messages = Append(req.messages, m),
         NEW f, f = FormatConfig[req.format],
         ~(f.merges /\ m.role = "tool" /\ IsTool(req.messages, Len(req.messages)))
  PROVE  \A p \in Seq(Tokens) :
           /\ Conversation(req, p) \in Seq(Tokens)
           /\ Conversation(q, p) =
                Conversation(req, p) \o MessageTokens(f, q.messages, Len(req.messages) + 1)
<1> SUFFICES ASSUME NEW p \in Seq(Tokens)
             PROVE  /\ Conversation(req, p) \in Seq(Tokens)
                    /\ Conversation(q, p) = Conversation(req, p)
                         \o MessageTokens(f, q.messages, Len(req.messages) + 1)
  OBVIOUS
<1> DEFINE ms == req.messages
           P  == Parts(f, ms)
           u  == MessageTokens(f, q.messages, Len(ms) + 1)
<1>1. req.format \in {"chatml", "qwen"} /\ ms \in Seq(Messages)
  BY DEF Listed
<1>2. q.messages \in Seq(Messages) /\ Len(ms) + 1 \in DOMAIN q.messages
  BY <1>1
<1>3. P \in Seq(Seq(Tokens)) /\ u \in Seq(Tokens)
  BY <1>1, <1>2, PartsType, MessageTokensType
<1>4. Parts(f, q.messages) = Append(P, u)
  BY <1>1, PartsGrow
<1>5. Conversation(req, p) = p \o FlattenSeq(P)
  BY DEF Conversation, Parts
<1>6. Conversation(q, p) = p \o FlattenSeq(Parts(f, q.messages))
  BY DEF Conversation, Parts
<1> HIDE DEF P, u, ms
<1>7. FlattenSeq(P) \in Seq(Tokens) /\ FlattenSeq(Append(P, u)) = FlattenSeq(P) \o u
  BY <1>3, FlattenAppend
<1>8. p \o (FlattenSeq(P) \o u) = (p \o FlattenSeq(P)) \o u
  BY <1>3, <1>7, ConcatAssociative, SMTT(30)
<1>9. p \o FlattenSeq(P) \in Seq(Tokens)
  BY <1>7
<1>10. Conversation(q, p) = Conversation(req, p) \o u
  BY <1>4, <1>5, <1>6, <1>7, <1>8
<1>11. Conversation(req, p) \in Seq(Tokens)
  BY <1>5, <1>9
<1> QED BY <1>3, <1>10, <1>11 DEF u, ms

LEMMA ConversationType ==
  ASSUME NEW req, Listed(req), NEW p \in Seq(Tokens) PROVE Conversation(req, p) \in Seq(Tokens)
<1> DEFINE m == [role |-> "assistant", size |-> 0]
           q == [req EXCEPT !.messages = Append(req.messages, m)]
<1>1. m \in Messages /\ m.role # "tool"
  BY DEF Messages
<1>2. DOMAIN req = Fields
  BY DEF Listed
<1>3. q.format = req.format /\ q.messages = Append(req.messages, m)
  BY <1>2 DEF Fields
<1> HIDE DEF m, q
<1>4. \A r \in Seq(Tokens) : Conversation(req, r) \in Seq(Tokens)
  BY <1>1, <1>3, ConversationGrows
<1> QED BY <1>4

LEMMA RetoldType == ASSUME NEW req, Listed(req) PROVE Retold(req) \in Seq(Tokens)
  BY BegunIs, ConversationType DEF Retold, Listed

\* What is told of a request with one more message.
LEMMA RetoldGrows ==
  ASSUME NEW req, Listed(req), NEW m \in Messages, NEW q, q.format = req.format,
         q.text = req.text, q.messages = Append(req.messages, m),
         NEW f, f = FormatConfig[req.format],
         ~(f.merges /\ m.role = "tool" /\ IsTool(req.messages, Len(req.messages)))
  PROVE  Retold(q) = Retold(req) \o MessageTokens(f, q.messages, Len(req.messages) + 1)
<1> DEFINE p == Begun(req)
<1>1. p \in Seq(Tokens) /\ Begun(q) = p
  BY BegunIs DEF Listed
<1>2. Retold(req) = Conversation(req, p) /\ Retold(q) = Conversation(q, p)
  BY <1>1 DEF Retold
<1> HIDE DEF p
<1>3. \A r \in Seq(Tokens) : Conversation(q, r) =
         Conversation(req, r) \o MessageTokens(f, q.messages, Len(req.messages) + 1)
  BY ConversationGrows
<1> QED BY <1>1, <1>2, <1>3

\* A message of the assistant is rendered with both its tokens.
LEMMA RetoldAssistant ==
  ASSUME NEW req, Listed(req), NEW size \in Nat, NEW q, q.format = req.format,
         q.text = req.text,
         q.messages = Append(req.messages, [role |-> "assistant", size |-> size])
  PROVE  Retold(q) = Retold(req) \o (Opening \o Spoken(size, FALSE))
<1> DEFINE m == [role |-> "assistant", size |-> size]
           f == FormatConfig[req.format]
           n == Len(req.messages) + 1
           t == Copies("text", size)
<1>1. m \in Messages /\ m.role # "tool" /\ m.size = size
  BY DEF Messages
<1>2. Retold(q) = Retold(req) \o MessageTokens(f, q.messages, n)
  BY <1>1, RetoldGrows
<1>3. q.messages[n] = m
  BY <1>1 DEF Listed
<1>4. ~IsTool(q.messages, n)
  BY <1>1, <1>3 DEF IsTool
<1>5. MessageTokens(f, q.messages, n) = Opening \o t \o Closing
  BY <1>1, <1>3, <1>4 DEF MessageTokens
<1>6. t \in Seq(Tokens)
  BY CopiesAre DEF Tokens
<1>7. Spoken(size, FALSE) = t \o Closing
  BY DEF Spoken
<1> HIDE DEF m, f, n, t
<1>8. (Opening \o t) \o Closing = Opening \o (t \o Closing)
  BY <1>6, OneToken, ConcatAssociative, SMTT(30)
<1> QED BY <1>2, <1>5, <1>7, <1>8

\* A tool's message that opens a message of its own.
LEMMA RetoldTool ==
  ASSUME NEW req, Listed(req), NEW m \in Messages, m.role = "tool", NEW q, q.format = req.format,
         q.text = req.text, q.messages = Append(req.messages, m),
         req.format = "chatml" \/ ~IsTool(req.messages, Len(req.messages))
  PROVE  Retold(q) = Retold(req) \o Response(req.format, FALSE, TRUE)
<1> DEFINE f == FormatConfig[req.format]
           k == Len(req.messages)
           n == k + 1
           ns == q.messages
<1>1. req.format \in {"chatml", "qwen"} /\ req.messages \in Seq(Messages) /\ k \in Nat
  BY DEF Listed
<1>2. f.merges <=> req.format = "qwen"
  BY <1>1, FormatTypes
<1>3. Retold(q) = Retold(req) \o MessageTokens(f, ns, n)
  <2>1. ~(f.merges /\ m.role = "tool" /\ IsTool(req.messages, Len(req.messages)))
    BY <1>2
  <2> QED BY <2>1, RetoldGrows
<1>4. IsTool(ns, n) /\ ~IsTool(ns, n + 1) /\ (IsTool(ns, n - 1) <=> IsTool(req.messages, k))
  <2>1. /\ DOMAIN ns = 1 .. (k + 1) /\ ns[k + 1] = m /\ DOMAIN req.messages = 1 .. k
        /\ \A i \in 1 .. k : ns[i] = req.messages[i]
    BY <1>1
  <2>2. n \in DOMAIN ns /\ n + 1 \notin DOMAIN ns /\ n - 1 = k
    BY <1>1, <2>1
  <2>3. k \in DOMAIN ns <=> k \in DOMAIN req.messages
    BY <1>1, <2>1
  <2> HIDE DEF ns, k
  <2> QED BY <2>1, <2>2, <2>3 DEF IsTool
<1>5. ~(f.merges /\ IsTool(ns, n - 1)) /\ ~(f.merges /\ IsTool(ns, n + 1))
  BY <1>2, <1>4
<1> HIDE DEF f, ns, n
<1>6. MessageTokens(f, ns, n)
        = f.opens \o f.before \o <<"response">> \o f.after \o Closing
  BY <1>4, <1>5 DEF MessageTokens
<1>7. f.opens \o f.before \o <<"response">> \o f.after \o Closing = Response(req.format, FALSE, TRUE)
  <2>1. CASE req.format = "chatml"
    <3>1. f.opens = <<"tool">> /\ f.before = <<>> /\ f.after = <<>>
      BY <2>1, Formatting DEF f
    <3>2. <<"tool">> \o <<>> = <<"tool">>
      OBVIOUS
    <3>3. <<"tool">> \o <<"response">> = <<"tool", "response">>
      BY OneAndOne
    <3>4. <<"tool", "response">> \o <<>> = <<"tool", "response">>
      OBVIOUS
    <3>5. <<"tool", "response">> \o Closing = <<"tool", "response", "end">>
      BY TwoAndOne DEF Closing
    <3> QED BY <2>1, <3>1, <3>2, <3>3, <3>4, <3>5 DEF Response
  <2>2. CASE req.format = "qwen"
    <3>1. f.opens = <<"user">> /\ f.before = <<"(">> /\ f.after = <<")">>
      BY <2>2, Formatting DEF f
    <3>2. <<"user">> \o <<"(">> = <<"user", "(">>
      BY OneAndOne
    <3>3. <<"user", "(">> \o <<"response">> = <<"user", "(", "response">>
      BY TwoAndOne
    <3>4. <<"user", "(", "response">> \o <<")">> = <<"user", "(", "response", ")">>
      BY ThreeAndOne
    <3>5. <<"user", "(", "response", ")">> \o Closing = <<"user", "(", "response", ")", "end">>
      BY FourAndOne DEF Closing
    <3> QED BY <2>2, <3>1, <3>2, <3>3, <3>4, <3>5 DEF Response
  <2> QED BY <1>1, <2>1, <2>2
<1> QED BY <1>3, <1>6, <1>7

\* A tool's message that shares the message of the one before it, which then
\* is no longer closed.
LEMMA RetoldMerged ==
  ASSUME NEW req, Listed(req), req.format = "qwen", IsTool(req.messages, Len(req.messages)),
         NEW m \in Messages, m.role = "tool", NEW q, q.format = req.format,
         q.text = req.text, q.messages = Append(req.messages, m),
         NEW s \in Seq(Tokens), Retold(req) = s \o Closing
  PROVE  Retold(q) = s \o Response("qwen", TRUE, TRUE)
<1> DEFINE f  == FormatConfig["qwen"]
           ms == req.messages
           ns == q.messages
           n  == Len(ms)
           p  == Begun(req)
           P  == Parts(f, ms)
           Q  == Parts(f, ns)
           T  == [i \in 1 .. (n - 1) |-> MessageTokens(f, ms, i)]
           a  == IF IsTool(ms, n - 1) THEN <<>> ELSE f.opens
           H  == a \o f.before \o <<"response">> \o f.after
           u  == MessageTokens(f, ns, n + 1)
<1>1. ms \in Seq(Messages) /\ n \in Nat \ {0} /\ DOMAIN ms = 1 .. n
  BY DEF Listed, IsTool
<1>2. /\ ns \in Seq(Messages) /\ Len(ns) = n + 1 /\ DOMAIN ns = 1 .. (n + 1) /\ ns[n + 1] = m
      /\ \A i \in 1 .. n : ns[i] = ms[i]
  BY <1>1
<1>3. /\ f.opens = <<"user">> /\ f.before = <<"(">> /\ f.after = <<")">> /\ f.merges = TRUE
  BY Formatting
<1>4. /\ f.opens \in Seq(Tokens) /\ f.before \in Seq(Tokens) /\ f.after \in Seq(Tokens)
  BY <1>3 DEF Tokens
<1>5. a \in Seq(Tokens)
  BY <1>4
<1> HIDE DEF a
<1>6. H \in Seq(Tokens)
  BY <1>4, <1>5, OneToken
<1>7. p \in Seq(Tokens) /\ Begun(q) = p
  BY BegunIs DEF Listed
<1>8. /\ P \in Seq(Seq(Tokens)) /\ Len(P) = n
      /\ Q \in Seq(Seq(Tokens)) /\ Len(Q) = n + 1
  BY <1>1, <1>2, PartsType
<1>9. /\ \A i \in 1 .. n : P[i] = MessageTokens(f, ms, i)
      /\ \A i \in 1 .. (n + 1) : Q[i] = MessageTokens(f, ns, i)
  BY <1>1, <1>2 DEF Parts
<1>10. u \in Seq(Tokens)
  <2>1. n + 1 \in DOMAIN ns
    BY <1>1, <1>2
  <2> QED BY <1>2, <2>1, MessageTokensType
<1>11. T \in Seq(Seq(Tokens)) /\ Len(T) = n - 1
  <2> DEFINE k == n - 1
  <2>1. k \in Nat /\ \A i \in 1 .. k : i \in DOMAIN ms
    BY <1>1
  <2>2. \A i \in 1 .. k : MessageTokens(f, ms, i) \in Seq(Tokens)
    BY <1>1, <2>1, MessageTokensType
  <2>3. T \in [1 .. k -> Seq(Tokens)]
    BY <2>2
  <2> HIDE DEF k, T
  <2>4. T \in Seq(Seq(Tokens)) /\ Len(T) = k
    BY <2>1, <2>3
  <2> QED BY <2>4 DEF k
<1>12. \A i \in 1 .. (n - 1) : T[i] = P[i]
  BY <1>1, <1>9
<1>13. /\ IsTool(ns, n) /\ IsTool(ns, n + 1) /\ ~IsTool(ns, n + 2) /\ ~IsTool(ms, n + 1)
       /\ (IsTool(ns, n - 1) <=> IsTool(ms, n - 1))
  <2>1. n \in DOMAIN ns /\ n + 1 \in DOMAIN ns /\ n + 2 \notin DOMAIN ns /\ n + 1 \notin DOMAIN ms
    BY <1>1, <1>2
  <2>2. n - 1 \in DOMAIN ns <=> n - 1 \in DOMAIN ms
    BY <1>1, <1>2
  <2>3. ns[n] = ms[n] /\ (n - 1 \in DOMAIN ms => ns[n - 1] = ms[n - 1])
    BY <1>1, <1>2
  <2>4. IsTool(ms, n) /\ ns[n + 1] = m /\ m.role = "tool"
    BY <1>2
  <2> HIDE DEF n, ns, ms
  <2> QED BY <2>1, <2>2, <2>3, <2>4 DEF IsTool
<1>14. P[n] = H \o Closing
  <2>1. MessageTokens(f, ms, n) = a \o f.before \o <<"response">> \o f.after \o Closing
    <3> DEFINE x == IF f.merges /\ IsTool(ms, n - 1) THEN <<>> ELSE f.opens
               y == IF f.merges /\ IsTool(ms, n + 1) THEN <<>> ELSE Closing
    <3>1. x = a
      BY <1>3 DEF a
    <3>2. y = Closing
      BY <1>13
    <3>3. IsTool(ms, n)
      OBVIOUS
    <3> HIDE DEF f, ms, n
    <3>4. MessageTokens(f, ms, n)
            = x \o f.before \o <<"response">> \o f.after \o y
      BY <3>3 DEF MessageTokens
    <3> HIDE DEF x, y
    <3> QED BY <3>1, <3>2, <3>4
  <2>2. n \in 1 .. n
    BY <1>1
  <2>3. P[n] = MessageTokens(f, ms, n)
    BY <1>9, <2>2
  <2> QED BY <2>1, <2>3
<1>15. Q[n] = H
  <2>1. MessageTokens(f, ns, n) = a \o f.before \o <<"response">> \o f.after \o <<>>
    <3>1. (IF f.merges /\ IsTool(ns, n - 1) THEN <<>> ELSE f.opens) = a
      BY <1>3, <1>13 DEF a
    <3>2. (IF f.merges /\ IsTool(ns, n + 1) THEN <<>> ELSE Closing) = <<>>
      BY <1>3, <1>13
    <3> HIDE DEF f, ns, n
    <3> QED BY <1>13, <3>1, <3>2 DEF MessageTokens
  <2>2. H \o <<>> = H
    BY <1>6, ConcatEmptySeq
  <2>3. n \in 1 .. (n + 1)
    BY <1>1
  <2>4. Q[n] = MessageTokens(f, ns, n)
    BY <1>9, <2>3
  <2> QED BY <2>1, <2>2, <2>4
<1>16. u = Response("qwen", TRUE, TRUE)
  <2>1. u = <<>> \o f.before \o <<"response">> \o f.after \o Closing
    <3>1. (n + 1) - 1 = n /\ (n + 1) + 1 = n + 2
      BY <1>1
    <3>2. (IF f.merges /\ IsTool(ns, (n + 1) - 1) THEN <<>> ELSE f.opens) = <<>>
      BY <1>3, <1>13, <3>1
    <3>3. (IF f.merges /\ IsTool(ns, (n + 1) + 1) THEN <<>> ELSE Closing) = Closing
      BY <1>13, <3>1
    <3> HIDE DEF f, ns, n
    <3> QED BY <1>13, <3>2, <3>3 DEF MessageTokens
  <2>2. <<>> \o <<"(">> = <<"(">>
    OBVIOUS
  <2>3. <<"(">> \o <<"response">> = <<"(", "response">>
    BY OneAndOne
  <2>4. <<"(", "response">> \o <<")">> = <<"(", "response", ")">>
    BY TwoAndOne
  <2>5. <<"(", "response", ")">> \o Closing = <<"(", "response", ")", "end">>
    BY ThreeAndOne DEF Closing
  <2> HIDE DEF u
  <2>6. u = <<"(", "response", ")", "end">>
    BY <1>3, <2>1, <2>2, <2>3, <2>4, <2>5
  <2> QED BY <2>6 DEF Response
<1> DEFINE C == Closing
<1>17. C \in Seq(Tokens)
  BY OneToken
<1>18. Retold(req) = p \o FlattenSeq(P) /\ Retold(q) = p \o FlattenSeq(Q)
  <2>1. FormatConfig[req.format] = f /\ FormatConfig[q.format] = f
    OBVIOUS
  <2>2. Begun(req) = p /\ Begun(q) = p
    BY <1>7
  <2> HIDE DEF f, p
  <2> QED BY <2>1, <2>2 DEF Retold, Conversation, Parts
<1>19. Q[n + 1] = u
  <2>1. n + 1 \in 1 .. (n + 1)
    BY <1>1
  <2> QED BY <1>9, <2>1
<1> HIDE DEF f, ms, ns, n, p, P, Q, T, H, u, C
<1> DEFINE F == FlattenSeq(T)
<1>20. P = Append(T, H \o C)
  <2>1. H \o C \in Seq(Tokens)
    BY <1>6, <1>17
  <2>2. Append(T, H \o C) \in Seq(Seq(Tokens)) /\ Len(Append(T, H \o C)) = n
    BY <1>1, <1>11, <2>1
  <2>3. ASSUME NEW i \in 1 .. n PROVE P[i] = Append(T, H \o C)[i]
    <3>1. CASE i = n
      <4>1. Append(T, H \o C)[(n - 1) + 1] = H \o C
        BY <1>11, <2>1
      <4>2. (n - 1) + 1 = n
        BY <1>1
      <4> QED BY <1>14, <3>1, <4>1, <4>2 DEF C
    <3>2. CASE i # n
      <4>1. i \in 1 .. (n - 1)
        BY <1>1, <3>2
      <4>2. Append(T, H \o C)[i] = T[i]
        BY <1>11, <2>1, <4>1
      <4> QED BY <1>12, <4>1, <4>2
    <3> QED BY <3>1, <3>2
  <2> QED BY <1>8, <2>2, <2>3, SeqEqual
<1>21. Q = Append(Append(T, H), u)
  <2> DEFINE W == Append(T, H)
  <2>1. W \in Seq(Seq(Tokens)) /\ Len(W) = n /\ \A i \in 1 .. (n - 1) : W[i] = T[i]
    BY <1>1, <1>6, <1>11
  <2>2. W[n] = H
    <3>1. W[(n - 1) + 1] = H
      BY <1>6, <1>11
    <3>2. (n - 1) + 1 = n
      BY <1>1
    <3> QED BY <3>1, <3>2
  <2> HIDE DEF W
  <2>3. Append(W, u) \in Seq(Seq(Tokens)) /\ Len(Append(W, u)) = n + 1
    BY <1>10, <2>1
  <2>4. Append(W, u)[n + 1] = u /\ \A i \in 1 .. n : Append(W, u)[i] = W[i]
    BY <1>10, <2>1
  <2>5. ASSUME NEW i \in 1 .. (n + 1) PROVE Q[i] = Append(W, u)[i]
    <3>1. CASE i = n + 1
      BY <1>19, <2>4, <3>1
    <3>2. CASE i = n
      <4>1. n \in 1 .. n
        BY <1>1
      <4> QED BY <1>15, <2>2, <2>4, <3>2, <4>1
    <3>3. CASE i # n + 1 /\ i # n
      <4>1. i \in 1 .. (n - 1) /\ i \in 1 .. n
        BY <1>1, <3>3
      <4>2. Append(W, u)[i] = P[i]
        BY <1>12, <2>1, <2>4, <4>1
      <4>3. MessageTokens(f, ns, i) = MessageTokens(f, ms, i)
        <5>1. i \in DOMAIN ns /\ i \in DOMAIN ms /\ ns[i] = ms[i]
          BY <1>1, <1>2, <4>1
        <5>2. i + 1 \in DOMAIN ns /\ i + 1 \in DOMAIN ms /\ ns[i + 1] = ms[i + 1]
          BY <1>1, <1>2, <4>1
        <5>3. i - 1 \in DOMAIN ms <=> i - 1 \in DOMAIN ns
          BY <1>1, <1>2, <4>1
        <5>4. i - 1 \in DOMAIN ms => ns[i - 1] = ms[i - 1]
          BY <1>1, <1>2, <4>1
        <5>5. IsTool(ns, i) <=> IsTool(ms, i)
          BY <5>1 DEF IsTool
        <5>6. IsTool(ns, i + 1) <=> IsTool(ms, i + 1)
          BY <5>2 DEF IsTool
        <5>7. IsTool(ns, i - 1) <=> IsTool(ms, i - 1)
          BY <5>3, <5>4 DEF IsTool
        <5> QED BY <5>1, <5>5, <5>6, <5>7 DEF MessageTokens
      <4>4. i \in 1 .. (n + 1)
        BY <1>1, <4>1
      <4> QED BY <1>9, <4>1, <4>2, <4>3, <4>4
    <3> QED BY <3>1, <3>2, <3>3
  <2>6. Q = Append(W, u)
    BY <1>8, <2>3, <2>5, SeqEqual
  <2> QED BY <2>6 DEF W
<1>22. /\ F \in Seq(Tokens)
       /\ FlattenSeq(P) = F \o (H \o C)
  <2>1. H \o C \in Seq(Tokens)
    BY <1>6, <1>17
  <2> QED BY <1>11, <1>20, <2>1, FlattenAppend
<1>23. FlattenSeq(Q) = (F \o H) \o u
  <2>1. Append(T, H) \in Seq(Seq(Tokens))
    BY <1>6, <1>11
  <2>2. FlattenSeq(Append(T, H)) = F \o H
    BY <1>6, <1>11, FlattenAppend
  <2>3. FlattenSeq(Append(Append(T, H), u)) = FlattenSeq(Append(T, H)) \o u
    BY <1>10, <2>1, FlattenAppend
  <2> QED BY <1>21, <2>2, <2>3
<1> HIDE DEF F
<1>24. (p \o (F \o H)) \o C = s \o C
  <2>1. F \o H \in Seq(Tokens)
    BY <1>6, <1>22
  <2>2. (F \o H) \o C = F \o (H \o C)
    BY <1>6, <1>17, <1>22, ConcatAssociative, SMTT(30)
  <2>3. p \o ((F \o H) \o C) = (p \o (F \o H)) \o C
    BY <1>7, <1>17, <2>1, ConcatAssociative, SMTT(30)
  <2> QED BY <1>18, <1>22, <2>2, <2>3 DEF C
<1>25. p \o (F \o H) = s
  <2>1. p \o (F \o H) \in Seq(Tokens)
    BY <1>6, <1>7, <1>22
  <2> QED BY <1>17, <1>24, <2>1, ConcatSimplifications
<1>26. p \o ((F \o H) \o u) = (p \o (F \o H)) \o u
  <2>1. F \o H \in Seq(Tokens)
    BY <1>6, <1>22
  <2> DEFINE K == F \o H
  <2>2. K \in Seq(Tokens)
    BY <2>1
  <2> HIDE DEF K
  <2>3. p \o (K \o u) = (p \o K) \o u
    BY <1>7, <1>10, <2>2, ConcatAssociative, SMTT(30)
  <2> QED BY <2>3 DEF K
<1> QED BY <1>16, <1>18, <1>23, <1>25, <1>26

-----------------------------------------------------------------------------
(* The ids and the messages of a request.                                  *)

\* The ids are the rendered messages, the last of which is closed.
Closed(q) == q.ids = Retold(q) /\ LastId(q) = "end"

\* They lack the closing token at most.
Told(q) == q.ids = Retold(q) \/ q.ids \o Closing = Retold(q)

\* They are what the engine is shown, but perhaps for the opening token.
Shown(q) == q.ids = Retold(q) \o Opening \/ Closed(q)

\* The response of a tool can follow.
TakesTool(q) ==
  \/ Closed(q) /\ (q.format = "chatml" \/ ~IsTool(q.messages, Len(q.messages)))
  \/ IsOpen(q) /\ q.ids \o Closing = Retold(q) /\ IsTool(q.messages, Len(q.messages))

LEMMA SameFormat ==
  ASSUME NEW q, NEW req, ButForLists(q, req)
  PROVE  q.format = req.format /\ q.text = req.text
  BY DEF ButForLists, Fields

\* Appending a token: it is the last one.
LEMMA LastOfConcat ==
  ASSUME NEW s \in Seq(Tokens), NEW t \in Seq(Tokens), t # <<>>
  PROVE  /\ s \o t \in Seq(Tokens) /\ Len(s \o t) = Len(s) + Len(t)
         /\ (s \o t)[Len(s \o t)] = t[Len(t)]
<1> DEFINE w == s \o t
<1>1. w \in Seq(Tokens) /\ Len(w) = Len(s) + Len(t)
  BY ConcatProperties
<1>2. \A i \in 1 .. Len(s) + Len(t) : w[i] = IF i <= Len(s) THEN s[i] ELSE t[i - Len(s)]
  BY ConcatProperties
<1>3. Len(s) \in Nat /\ Len(t) \in Nat \ {0}
  OBVIOUS
<1> HIDE DEF w
<1>4. w[Len(w)] = t[Len(t)]
  BY <1>1, <1>2, <1>3
<1> QED BY <1>1, <1>4 DEF w

\* An answer of the engine that was shown the messages becomes one of them.
LEMMA AssistantTells ==
  ASSUME NEW req, Listed(req), Shown(req), CanAddAssistant(req), NEW size \in Nat,
         NEW over_long \in BOOLEAN, NEW q, q = AddAssistantMessage(req, size, over_long)
  PROVE  /\ Listed(q) /\ ButForLists(q, req) /\ Told(q)
         /\ q.messages = Append(req.messages, [role |-> "assistant", size |-> size])
         /\ Len(q.ids) >= Len(req.ids)
         /\ ~over_long => Closed(q)
<1> DEFINE W == Retold(req)
           O == Opening
           C == Closing
           a == Spoken(size, over_long)
           b == Spoken(size, FALSE)
<1>1. /\ Listed(q) /\ ButForLists(q, req)
      /\ q.messages = Append(req.messages, [role |-> "assistant", size |-> size])
      /\ \/ LastId(req) = "start" /\ q.ids = req.ids \o a
         \/ LastId(req) = "end" /\ q.ids = req.ids \o (O \o a)
  BY AssistantGrows
<1>2. W \in Seq(Tokens) /\ a \in Seq(Tokens) /\ b \in Seq(Tokens)
  BY RetoldType, SpokenIs
<1>3. O \in Seq(Tokens) /\ C \in Seq(Tokens) /\ O # <<>> /\ O[Len(O)] = "start" /\ C # <<>>
      /\ C[Len(C)] = "end"
  BY OneToken
<1>4. Retold(q) = W \o (O \o b)
  BY <1>1, SameFormat, RetoldAssistant
<1>5. IF over_long THEN a \o C = b ELSE a = b
  <2>1. CASE over_long
    <3> DEFINE t == Copies("text", size)
    <3>1. t \in Seq(Tokens)
      BY CopiesAre DEF Tokens
    <3>2. a = t \o <<>> /\ b = t \o C
      BY <2>1 DEF Spoken
    <3> HIDE DEF t, a, b, C
    <3> QED BY <2>1, <3>1, <3>2, ConcatEmptySeq
  <2>2. CASE ~over_long
    BY <2>2
  <2> QED BY <2>1, <2>2
<1>6. ~over_long => a # <<>> /\ a[Len(a)] = "end"
  BY SpokenIs
<1>7. req.ids = W \o O \/ (req.ids = W /\ LastId(req) = "end")
  BY DEF Shown, Closed
<1> HIDE DEF W, O, C, a, b
<1>8. q.ids = W \o (O \o a)
  <2>1. CASE req.ids = W \o O
    <3>1. LastId(req) = "start"
      BY <1>2, <1>3, <2>1, LastOfConcat DEF LastId
    <3>2. (W \o O) \o a = W \o (O \o a)
      BY <1>2, <1>3, ConcatAssociative, SMTT(30)
    <3> QED BY <1>1, <2>1, <3>1, <3>2
  <2>2. CASE req.ids = W /\ LastId(req) = "end"
    BY <1>1, <2>2
  <2> QED BY <1>7, <2>1, <2>2
<1>9. O \o a \in Seq(Tokens) /\ O \o b \in Seq(Tokens)
  BY <1>2, <1>3
<1>10. Len(q.ids) >= Len(req.ids)
  <2>1. req.ids \in Seq(Tokens)
    BY DEF Listed
  <2>2. PICK t \in Seq(Tokens) : q.ids = req.ids \o t
    BY <1>1, <1>2, <1>9
  <2>3. Len(req.ids \o t) = Len(req.ids) + Len(t) /\ Len(t) \in Nat /\ Len(req.ids) \in Nat
    BY <2>1, ConcatProperties
  <2> QED BY <2>2, <2>3
<1>11. CASE ~over_long
  <2>1. q.ids = Retold(q)
    BY <1>4, <1>5, <1>8, <1>11
  <2>2. LastId(q) = "end"
    <3>1. O \o a # <<>> /\ (O \o a)[Len(O \o a)] = "end"
      BY <1>2, <1>3, <1>6, <1>11, LastOfConcat
    <3> DEFINE t == O \o a
    <3>2. t \in Seq(Tokens) /\ t # <<>> /\ t[Len(t)] = "end" /\ q.ids = W \o t
      BY <1>8, <1>9, <3>1
    <3> HIDE DEF t
    <3>3. (W \o t)[Len(W \o t)] = "end"
      BY <1>2, <3>2, LastOfConcat
    <3>4. q.ids = W \o t
      BY <3>2
    <3> QED BY <3>3, <3>4 DEF LastId
  <2> QED BY <1>1, <1>10, <2>1, <2>2 DEF Closed, Told
<1>12. CASE over_long
  <2>1. (O \o a) \o C = O \o (a \o C)
    BY <1>2, <1>3, ConcatAssociative
  <2> DEFINE t == O \o a
  <2>2. t \in Seq(Tokens)
    BY <1>9
  <2>3. q.ids = W \o t /\ t \o C = O \o b
    BY <1>5, <1>8, <1>12, <2>1
  <2> HIDE DEF t
  <2>4. (W \o t) \o C = W \o (t \o C)
    BY <1>2, <1>3, <2>2, ConcatAssociative, SMTT(30)
  <2>5. q.ids \o C = Retold(q)
    BY <1>4, <2>3, <2>4
  <2>6. q.ids \o Closing = Retold(q)
    BY <2>5 DEF C
  <2> QED BY <1>1, <1>12, <1>10, <2>6 DEF Told
<1> QED BY <1>1, <1>11, <1>12, <1>10

\* A response of a tool keeps the ids those of the messages: open if another one
\* may follow in the same message, closed otherwise.
LEMMA ToolTells ==
  ASSUME NEW req, Listed(req), TakesTool(req), NEW tool \in Tools, NEW ok \in BOOLEAN,
         NEW last_tool \in BOOLEAN,
         NEW q, q = AddToolResponse(req, tool, ok, last_tool)
  PROVE  /\ Listed(q) /\ ButForLists(q, req)
         /\ q.messages = Append(req.messages, ToolMessage(tool, ok))
         /\ Len(q.ids) >= Len(req.ids)
         /\ IF last_tool THEN Closed(q) ELSE TakesTool(q)
<1> DEFINE m == ToolMessage(tool, ok)
           W == Retold(req)
           C == Closing
<1>1. LastId(req) = "end" \/ IsOpen(req)
  BY DEF TakesTool, Closed
<1>2. /\ Listed(q) /\ ButForLists(q, req) /\ q.messages = Append(req.messages, m)
      /\ q.ids = req.ids \o Response(req.format, IsOpen(req), last_tool)
      /\ IF req.format = "qwen" /\ ~last_tool THEN IsOpen(q) ELSE LastId(q) = "end"
  <2>1. Listed(q) /\ ButForLists(q, req)
    BY <1>1, ToolGrows
  <2>2. q.messages = Append(req.messages, m)
    BY <1>1, ToolGrows
  <2>3. q.ids = req.ids \o Response(req.format, IsOpen(req), last_tool)
    BY <1>1, ToolGrows, ZenonT(40)
  <2>4. IF req.format = "qwen" /\ ~last_tool THEN IsOpen(q) ELSE LastId(q) = "end"
    BY <1>1, ToolGrows
  <2> QED BY <2>1, <2>2, <2>3, <2>4
<1>3. q.format = req.format /\ q.text = req.text
  BY <1>2, SameFormat
<1>4. m \in Messages /\ m.role = "tool"
  BY DEF Messages, ToolMessage
<1>5. req.format \in {"chatml", "qwen"} /\ req.messages \in Seq(Messages) /\ req.ids \in Seq(Tokens)
  BY DEF Listed
<1>6. IsTool(q.messages, Len(q.messages))
  <2>1. Len(q.messages) \in DOMAIN q.messages /\ q.messages[Len(q.messages)] = m
    BY <1>2, <1>4, <1>5
  <2> QED BY <1>4, <2>1 DEF IsTool
<1>7. W \in Seq(Tokens) /\ C \in Seq(Tokens)
  BY RetoldType, OneToken
<1>8. IsOpen(req) \in BOOLEAN
  BY DEF IsOpen
<1>9. Len(q.ids) >= Len(req.ids)
  <2>1. Response(req.format, IsOpen(req), last_tool) \in Seq(Tokens)
    BY <1>5, <1>8, ResponseIs
  <2> DEFINE t == Response(req.format, IsOpen(req), last_tool)
  <2>2. t \in Seq(Tokens) /\ q.ids = req.ids \o t
    BY <1>2, <2>1
  <2> HIDE DEF t
  <2>3. Len(req.ids \o t) = Len(req.ids) + Len(t) /\ Len(t) \in Nat /\ Len(req.ids) \in Nat
    BY <1>5, <2>2, ConcatProperties
  <2> QED BY <2>2, <2>3
<1> HIDE DEF m, W, C
<1>10. CASE Closed(req) /\ (req.format = "chatml" \/ ~IsTool(req.messages, Len(req.messages)))
  <2>1. req.ids = W /\ ~IsOpen(req)
    BY <1>10 DEF Closed, IsOpen, W
  <2>2. Retold(q) = W \o Response(req.format, FALSE, TRUE)
    BY <1>2, <1>3, <1>4, <1>10, RetoldTool DEF W
  <2>3. CASE req.format = "chatml"
    <3>1. Response(req.format, FALSE, TRUE) = Response(req.format, IsOpen(req), last_tool)
      BY <2>3 DEF Response
    <3>2. q.ids = Retold(q)
      BY <1>2, <2>1, <2>2, <3>1
    <3>3. LastId(q) = "end"
      BY <1>2, <2>3
    <3> QED BY <1>2, <1>3, <1>9, <2>3, <3>2, <3>3 DEF Closed, TakesTool, m
  <2>4. CASE req.format = "qwen" /\ last_tool
    <3>1. IsOpen(req) = FALSE /\ last_tool = TRUE
      BY <1>8, <2>1, <2>4
    <3>2. q.ids = Retold(q)
      BY <1>2, <2>1, <2>2, <3>1
    <3>3. LastId(q) = "end"
      BY <1>2, <2>4
    <3> QED BY <1>2, <1>9, <2>4, <3>2, <3>3 DEF Closed, m
  <2>5. CASE req.format = "qwen" /\ ~last_tool
    <3> DEFINE t == <<"user", "(", "response", ")">>
    <3>1. q.ids = W \o t
      <4>1. Response(req.format, IsOpen(req), last_tool) = t
        BY <2>1, <2>5 DEF Response
      <4> HIDE DEF t
      <4> QED BY <1>2, <2>1, <4>1
    <3>2. Response(req.format, FALSE, TRUE) = t \o C
      <4>1. Response(req.format, FALSE, TRUE) = <<"user", "(", "response", ")", "end">>
        BY <2>5 DEF Response
      <4>2. t \o C = <<"user", "(", "response", ")", "end">>
        BY FourAndOne DEF C, Closing
      <4> QED BY <4>1, <4>2
    <3>3. t \in Seq(Tokens)
      BY DEF Tokens
    <3> HIDE DEF t
    <3>4. (W \o t) \o C = W \o (t \o C)
      BY <1>7, <3>3, ConcatAssociative
    <3>5. q.ids \o Closing = Retold(q)
      BY <2>2, <3>1, <3>2, <3>4 DEF C
    <3>6. IsOpen(q)
      BY <1>2, <2>5
    <3> QED BY <1>2, <1>6, <1>9, <2>5, <3>5, <3>6 DEF TakesTool, m
  <2> QED BY <1>5, <2>3, <2>4, <2>5
<1>11. CASE IsOpen(req) /\ req.ids \o Closing = W /\ IsTool(req.messages, Len(req.messages))
  <2>1. req.format = "qwen"
    BY <1>11 DEF IsOpen
  <2>2. Retold(q) = req.ids \o Response("qwen", TRUE, TRUE)
    BY <1>2, <1>3, <1>4, <1>5, <1>11, <2>1, RetoldMerged DEF W
  <2>3. CASE last_tool
    <3>1. IsOpen(req) = TRUE /\ last_tool = TRUE
      BY <1>8, <1>11, <2>3
    <3>2. q.ids = Retold(q)
      BY <1>2, <2>1, <2>2, <3>1
    <3>3. LastId(q) = "end"
      BY <1>2, <2>3
    <3> QED BY <1>2, <1>9, <2>3, <3>2, <3>3 DEF Closed, m
  <2>4. CASE ~last_tool
    <3> DEFINE t == <<"(", "response", ")">>
    <3>1. q.ids = req.ids \o t
      <4>1. Response(req.format, IsOpen(req), last_tool) = t
        BY <1>11, <2>1, <2>4 DEF Response
      <4> HIDE DEF t
      <4> QED BY <1>2, <4>1
    <3>2. Response("qwen", TRUE, TRUE) = t \o C
      <4>1. Response("qwen", TRUE, TRUE) = <<"(", "response", ")", "end">>
        BY DEF Response
      <4>2. t \o C = <<"(", "response", ")", "end">>
        BY ThreeAndOne DEF C, Closing
      <4> QED BY <4>1, <4>2
    <3>3. t \in Seq(Tokens)
      BY DEF Tokens
    <3> HIDE DEF t
    <3>4. (req.ids \o t) \o C = req.ids \o (t \o C)
      <4> DEFINE x == req.ids
      <4>1. x \in Seq(Tokens) /\ C \in Seq(Tokens)
        BY <1>5, <1>7
      <4> HIDE DEF x
      <4>2. (x \o t) \o C = x \o (t \o C)
        BY <3>3, <4>1, ConcatAssociative
      <4> QED BY <4>2 DEF x
    <3>5. q.ids \o Closing = Retold(q)
      BY <2>2, <3>1, <3>2, <3>4 DEF C
    <3>6. IsOpen(q)
      BY <1>2, <2>1, <2>4
    <3> QED BY <1>2, <1>6, <1>9, <2>4, <3>5, <3>6 DEF TakesTool, m
  <2> QED BY <2>3, <2>4
<1> QED BY <1>10, <1>11 DEF TakesTool, W

-----------------------------------------------------------------------------
(* The inductive invariant of the rollout.                                 *)

Ats == {"created", "ready", "engine", "tools", "finishing", "done"}

ToolCalls == [tool : Tools, result : {"asked", "refused", "ok", "failed"}]

\* A request's own state, but for what its ids are.
Formed(q) ==
  /\ Listed(q)
  /\ q.at \in Ats /\ q.turns \in Nat /\ q.kwargs \subseteq Tools
  /\ q.calls \in Seq(ToolCalls) /\ (q.at = "tools" <=> q.calls # <<>>)
  /\ \A i \in DOMAIN q.calls : q.calls[i].tool \in q.kwargs
  /\ q.max_model_len = PromptLength + ResponseLength
  /\ q.prompt \in 0 .. PromptLength /\ q.prompt <= Len(q.ids)

\* A prompt that was cut within a message never gets an answer.
Severed(q) == Len(q.text) >= PromptLength /\ q.text[PromptLength] = "prompt"

\* The ids at every place a request can be.
Worded(q) ==
  /\ Severed(q) => /\ q.at \in {"created", "ready", "engine"}
                   /\ q.ids = Retold(q) /\ LastId(q) = "prompt"
  /\ ~Severed(q) =>
       /\ q.at \in {"created", "ready", "engine"} => Shown(q)
       /\ q.at = "tools" => Closed(q) /\ ~IsTool(q.messages, Len(q.messages))
       /\ q.at = "finishing" => Told(q)
       /\ q.at = "done" => AsRendered(q)

\* What the worker checks is right when it comes to it.
Passing(q) ==
  /\ q.at = "created" => q.messages = <<>>
  /\ q.at = "engine" => MaxNewTokens(q) >= 0
  /\ q.at = "finishing" => q.turns >= MaxTurns \/ q.reason \in {"stop", "length"}
  /\ q.at = "done" => q.state = "COMPLETED" /\ Len(q.ids) <= MaxModelLen

RequestInv(q) == Formed(q) /\ Worded(q) /\ Passing(q)

\* The instances of the requests that have them.
Alive ==
  {i \in Tools \X DOMAIN reqs : /\ i[1] \in reqs[i[2]].kwargs
                                /\ reqs[i[2]].at \notin {"created", "done"}}

\* A call that is under way is asked by the request that waits for it.
UnderWay ==
  \A c \in Calls : stage[c] # "none" =>
    /\ c[1] \in DOMAIN reqs /\ reqs[c[1]].at = "tools"
    /\ c[2] \in DOMAIN reqs[c[1]].calls
    /\ reqs[c[1]].calls[c[2]].tool = c[3] /\ reqs[c[1]].calls[c[2]].result = "asked"

\* The calls whose search result is in the instance and not yet in a message.
Unsaid(calls) == {i \in DOMAIN calls : calls[i].tool = "search" /\ calls[i].result = "ok"}

\* n results are in the search instance of a request.
CountFor(q, n) ==
  "search" \in q.kwargs =>
    /\ q.at \in {"ready", "engine", "tools", "finishing"} =>
         \/ n = Cardinality(FoundIn(q.messages)) + Cardinality(Unsaid(q.calls))
         \/ q.at = "finishing" /\ Len(Retold(q)) >= MaxModelLen
    /\ q.at = "done" =>
         \/ q.scores["search"] = Cardinality(FoundIn(q.messages))
         \/ Len(Retold(q)) >= MaxModelLen

RolloutInv ==
  /\ BucketInv /\ FailsFromOutside
  /\ DOMAIN reqs \subseteq Rows /\ (phase = "idle" => reqs = <<>>)
  /\ phase = "returned" => \A r \in DOMAIN reqs : reqs[r].at = "done"
  /\ \A r \in DOMAIN reqs : RequestInv(reqs[r])
  /\ instances \in [Alive -> Nat]
  /\ UnderWay
  /\ \A r \in DOMAIN reqs : CountFor(reqs[r], instances[<<"search", r>>])

-----------------------------------------------------------------------------
(* Prefixes.                                                               *)

LEMMA PrefixByElements ==
  ASSUME NEW S, NEW s \in Seq(S), NEW t \in Seq(S), Len(s) <= Len(t),
         \A i \in 1 .. Len(s) : s[i] = t[i]
  PROVE  IsPrefix(s, t)
<1> DEFINE n == Len(s)
<1>1. n \in Nat /\ n <= Len(t) /\ Len(t) \in Nat /\ n = Len(s)
  OBVIOUS
<1>2. SubSeq(s, 1, n) = [i \in 1 .. n |-> s[i]] /\ SubSeq(t, 1, n) = [i \in 1 .. n |-> t[i]]
  <2>1. SubSeq(s, 1, n) \in Seq(S) /\ Len(SubSeq(s, 1, n)) = n
        /\ \A i \in 1 .. n : SubSeq(s, 1, n)[i] = s[i]
    BY <1>1
  <2>2. SubSeq(t, 1, n) \in Seq(S) /\ Len(SubSeq(t, 1, n)) = n
        /\ \A i \in 1 .. n : SubSeq(t, 1, n)[i] = t[i]
    BY <1>1
  <2> QED BY <2>1, <2>2
<1>3. \A i \in 1 .. n : s[i] = t[i]
  OBVIOUS
<1> HIDE DEF n
<1>4. SubSeq(s, 1, n) = SubSeq(t, 1, n)
  BY <1>2, <1>3
<1> QED BY <1>1, <1>4 DEF IsPrefix

LEMMA PrefixOfConcat ==
  ASSUME NEW S, NEW s \in Seq(S), NEW t \in Seq(S)
  PROVE  IsPrefix(s, s \o t)
<1> DEFINE w == s \o t
<1>1. w \in Seq(S) /\ Len(w) = Len(s) + Len(t)
  BY ConcatProperties
<1>2. \A i \in 1 .. Len(s) : w[i] = s[i]
  OBVIOUS
<1>3. Len(s) \in Nat /\ Len(t) \in Nat
  OBVIOUS
<1> HIDE DEF w
<1>4. Len(s) <= Len(w)
  BY <1>1, <1>3
<1>5. IsPrefix(s, w)
  BY <1>1, <1>2, <1>4, PrefixByElements
<1> QED BY <1>5 DEF w

\* What is said in a list that is cut was said in the list.
LEMMA SaidOfSlice ==
  ASSUME NEW s \in Seq(Tokens), NEW n \in Nat
  PROVE  Slice(Said(s), 0, n) = Said(Slice(s, 0, n))
<1> DEFINE t == Slice(s, 0, n)
           f == Said(s)
           u == Slice(f, 0, n)
<1>1. 0 \in Nat /\ 0 <= Len(s)
  OBVIOUS
<1>2. t \in Seq(Tokens) /\ Len(t) = (IF Len(s) - 0 < n THEN Len(s) - 0 ELSE n)
      /\ \A i \in 1 .. Len(t) : t[i] = s[0 + i]
  BY <1>1, SliceIs
<1>3. f \in Seq({0, 1}) /\ Len(f) = Len(s)
  BY DEF Said
<1>4. u \in Seq({0, 1}) /\ Len(u) = (IF Len(f) - 0 < n THEN Len(f) - 0 ELSE n)
      /\ \A i \in 1 .. Len(u) : u[i] = f[0 + i]
  <2>1. 0 <= Len(f)
    BY <1>3
  <2> HIDE DEF f
  <2> QED BY <1>1, <1>3, <2>1, SliceIs, ZenonT(40)
<1>5. DOMAIN s = 1 .. Len(s) /\ DOMAIN t = 1 .. Len(t) /\ Len(s) \in Nat
  BY <1>2
<1>6. \A i \in 1 .. Len(s) : f[i] = IF IsSaid(s, i) THEN 1 ELSE 0
  BY <1>5 DEF Said
<1> HIDE DEF t, f, u
<1>7. Len(u) = Len(t) /\ Len(t) \in Nat /\ Len(t) <= Len(s)
  BY <1>2, <1>3, <1>4, <1>5
<1>8. \A i \in 1 .. Len(t) : t[i] = s[i] /\ u[i] = f[i]
  BY <1>2, <1>4, <1>7
<1>9. \A i \in 1 .. Len(t) : IsSaid(t, i) <=> IsSaid(s, i)
  <2> SUFFICES ASSUME NEW i \in 1 .. Len(t) PROVE IsSaid(t, i) <=> IsSaid(s, i)
    OBVIOUS
  <2>1. t[i] = s[i]
    BY <1>8
  <2>2. i > 1 => i - 1 \in 1 .. Len(t)
    BY <1>7
  <2>3. i > 1 => t[i - 1] = s[i - 1]
    BY <1>8, <2>2
  <2> QED BY <2>1, <2>3 DEF IsSaid
<1>10. \A i \in 1 .. Len(t) : u[i] = IF IsSaid(t, i) THEN 1 ELSE 0
  BY <1>6, <1>7, <1>8, <1>9
<1>11. u = [i \in 1 .. Len(t) |-> u[i]]
  BY <1>4, <1>7
<1>12. Said(t) = [i \in 1 .. Len(t) |-> IF IsSaid(t, i) THEN 1 ELSE 0]
  BY <1>5 DEF Said
<1>13. u = Said(t)
  BY <1>10, <1>11, <1>12
<1> QED BY <1>13 DEF t, u, f

-----------------------------------------------------------------------------
(* The search results in the messages.                                     *)

LEMMA FoundIsFinite ==
  ASSUME NEW ms \in Seq(Messages)
  PROVE  IsFiniteSet(FoundIn(ms)) /\ Cardinality(FoundIn(ms)) \in Nat
<1>1. FoundIn(ms) \subseteq 1 .. Len(ms) /\ Len(ms) \in Nat
  BY DEF FoundIn
<1>2. IsFiniteSet(1 .. Len(ms))
  BY <1>1, FS_Interval
<1> QED BY <1>1, <1>2, FS_Subset, FS_CardinalityType

LEMMA FoundMore ==
  ASSUME NEW ms \in Seq(Messages), NEW m \in Messages,
         m.role = "tool", m.tool = "search", m.ok
  PROVE  Cardinality(FoundIn(Append(ms, m))) = Cardinality(FoundIn(ms)) + 1
<1> DEFINE n == Len(ms)
           x == n + 1
           new == Append(ms, m)
<1>1. /\ n \in Nat /\ DOMAIN new = 1 .. x /\ DOMAIN ms = 1 .. n /\ new[x] = m
      /\ \A i \in 1 .. n : new[i] = ms[i]
  OBVIOUS
<1>2. x \notin 1 .. n /\ 1 .. x = (1 .. n) \cup {x}
  BY <1>1
<1> HIDE DEF n, x, new
<1>3. FoundIn(new) = FoundIn(ms) \cup {x} /\ x \notin FoundIn(ms)
  BY <1>1, <1>2 DEF FoundIn
<1>4. Cardinality(FoundIn(ms) \cup {x}) = Cardinality(FoundIn(ms)) + 1
  BY <1>3, FoundIsFinite, FS_AddElement
<1> QED BY <1>3, <1>4 DEF new

LEMMA FoundSame ==
  ASSUME NEW ms \in Seq(Messages), NEW m \in Messages,
         ~(m.role = "tool" /\ m.tool = "search" /\ m.ok)
  PROVE  Cardinality(FoundIn(Append(ms, m))) = Cardinality(FoundIn(ms))
<1> DEFINE n == Len(ms)
           x == n + 1
           new == Append(ms, m)
<1>1. /\ n \in Nat /\ DOMAIN new = 1 .. x /\ DOMAIN ms = 1 .. n /\ new[x] = m
      /\ \A i \in 1 .. n : new[i] = ms[i]
  OBVIOUS
<1>2. 1 .. x = (1 .. n) \cup {x}
  BY <1>1
<1> HIDE DEF n, x, new
<1>3. FoundIn(new) = FoundIn(ms)
  BY <1>1, <1>2 DEF FoundIn
<1> QED BY <1>3 DEF new

-----------------------------------------------------------------------------
(* The responses of all tools of a turn.                                   *)

\* What the function inside Responses has to satisfy.
Added(req, q, i) ==
  IF i > 1 /\ Len(q.ids) >= MaxModelLen THEN q
  ELSE AddToolResponse(q, req.calls[i].tool, req.calls[i].result = "ok", i = Len(req.calls))

Responds(f, req, n) ==
  f = [i \in 0 .. n |-> IF i = 0 THEN req ELSE Added(req, f[i - 1], i)]

LEMMA RespondsExists ==
  ASSUME NEW req, NEW n \in Nat PROVE \E f : Responds(f, req, n)
<1> DEFINE T == {k \in Nat : \E f : Responds(f, req, k)}
<1>1. 0 \in T
  <2> DEFINE f == [i \in 0 .. 0 |-> req]
  <2>1. \A i \in 0 .. 0 : i = 0
    OBVIOUS
  <2>2. f = [i \in 0 .. 0 |-> IF i = 0 THEN req ELSE Added(req, f[i - 1], i)]
    BY <2>1
  <2> HIDE DEF f
  <2>3. Responds(f, req, 0)
    BY <2>2 DEF Responds
  <2> QED BY <2>3
<1>2. ASSUME NEW k \in 1 .. n, k - 1 \in T PROVE k \in T
  <2>1. PICK f : Responds(f, req, k - 1)
    BY <1>2
  <2> DEFINE g == [i \in 0 .. k |-> IF i = 0 THEN req ELSE Added(req, f[i - 1], i)]
  <2>2. \A i \in 0 .. (k - 1) : f[i] = IF i = 0 THEN req ELSE Added(req, f[i - 1], i)
    BY <2>1 DEF Responds
  <2>3. \A i \in 0 .. (k - 1) : g[i] = f[i]
    BY <2>2
  <2>4. \A i \in 0 .. k : i # 0 => i - 1 \in 0 .. (k - 1)
    OBVIOUS
  <2>5. \A i \in 0 .. k : g[i] = IF i = 0 THEN req ELSE Added(req, g[i - 1], i)
    BY <2>3, <2>4
  <2>6. g = [i \in 0 .. k |-> g[i]]
    OBVIOUS
  <2> HIDE DEF g
  <2>7. Responds(g, req, k)
    BY <2>5, <2>6 DEF Responds
  <2> QED BY <2>7
<1> HIDE DEF T
<1>3. n \in T
  BY <1>1, <1>2, UpTo
<1> QED BY <1>3 DEF T

\* The list of a request with one response after the other.
LEMMA ResponsesAre ==
  ASSUME NEW req, NEW n \in Nat, Len(req.calls) = n
  PROVE  \E f : /\ Responses(req) = f[n] /\ f[0] = req
                /\ \A i \in 1 .. n : f[i] = Added(req, f[i - 1], i)
<1> DEFINE f == CHOOSE f : Responds(f, req, n)
<1>1. Responds(f, req, n)
  BY RespondsExists
<1>2. Responses(req) = f[n]
  BY DEF Responses, Responds, Added
<1> HIDE DEF f
<1>3. \A i \in 0 .. n : f[i] = IF i = 0 THEN req ELSE Added(req, f[i - 1], i)
  BY <1>1 DEF Responds
<1>4. f[0] = req /\ \A i \in 1 .. n : f[i] = Added(req, f[i - 1], i)
  BY <1>3
<1> QED BY <1>2, <1>4

LEMMA ButForListsTrans ==
  ASSUME NEW p, NEW q, NEW req, ButForLists(p, req), ButForLists(q, p)
  PROVE  ButForLists(q, req)
  BY DEF ButForLists

\* The calls up to the k-th whose search result is in the instance.
UnsaidTo(calls, k) == {i \in 1 .. k : calls[i].tool = "search" /\ calls[i].result = "ok"}

LEMMA UnsaidIsFinite ==
  ASSUME NEW calls, NEW k \in Nat
  PROVE  IsFiniteSet(UnsaidTo(calls, k)) /\ Cardinality(UnsaidTo(calls, k)) \in Nat
<1>1. UnsaidTo(calls, k) \subseteq 1 .. k /\ IsFiniteSet(1 .. k)
  BY FS_Interval DEF UnsaidTo
<1> QED BY <1>1, FS_Subset, FS_CardinalityType

LEMMA UnsaidGrows ==
  ASSUME NEW calls, NEW k \in Nat \ {0}
  PROVE  Cardinality(UnsaidTo(calls, k)) =
           Cardinality(UnsaidTo(calls, k - 1))
             + IF calls[k].tool = "search" /\ calls[k].result = "ok" THEN 1 ELSE 0
<1> DEFINE j == k - 1
<1>1. j \in Nat /\ 1 .. k = (1 .. j) \cup {k} /\ k \notin 1 .. j
  OBVIOUS
<1> HIDE DEF j
<1>2. IsFiniteSet(UnsaidTo(calls, j)) /\ Cardinality(UnsaidTo(calls, j)) \in Nat
  BY <1>1, UnsaidIsFinite
<1>3. CASE calls[k].tool = "search" /\ calls[k].result = "ok"
  <2>1. UnsaidTo(calls, k) = UnsaidTo(calls, j) \cup {k} /\ k \notin UnsaidTo(calls, j)
    BY <1>1, <1>3 DEF UnsaidTo
  <2>2. Cardinality(UnsaidTo(calls, j) \cup {k}) = Cardinality(UnsaidTo(calls, j)) + 1
    BY <1>2, <2>1, FS_AddElement
  <2> QED BY <1>3, <2>1, <2>2 DEF j
<1>4. CASE ~(calls[k].tool = "search" /\ calls[k].result = "ok")
  <2>1. UnsaidTo(calls, k) = UnsaidTo(calls, j)
    BY <1>1, <1>4 DEF UnsaidTo
  <2> QED BY <1>2, <1>4, <2>1 DEF j
<1> QED BY <1>3, <1>4

\* A request with the first k of its calls answered in its lists.
Answered(req, p, k) ==
  /\ Listed(p) /\ ButForLists(p, req) /\ Len(p.ids) >= Len(req.ids)
  /\ \/ k >= 1 /\ Len(p.ids) >= MaxModelLen /\ Told(p)
     \/ /\ IF k = Len(req.calls) THEN Closed(p) ELSE TakesTool(p)
        /\ Cardinality(FoundIn(p.messages)) =
             Cardinality(FoundIn(req.messages)) + Cardinality(UnsaidTo(req.calls, k))

LEMMA ResponseTells ==
  ASSUME NEW req, Listed(req), req.calls \in Seq(ToolCalls), NEW k \in 1 .. Len(req.calls),
         NEW p, Answered(req, p, k - 1)
  PROVE  Answered(req, Added(req, p, k), k)
<1> DEFINE q == Added(req, p, k)
           n == Len(req.calls)
           tool == req.calls[k].tool
           ok == req.calls[k].result = "ok"
           last == k = n
           found == Cardinality(FoundIn(req.messages))
<1>1. k \in Nat \ {0} /\ n \in Nat /\ k - 1 # n /\ (k - 1 >= 1 => k > 1)
  OBVIOUS
<1>2. Listed(p) /\ ButForLists(p, req) /\ Len(p.ids) >= Len(req.ids)
  BY DEF Answered
<1>3. CASE k > 1 /\ Len(p.ids) >= MaxModelLen
  <2>1. q = p
    BY <1>3 DEF Added
  <2>2. Told(p)
    BY <1>1 DEF Answered, Told, TakesTool, Closed
  <2> QED BY <1>1, <1>2, <1>3, <2>1, <2>2 DEF Answered
<1>4. CASE ~(k > 1 /\ Len(p.ids) >= MaxModelLen)
  <2>1. /\ TakesTool(p)
        /\ Cardinality(FoundIn(p.messages)) = found + Cardinality(UnsaidTo(req.calls, k - 1))
    BY <1>1, <1>4 DEF Answered
  <2>2. q = AddToolResponse(p, tool, ok, last)
    BY <1>4 DEF Added
  <2>3. tool \in Tools /\ ok \in BOOLEAN /\ last \in BOOLEAN
    <3>1. req.calls[k] \in ToolCalls
      OBVIOUS
    <3> QED BY <3>1 DEF ToolCalls
  <2> HIDE DEF q
  <2>4. /\ Listed(q) /\ ButForLists(q, p)
        /\ q.messages = Append(p.messages, ToolMessage(tool, ok))
        /\ Len(q.ids) >= Len(p.ids)
        /\ IF last THEN Closed(q) ELSE TakesTool(q)
    <3> HIDE DEF tool, ok, last
    <3> QED BY <1>2, <2>1, <2>2, <2>3, ToolTells
  <2>5. ButForLists(q, req)
    BY <1>2, <2>4, ButForListsTrans
  <2>6. Len(q.ids) >= Len(req.ids)
    <3>1. Len(q.ids) \in Nat /\ Len(p.ids) \in Nat /\ Len(req.ids) \in Nat
      BY <1>2, <2>4 DEF Listed
    <3> QED BY <1>2, <2>4, <3>1
  <2>7. Cardinality(FoundIn(q.messages)) = found + Cardinality(UnsaidTo(req.calls, k))
    <3> DEFINE ms == p.messages
               m == ToolMessage(tool, ok)
    <3>1. ms \in Seq(Messages) /\ m \in Messages
      BY <1>2, <2>3 DEF Listed, Messages, ToolMessage
    <3>2. m.role = "tool" /\ m.tool = tool /\ m.ok = ok
      BY DEF ToolMessage
    <3>3. q.messages = Append(ms, m)
      BY <2>4
    <3>4. found \in Nat
      BY FoundIsFinite DEF Listed
    <3>5. Cardinality(UnsaidTo(req.calls, k - 1)) \in Nat
      <4>1. k - 1 \in Nat
        BY <1>1
      <4> QED BY <4>1, UnsaidIsFinite
    <3>6. Cardinality(UnsaidTo(req.calls, k)) =
            Cardinality(UnsaidTo(req.calls, k - 1)) + IF tool = "search" /\ ok THEN 1 ELSE 0
      BY <1>1, UnsaidGrows
    <3> HIDE DEF ms, m, found, tool, ok
    <3>7. CASE tool = "search" /\ ok
      <4>1. m.role = "tool" /\ m.tool = "search" /\ m.ok
        BY <3>2, <3>7
      <4>2. Cardinality(FoundIn(Append(ms, m))) = Cardinality(FoundIn(ms)) + 1
        BY <3>1, <4>1, FoundMore
      <4> QED BY <2>1, <3>3, <3>4, <3>5, <3>6, <3>7, <4>2 DEF ms
    <3>8. CASE ~(tool = "search" /\ ok)
      <4>1. ~(m.role = "tool" /\ m.tool = "search" /\ m.ok)
        BY <3>2, <3>8
      <4>2. Cardinality(FoundIn(Append(ms, m))) = Cardinality(FoundIn(ms))
        BY <3>1, <4>1, FoundSame
      <4> QED BY <2>1, <3>3, <3>4, <3>5, <3>6, <3>8, <4>2 DEF ms
    <3> QED BY <3>7, <3>8
  <2> QED BY <2>4, <2>5, <2>6, <2>7 DEF Answered, q
<1> QED BY <1>3, <1>4

\* All responses keep the ids those of the messages, and every search result in
\* the instance gets into a message unless the model's length is reached.
LEMMA ResponsesTell ==
  ASSUME NEW req, Listed(req), TakesTool(req), req.calls \in Seq(ToolCalls), req.calls # <<>>,
         NEW q, q = Responses(req)
  PROVE  /\ Listed(q) /\ ButForLists(q, req) /\ Len(q.ids) >= Len(req.ids) /\ Told(q)
         /\ Len(q.ids) < MaxModelLen =>
              /\ Closed(q)
              /\ Cardinality(FoundIn(q.messages)) =
                   Cardinality(FoundIn(req.messages)) + Cardinality(Unsaid(req.calls))
<1> DEFINE n == Len(req.calls)
<1>1. n \in Nat \ {0} /\ n = Len(req.calls)
  OBVIOUS
<1> HIDE DEF n
<1>2. PICK f : /\ Responses(req) = f[n] /\ f[0] = req
               /\ \A i \in 1 .. n : f[i] = Added(req, f[i - 1], i)
  BY <1>1, ResponsesAre
<1> DEFINE T == {k \in 0 .. n : Answered(req, f[k], k)}
<1>3. 0 \in T
  <2>1. Answered(req, req, 0)
    <3>1. ButForLists(req, req)
      BY DEF ButForLists, Listed
    <3>2. Cardinality(UnsaidTo(req.calls, 0)) = 0
      <4>1. UnsaidTo(req.calls, 0) = {}
        BY DEF UnsaidTo
      <4> QED BY <4>1, FS_EmptySet
    <3>3. Cardinality(FoundIn(req.messages)) \in Nat /\ Len(req.ids) \in Nat
      BY FoundIsFinite DEF Listed
    <3>4. Cardinality(FoundIn(req.messages)) =
            Cardinality(FoundIn(req.messages)) + Cardinality(UnsaidTo(req.calls, 0))
      BY <3>2, <3>3
    <3>5. Len(req.ids) >= Len(req.ids) /\ 0 # Len(req.calls)
      BY <1>1, <3>3
    <3> QED BY <3>1, <3>4, <3>5 DEF Answered
  <2> QED BY <1>1, <1>2, <2>1
<1>4. ASSUME NEW k \in 1 .. n, k - 1 \in T PROVE k \in T
  <2>1. Answered(req, f[k - 1], k - 1) /\ f[k] = Added(req, f[k - 1], k)
    BY <1>2, <1>4
  <2>2. k \in 1 .. Len(req.calls)
    BY <1>1
  <2>3. Answered(req, Added(req, f[k - 1], k), k)
    BY <2>1, <2>2, ResponseTells
  <2> QED BY <1>1, <2>1, <2>3
<1> HIDE DEF T
<1>5. n \in T
  <2>1. n \in 0 .. n /\ n \in Nat
    BY <1>1
  <2> QED BY <1>3, <1>4, <2>1, UpTo
<1>6. Answered(req, q, n)
  BY <1>2, <1>5 DEF T
<1>7. UnsaidTo(req.calls, n) = Unsaid(req.calls)
  BY <1>1 DEF UnsaidTo, Unsaid
<1>8. Listed(q) /\ ButForLists(q, req) /\ Len(q.ids) >= Len(req.ids) /\ Told(q)
  BY <1>1, <1>6 DEF Answered, Told, Closed
<1>9. ASSUME Len(q.ids) < MaxModelLen
      PROVE  /\ Closed(q)
             /\ Cardinality(FoundIn(q.messages)) =
                   Cardinality(FoundIn(req.messages)) + Cardinality(Unsaid(req.calls))
  <2>1. Len(q.ids) \in Nat /\ MaxModelLen \in Nat
    BY <1>8, BatchAssumption DEF Listed
  <2>2. ~(Len(q.ids) >= MaxModelLen)
    BY <1>9, <2>1
  <2> QED BY <1>1, <1>6, <1>7, <2>2 DEF Answered
<1> QED BY <1>8, <1>9

-----------------------------------------------------------------------------
(* The steps of one request.                                               *)

LEMMA PromptTextsAre ==
  ASSUME NEW text \in PromptTexts
  PROVE  /\ text \in Seq(Tokens)
         /\ \A i \in 1 .. Len(text) : text[i] \in {"prompt", "end", "start"}
         /\ \A i \in 1 .. Len(text) : text[i] # "prompt" => i = PromptLength
<1>1. PICK size \in PromptSizes : text \in [1 .. size - 1 -> {"prompt", "end", "start"}]
  BY DEF PromptTexts
<1>2. size - 1 \in Nat
  BY BatchAssumption
<1> DEFINE n == size - 1
<1>3. text \in [1 .. n -> {"prompt", "end", "start"}] /\ n \in Nat
  BY <1>1, <1>2
<1> HIDE DEF n
<1>4. text \in Seq(Tokens) /\ DOMAIN text = 1 .. Len(text)
  BY <1>3 DEF Tokens
<1>5. \A i \in 1 .. Len(text) : text[i] \in {"prompt", "end", "start"}
  BY <1>3, <1>4
<1>6. \A i \in 1 .. Len(text) : text[i] # "prompt" => i = PromptLength
  BY <1>4 DEF PromptTexts
<1> QED BY <1>4, <1>5, <1>6

\* The ids a request begins with.
FirstIds(text) == Slice(text \o Opening, 0, PromptLength)

LEMMA FirstIdsAre ==
  ASSUME NEW text \in Seq(Tokens)
  PROVE  /\ FirstIds(text) \in Seq(Tokens)
         /\ Len(FirstIds(text)) = IF Len(text) < PromptLength THEN Len(text) + 1 ELSE PromptLength
         /\ \A i \in 1 .. Len(FirstIds(text)) :
              FirstIds(text)[i] = IF i <= Len(text) THEN text[i] ELSE "start"
<1> DEFINE o == Opening
           full == text \o o
           k == Len(text)
           ids == Slice(full, 0, PromptLength)
<1>1. o \in Seq(Tokens) /\ Len(o) = 1 /\ o[1] = "start"
  BY OneToken DEF Opening
<1>2. PromptLength \in Nat \ {0} /\ k \in Nat
  BY BatchAssumption
<1> HIDE DEF o
<1>3. full \in Seq(Tokens) /\ Len(full) = k + 1
  BY <1>1, ConcatProperties
<1>4. \A i \in 1 .. k + 1 : full[i] = IF i <= k THEN text[i] ELSE o[i - k]
  BY <1>1, ConcatProperties
<1>5. \A i \in 1 .. k + 1 : full[i] = IF i <= k THEN text[i] ELSE "start"
  <2> SUFFICES ASSUME NEW i \in 1 .. k + 1, ~(i <= k) PROVE o[i - k] = "start"
    BY <1>4
  <2>1. i - k = 1
    BY <1>2
  <2> QED BY <1>1, <2>1
<1> HIDE DEF full
<1>6. /\ ids \in Seq(Tokens)
      /\ Len(ids) = IF Len(full) - 0 < PromptLength THEN Len(full) - 0 ELSE PromptLength
      /\ \A i \in 1 .. Len(ids) : ids[i] = full[0 + i]
  <2>1. 0 \in Nat /\ 0 <= Len(full) /\ PromptLength \in Nat
    BY <1>2, <1>3
  <2> QED BY <1>3, <2>1, SliceIs
<1> HIDE DEF ids, k
<1>7. Len(ids) = IF k < PromptLength THEN k + 1 ELSE PromptLength
  BY <1>2, <1>3, <1>6
<1>8. \A i \in 1 .. Len(ids) : i \in 1 .. k + 1 /\ 0 + i = i
  BY <1>2, <1>7
<1>9. \A i \in 1 .. Len(ids) : ids[i] = IF i <= k THEN text[i] ELSE "start"
  BY <1>5, <1>6, <1>8
<1>10. FirstIds(text) = ids
  BY DEF FirstIds, ids, full, o
<1> QED BY <1>6, <1>7, <1>9, <1>10 DEF k

\* Nothing of a prompt is said.
LEMMA NothingSaid ==
  ASSUME NEW text \in PromptTexts
  PROVE  Copies(0, Len(FirstIds(text))) = Said(FirstIds(text))
<1> DEFINE ids == FirstIds(text)
<1>1. text \in Seq(Tokens) /\ PromptLength \in Nat \ {0}
  BY PromptTextsAre, BatchAssumption
<1>2. /\ ids \in Seq(Tokens) /\ Len(ids) <= PromptLength
      /\ \A i \in 1 .. Len(ids) : ids[i] = IF i <= Len(text) THEN text[i] ELSE "start"
  BY <1>1, FirstIdsAre
<1> HIDE DEF ids
<1>3. ASSUME NEW i \in 1 .. Len(ids) PROVE ~IsSaid(ids, i)
  <2>1. ids[i] # "text"
    <3>1. i \in 1 .. Len(text) => text[i] \in {"prompt", "end", "start"}
      BY PromptTextsAre
    <3> QED BY <1>1, <1>2, <3>1
  <2>2. ASSUME ids[i] = "end", i > 1 PROVE ids[i - 1] = "prompt"
    <3>1. i \in 1 .. Len(text) /\ text[i] = "end"
      BY <1>1, <1>2, <2>2
    <3>2. i = PromptLength
      BY <3>1, PromptTextsAre
    <3>3. i - 1 \in 1 .. Len(text) /\ i - 1 \in 1 .. Len(ids) /\ i - 1 # PromptLength
      BY <1>1, <1>2, <2>2, <3>1, <3>2
    <3>4. text[i - 1] = "prompt"
      BY <3>3, PromptTextsAre
    <3> QED BY <1>2, <3>3, <3>4
  <2> QED BY <2>1, <2>2 DEF IsSaid
<1>4. DOMAIN ids = 1 .. Len(ids)
  BY <1>2
<1>5. Copies(0, Len(ids)) = Said(ids)
  BY <1>3, <1>4 DEF Copies, Said
<1> QED BY <1>5 DEF ids

\* Before the first message what is told is what is kept of the prompt.
LEMMA NothingTold ==
  ASSUME NEW q, q.text \in Seq(Tokens), q.messages = <<>>
  PROVE  Retold(q) = Begun(q) /\ Begun(q) \in Seq(Tokens)
<1> DEFINE c == Begun(q)
<1>1. c \in Seq(Tokens)
  BY BegunIs
<1>2. Retold(q) = c \o FlattenSeq(Parts(FormatConfig[q.format], <<>>))
  BY DEF Retold, Conversation, Parts
<1> HIDE DEF c
<1>3. Parts(FormatConfig[q.format], <<>>) = <<>>
  <2>1. DOMAIN <<>> = 1 .. 0 /\ 1 .. 0 = {}
    OBVIOUS
  <2>2. Len(Parts(FormatConfig[q.format], <<>>)) = 0 /\ Parts(FormatConfig[q.format], <<>>) \in Seq(Tokens)
    BY <2>1 DEF Parts
  <2> QED BY <2>2
<1>4. FlattenSeq(<<>>) = <<>>
  BY DEF FlattenSeq
<1>5. Retold(q) = c \o <<>>
  BY <1>2, <1>3, <1>4
<1>6. c \o <<>> = c
  BY <1>1, ConcatEmptySeq
<1> QED BY <1>1, <1>5, <1>6 DEF c

\* The first ids are the prompt and the opening of the answer, or its beginning
\* up to a cut, which opens an answer, closes a message or is within one.
LEMMA FirstIdsTell ==
  ASSUME NEW q, q.text \in PromptTexts, q.messages = <<>>, q.ids = FirstIds(q.text)
  PROVE  IF Severed(q) THEN q.ids = Retold(q) /\ LastId(q) = "prompt" ELSE Shown(q)
<1> DEFINE text == q.text
           ids == q.ids
           k == Len(text)
           o == Opening
<1>1. /\ text \in Seq(Tokens) /\ PromptLength \in Nat \ {0} /\ k \in Nat
      /\ \A i \in 1 .. k : text[i] \in {"prompt", "end", "start"}
  BY PromptTextsAre, BatchAssumption
<1>2. /\ ids \in Seq(Tokens) /\ Len(ids) = IF k < PromptLength THEN k + 1 ELSE PromptLength
      /\ \A i \in 1 .. Len(ids) : ids[i] = IF i <= k THEN text[i] ELSE "start"
  BY <1>1, FirstIdsAre
<1>3. Retold(q) = Begun(q)
  BY <1>1, NothingTold
<1>4. o \in Seq(Tokens) /\ Len(o) = 1 /\ o[1] = "start"
  BY OneToken DEF Opening
<1>5. CASE k < PromptLength
  <2>1. Begun(q) = text /\ ids = text \o o
    <3>1. ids = text \o Opening
      <4> DEFINE w == text \o o
      <4>1. /\ w \in Seq(Tokens) /\ Len(w) = k + 1
            /\ \A i \in 1 .. k + 1 : w[i] = IF i <= k THEN text[i] ELSE o[i - k]
        <5> HIDE DEF o
        <5> QED BY <1>1, <1>4, ConcatProperties
      <4> HIDE DEF w, ids, o
      <4>2. \A i \in 1 .. k + 1 : w[i] = ids[i]
        <5> SUFFICES ASSUME NEW i \in 1 .. k + 1 PROVE w[i] = ids[i]
          OBVIOUS
        <5>1. i <= k \/ i - k = 1
          BY <1>1
        <5> QED BY <1>2, <1>4, <1>5, <4>1, <5>1
      <4>3. w = ids
        BY <1>1, <1>2, <1>5, <4>1, <4>2, SeqEqual
      <4> QED BY <4>3 DEF w, ids, o
    <3> QED BY <1>5, <3>1 DEF Begun
  <2>2. ~Severed(q)
    BY <1>1, <1>5 DEF Severed
  <2> QED BY <1>3, <2>1, <2>2 DEF Shown
<1>6. CASE ~(k < PromptLength)
  <2>1. Len(ids) = PromptLength /\ \A i \in 1 .. PromptLength : ids[i] = text[i]
    BY <1>1, <1>2, <1>6
  <2>2. LastId(q) = text[PromptLength] /\ text[PromptLength] \in {"prompt", "end", "start"}
    BY <1>1, <1>6, <2>1 DEF LastId
  <2>3. CASE text[PromptLength] # "start"
    <3> DEFINE b == Begun(q)
    <3>1. b = Slice(text, 0, PromptLength)
      BY <1>6, <2>3 DEF Begun
    <3>2. /\ b \in Seq(Tokens)
          /\ Len(b) = IF k - 0 < PromptLength THEN k - 0 ELSE PromptLength
          /\ \A i \in 1 .. Len(b) : b[i] = text[0 + i]
      <4>1. text \in Seq(Tokens) /\ 0 \in Nat /\ 0 <= Len(text) /\ PromptLength \in Nat
        BY <1>1
      <4> HIDE DEF b, text
      <4> QED BY ONLY <3>1, <4>1, SliceIs DEF k
    <3> HIDE DEF b
    <3>3. Len(b) = PromptLength /\ \A i \in 1 .. PromptLength : 0 + i = i
      BY <1>1, <1>6, <3>2
    <3>4. \A i \in 1 .. PromptLength : b[i] = ids[i]
      BY <2>1, <3>2, <3>3
    <3>5. b = ids
      BY <1>1, <1>2, <2>1, <3>2, <3>3, <3>4, SeqEqual
    <3>6. q.ids = Retold(q)
      BY <1>3, <3>5 DEF b
    <3>7. Severed(q) => LastId(q) = "prompt"
      BY <2>2 DEF Severed
    <3>8. ~Severed(q) => LastId(q) = "end"
      BY <1>1, <1>6, <2>2, <2>3 DEF Severed
    <3> QED BY <3>6, <3>7, <3>8 DEF Shown, Closed
  <2>4. CASE text[PromptLength] = "start"
    <3> DEFINE n == PromptLength - 1
               b == Begun(q)
               w == b \o o
    <3>1. b = Slice(text, 0, n)
      BY <1>6, <2>4 DEF Begun
    <3>2. n \in Nat /\ n < k /\ n + 1 = PromptLength
      BY <1>1, <1>6
    <3> HIDE DEF n, b
    <3>3. /\ b \in Seq(Tokens)
          /\ Len(b) = IF k - 0 < n THEN k - 0 ELSE n
          /\ \A i \in 1 .. Len(b) : b[i] = text[0 + i]
      <4>1. text \in Seq(Tokens) /\ 0 \in Nat /\ 0 <= Len(text) /\ n \in Nat
        BY <1>1, <3>2
      <4> HIDE DEF text
      <4> QED BY ONLY <3>1, <4>1, SliceIs DEF k
    <3>4. Len(b) = n /\ \A i \in 1 .. n : 0 + i = i
      BY <1>1, <3>2, <3>3
    <3>5. \A i \in 1 .. n : b[i] = text[i]
      BY <3>3, <3>4
    <3>6. /\ w \in Seq(Tokens) /\ Len(w) = n + 1
          /\ \A i \in 1 .. n + 1 : w[i] = IF i <= n THEN b[i] ELSE o[i - n]
      <4>1. o \in Seq(Tokens) /\ Len(o) = 1 /\ b \in Seq(Tokens) /\ Len(b) = n
        BY <1>4, <3>3, <3>4
      <4> HIDE DEF o
      <4> QED BY ONLY <4>1, ConcatProperties, SMTT(30) DEF w
    <3> HIDE DEF w, o
    <3>7. \A i \in 1 .. n + 1 : w[i] = ids[i]
      <4> SUFFICES ASSUME NEW i \in 1 .. n + 1 PROVE w[i] = ids[i]
        OBVIOUS
      <4>1. i \in 1 .. n \/ (i = PromptLength /\ ~(i <= n) /\ i - n = 1)
        BY <3>2
      <4>2. i \in 1 .. PromptLength
        BY <3>2
      <4>3. ids[i] = text[i]
        BY <2>1, <4>2
      <4>4. CASE i \in 1 .. n
        BY <3>2, <3>5, <3>6, <4>3, <4>4
      <4>5. CASE i = PromptLength /\ ~(i <= n) /\ i - n = 1
        <5>1. w[i] = o[1]
          BY <3>6, <4>5
        <5> QED BY <1>4, <2>4, <4>3, <4>5, <5>1
      <4> QED BY <4>1, <4>4, <4>5
    <3>8. w = ids
      <4>1. Len(w) = Len(ids)
        BY <2>1, <3>2, <3>6
      <4> HIDE DEF ids
      <4> QED BY <1>2, <3>6, <3>7, <4>1, SeqEqual
    <3>9. q.ids = Retold(q) \o Opening
      BY <1>3, <3>8 DEF w, b, o
    <3>10. ~Severed(q)
      BY <2>4 DEF Severed
    <3> QED BY <3>9, <3>10 DEF Shown
  <2> QED BY <2>3, <2>4
<1> QED BY <1>5, <1>6

\* A request that is new has its prompt, or what is left of it.
LEMMA NewRequestStarts ==
  ASSUME NEW format \in Formats, NEW text \in PromptTexts, NEW kwargs \in SUBSET Tools,
         NEW q, q = NewRequest(format, text, kwargs)
  PROVE  RequestInv(q) /\ q.at = "created" /\ q.kwargs = kwargs
<1> DEFINE ids == FirstIds(text)
<1>1. /\ PromptLength \in Nat \ {0} /\ ResponseLength \in Nat /\ MaxModelLen \in Nat
      /\ MaxModelLen >= PromptLength + ResponseLength /\ format \in {"chatml", "qwen"}
  BY BatchAssumption, RolloutAssumption
<1>2. text \in Seq(Tokens)
  BY PromptTextsAre
<1>3. ids \in Seq(Tokens) /\ Len(ids) \in 1 .. PromptLength
  BY <1>1, <1>2, FirstIdsAre
<1>4. /\ DOMAIN q = Fields /\ q.format = format /\ q.at = "created" /\ q.turns = 0
      /\ q.ids = ids /\ q.loss = Copies(0, Len(ids)) /\ q.prompt = Len(ids) /\ q.text = text
      /\ q.messages = <<>> /\ q.kwargs = kwargs /\ q.calls = <<>>
      /\ q.max_model_len = PromptLength + ResponseLength
  <2>1. q.max_model_len = PromptLength + ResponseLength
    BY <1>1 DEF NewRequest
  <2> QED BY <2>1 DEF NewRequest, Fields, FirstIds
<1>5. Copies(0, Len(ids)) = Said(ids)
  BY NothingSaid
<1>6. IF Severed(q) THEN q.ids = Retold(q) /\ LastId(q) = "prompt" ELSE Shown(q)
  BY <1>4, FirstIdsTell
<1> HIDE DEF ids
<1>7. Listed(q)
  <2>1. ids # <<>>
    BY <1>3
  <2>2. <<>> \in Seq(Messages)
    OBVIOUS
  <2> QED BY <1>1, <1>2, <1>3, <1>4, <1>5, <2>1, <2>2 DEF Listed
<1>8. Formed(q)
  <2>1. <<>> \in Seq(ToolCalls) /\ DOMAIN <<>> = {}
    OBVIOUS
  <2>2. q.at \in Ats /\ q.at # "tools"
    BY <1>4 DEF Ats
  <2>3. q.prompt \in 0 .. PromptLength /\ q.prompt <= Len(q.ids)
    BY <1>1, <1>3, <1>4
  <2> QED BY <1>4, <1>7, <2>1, <2>2, <2>3 DEF Formed
<1>9. Worded(q)
  BY <1>4, <1>6 DEF Worded
<1>10. Passing(q)
  BY <1>4 DEF Passing
<1> QED BY <1>4, <1>8, <1>9, <1>10 DEF RequestInv

\* One request is the other at another place, with the same lists.
Moved(q, req) ==
  /\ DOMAIN q = Fields
  /\ q.format = req.format /\ q.ids = req.ids /\ q.loss = req.loss /\ q.prompt = req.prompt
  /\ q.text = req.text /\ q.messages = req.messages /\ q.kwargs = req.kwargs
  /\ q.max_model_len = req.max_model_len

LEMMA SameLists ==
  ASSUME NEW req, Listed(req), NEW q, Moved(q, req)
  PROVE  /\ Listed(q) /\ Retold(q) = Retold(req) /\ LastId(q) = LastId(req)
         /\ MaxNewTokens(q) = MaxNewTokens(req) /\ (Severed(q) <=> Severed(req))
<1>1. Listed(q)
  BY DEF Listed, Moved
<1>2. Retold(q) = Retold(req)
  BY DEF Retold, Begun, Conversation, Moved
<1>3. LastId(q) = LastId(req)
  BY DEF LastId, Moved
<1>4. MaxNewTokens(q) = MaxNewTokens(req)
  BY DEF MaxNewTokens, GenerationPrompt, Rendered, Conversation, Moved
<1>5. Severed(q) <=> Severed(req)
  BY DEF Severed, Moved
<1> QED BY <1>1, <1>2, <1>3, <1>4, <1>5

LEMMA NothingFound == Cardinality(FoundIn(<<>>)) + Cardinality(Unsaid(<<>>)) = 0
<1>1. FoundIn(<<>>) = {} /\ Unsaid(<<>>) = {}
  BY DEF FoundIn, Unsaid
<1> QED BY <1>1, FS_EmptySet

LEMMA CreateToolsMoves ==
  ASSUME NEW req, RequestInv(req), req.at = "created",
         NEW q, q = [req EXCEPT !.state = "RUNNING", !.at = "ready"]
  PROVE  RequestInv(q) /\ q.at = "ready" /\ q.kwargs = req.kwargs /\ CountFor(q, 0)
<1>1. Formed(req) /\ Worded(req) /\ Passing(req) /\ Listed(req) /\ DOMAIN req = Fields
  BY DEF RequestInv, Formed, Listed
<1>2. Moved(q, req) /\ q.at = "ready" /\ q.calls = req.calls /\ q.turns = req.turns
  BY <1>1 DEF Moved, Fields
<1>3. /\ Listed(q) /\ Retold(q) = Retold(req) /\ LastId(q) = LastId(req)
      /\ (Severed(q) <=> Severed(req))
  BY <1>1, <1>2, SameLists
<1>4. q.calls = <<>> /\ q.messages = <<>>
  BY <1>1, <1>2 DEF Formed, Passing, Moved
<1>5. Formed(q)
  BY <1>1, <1>2, <1>3 DEF Formed, Moved, Ats
<1>6. Worded(q)
  BY <1>1, <1>2, <1>3 DEF Worded, Moved, Shown, Closed
<1>7. Passing(q)
  BY <1>2 DEF Passing
<1>8. CountFor(q, 0)
  <2>1. 0 = Cardinality(FoundIn(q.messages)) + Cardinality(Unsaid(q.calls))
    BY <1>4, NothingFound
  <2> QED BY <1>2, <2>1 DEF CountFor
<1> QED BY <1>2, <1>5, <1>6, <1>7, <1>8 DEF RequestInv, Moved

LEMMA CallEngineMoves ==
  ASSUME NEW req, RequestInv(req), req.at = "ready", MaxNewTokens(req) >= 0, NEW saved, NEW n,
         CountFor(req, n), NEW q, q = [req EXCEPT !.at = "engine", !.saved = saved]
  PROVE  RequestInv(q) /\ q.at = "engine" /\ q.kwargs = req.kwargs /\ CountFor(q, n)
<1>1. Formed(req) /\ Worded(req) /\ Passing(req) /\ Listed(req) /\ DOMAIN req = Fields
  BY DEF RequestInv, Formed, Listed
<1>2. Moved(q, req) /\ q.at = "engine" /\ q.calls = req.calls /\ q.turns = req.turns
  BY <1>1 DEF Moved, Fields
<1>3. /\ Listed(q) /\ Retold(q) = Retold(req) /\ LastId(q) = LastId(req)
      /\ MaxNewTokens(q) = MaxNewTokens(req) /\ (Severed(q) <=> Severed(req))
  BY <1>1, <1>2, SameLists
<1>4. Formed(q)
  BY <1>1, <1>2, <1>3 DEF Formed, Moved, Ats
<1>5. Worded(q)
  BY <1>1, <1>2, <1>3 DEF Worded, Moved, Shown, Closed
<1>6. Passing(q)
  BY <1>2, <1>3 DEF Passing
<1>7. CountFor(q, n)
  BY <1>2 DEF CountFor, Moved
<1> QED BY <1>2, <1>4, <1>5, <1>6, <1>7 DEF RequestInv, Moved

\* What the engine can answer.
Answers(req) == OverLong(req) \cup Plain(req) \cup WithCalls(req)

LEMMA MaxNewTokensType ==
  ASSUME NEW req, Listed(req) PROVE MaxNewTokens(req) \in Int
<1>1. Rendered(req) \in Seq(Tokens) /\ Opening \in Seq(Tokens)
  BY ConversationType, OneToken DEF Rendered, Listed
<1>2. GenerationPrompt(req) \in Seq(Tokens)
  BY <1>1 DEF GenerationPrompt
<1>3. Len(GenerationPrompt(req)) \in Nat
  BY <1>2
<1>4. ResponseLength \in Nat /\ MaxModelLen \in Nat
  BY BatchAssumption
<1> QED BY <1>3, <1>4 DEF MaxNewTokens

LEMMA AnswersAre ==
  ASSUME NEW req, RequestInv(req), req.at = "engine", NEW answer \in Answers(req)
  PROVE  /\ answer.size \in Nat /\ (answer.kind = "length" \/ answer.kind = "stop" \/ answer.kind = "tool_calls")
         /\ answer.calls \in Seq(ToolCalls) /\ Len(answer.calls) <= MaxCalls
         /\ answer.kind = "tool_calls" <=> answer.calls # <<>>
         /\ \A i \in DOMAIN answer.calls : answer.calls[i].result # "ok"
<1>1. MaxNewTokens(req) \in Nat
  <2>1. Listed(req) /\ MaxNewTokens(req) >= 0
    BY DEF RequestInv, Formed, Passing
  <2> QED BY <2>1, MaxNewTokensType
<1>2. <<>> \in Seq(ToolCalls) /\ Len(<<>>) = 0 /\ DOMAIN <<>> = {} /\ 0 <= MaxCalls
  BY BatchAssumption
<1>3. CASE answer \in OverLong(req) \cup Plain(req)
  <2>1. /\ answer.size \in Nat /\ answer.calls = <<>>
        /\ answer.kind = "length" \/ answer.kind = "stop"
    BY <1>1, <1>3, BatchAssumption DEF OverLong, Plain
  <2> QED BY <1>2, <2>1
<1>4. CASE answer \in WithCalls(req)
  <2>1. answer.size \in Texts /\ answer.kind = "tool_calls" /\ answer.calls \in CallLists
    BY <1>4 DEF WithCalls
  <2>2. answer.size \in Nat
    BY <2>1, BatchAssumption
  <2>3. PICK n \in 0 .. MaxCalls : answer.calls \in [1 .. n -> Parsed]
    BY <2>1 DEF CallLists, BoundedSeq, SeqOf
  <2>4. answer.calls # <<>>
    BY <2>1 DEF CallLists
  <2>5. Parsed \subseteq ToolCalls /\ \A c \in Parsed : c.result # "ok"
    BY DEF Parsed, ToolCalls
  <2>6. n \in Nat /\ answer.calls \in [1 .. n -> ToolCalls] /\ DOMAIN answer.calls = 1 .. n
    BY <2>3, <2>5, BatchAssumption
  <2>7. answer.calls \in Seq(ToolCalls) /\ Len(answer.calls) = n
    BY <2>6
  <2>8. \A i \in DOMAIN answer.calls : answer.calls[i].result # "ok"
    BY <2>3, <2>5
  <2> QED BY <2>1, <2>2, <2>3, <2>4, <2>7, <2>8, BatchAssumption
<1> QED BY <1>3, <1>4 DEF Answers

LEMMA NothingUnsaid ==
  ASSUME NEW calls, \A i \in DOMAIN calls : calls[i].result # "ok"
  PROVE  Cardinality(Unsaid(calls)) = 0
<1>1. Unsaid(calls) = {}
  BY DEF Unsaid
<1> QED BY <1>1, FS_EmptySet

\* The engine's answer: its text is a message, its calls wait for their tools.
Asked(req, answer) == IF req.turns + 1 < MaxTurns THEN answer.calls ELSE <<>>

TookAnswer(req, answer) ==
  LET grown == AddAssistantMessage(req, answer.size, answer.kind = "length")
      calls == Asked(req, answer)
  IN  [grown EXCEPT !.turns = req.turns + 1, !.saved = <<>>, !.reason = answer.kind,
                    !.calls = calls,
                    !.at = IF calls = <<>> THEN "finishing" ELSE "tools",
                    !.state = IF answer.calls = <<>> THEN grown.state ELSE "TOOL_CALLING"]

\* q is a request at the next place: with these calls, and the same count.
Waits(req, calls, n, q) ==
  /\ RequestInv(q) /\ q.at \in {"tools", "finishing"} /\ q.kwargs = req.kwargs
  /\ q.calls = calls /\ (q.at = "tools" <=> calls # <<>>) /\ CountFor(q, n)

LEMMA AnswerMoves ==
  ASSUME NEW req, RequestInv(req), req.at = "engine", CanAddAssistant(req),
         NEW answer \in Answers(req),
         \A i \in DOMAIN Asked(req, answer) : Asked(req, answer)[i].tool \in req.kwargs,
         NEW n, CountFor(req, n)
  PROVE  Waits(req, Asked(req, answer), n, TookAnswer(req, answer))
<1> SUFFICES ASSUME NEW turns, turns = req.turns + 1,
                    NEW calls, calls = IF turns < MaxTurns THEN answer.calls ELSE <<>>,
                    calls = Asked(req, answer),
                    NEW grown,
                    grown = AddAssistantMessage(req, answer.size, answer.kind = "length"),
                    NEW q,
                    q = [grown EXCEPT !.turns = turns, !.saved = <<>>, !.reason = answer.kind,
                                      !.calls = calls,
                                      !.at = IF calls = <<>> THEN "finishing" ELSE "tools",
                                      !.state = IF answer.calls = <<>> THEN grown.state
                                                ELSE "TOOL_CALLING"]
             PROVE  Waits(req, calls, n, q)
  BY DEF Asked, TookAnswer
<1> DEFINE long == answer.kind = "length"
           m == [role |-> "assistant", size |-> answer.size]
<1>1. /\ answer.size \in Nat /\ (answer.kind = "length" \/ answer.kind = "stop" \/ answer.kind = "tool_calls")
      /\ answer.calls \in Seq(ToolCalls)
      /\ answer.kind = "tool_calls" <=> answer.calls # <<>>
      /\ \A i \in DOMAIN answer.calls : answer.calls[i].result # "ok"
  BY AnswersAre
<1>2. Formed(req) /\ Worded(req) /\ Passing(req) /\ Listed(req)
  BY DEF RequestInv, Formed
<1>3. ~Severed(req) /\ Shown(req)
  <2>1. LastId(req) # "prompt"
    BY OneToken DEF CanAddAssistant, EndsWith, LastId
  <2> QED BY <1>2, <2>1 DEF Worded
<1>4. /\ Listed(grown) /\ ButForLists(grown, req) /\ Told(grown)
      /\ grown.messages = Append(req.messages, m) /\ Len(grown.ids) >= Len(req.ids)
      /\ ~long => Closed(grown)
  <2>1. long \in BOOLEAN
    OBVIOUS
  <2>2. grown = AddAssistantMessage(req, answer.size, long)
    OBVIOUS
  <2> HIDE DEF long
  <2> QED BY <1>1, <1>2, <1>3, <2>1, <2>2, AssistantTells
<1>5. /\ DOMAIN grown = Fields /\ grown.format = req.format /\ grown.prompt = req.prompt
      /\ grown.text = req.text /\ grown.kwargs = req.kwargs
      /\ grown.max_model_len = req.max_model_len
  BY <1>4 DEF ButForLists, Fields
<1>6. /\ Moved(q, grown) /\ q.turns = turns /\ q.reason = answer.kind /\ q.calls = calls
      /\ q.at = IF calls = <<>> THEN "finishing" ELSE "tools"
  BY <1>5 DEF Moved, Fields
<1>7. Listed(q) /\ Retold(q) = Retold(grown) /\ LastId(q) = LastId(grown)
  BY <1>4, <1>6, SameLists
<1>8. calls \in Seq(ToolCalls) /\ \A i \in DOMAIN calls : calls[i].result # "ok"
  <2>1. CASE turns < MaxTurns
    BY <1>1, <2>1
  <2>2. CASE ~(turns < MaxTurns)
    <3>1. calls = <<>>
      BY <2>2
    <3>2. <<>> \in Seq(ToolCalls) /\ \A i \in DOMAIN <<>> : FALSE
      OBVIOUS
    <3> QED BY <3>1, <3>2
  <2> QED BY <2>1, <2>2
<1>9. q.at \in {"tools", "finishing"} /\ (q.at = "tools" <=> calls # <<>>)
  BY <1>6
<1>10. Formed(q)
  <2>1. turns \in Nat
    BY <1>2 DEF Formed
  <2>2. q.at \in Ats /\ q.kwargs = req.kwargs /\ q.max_model_len = req.max_model_len
        /\ q.prompt = req.prompt
    BY <1>5, <1>6, <1>9 DEF Moved, Ats
  <2>3. q.prompt <= Len(q.ids)
    <3>1. q.ids = grown.ids /\ q.prompt = req.prompt
      BY <2>2, <1>6 DEF Moved
    <3>2. req.prompt \in Nat /\ req.prompt <= Len(req.ids) /\ Len(req.ids) \in Nat
      BY <1>2, BatchAssumption DEF Formed, Listed
    <3>3. Len(grown.ids) \in Nat
      BY <1>4 DEF Listed
    <3> QED BY <1>4, <3>1, <3>2, <3>3
  <2> QED BY <1>2, <1>6, <1>7, <1>8, <1>9, <2>1, <2>2, <2>3 DEF Formed
<1>11. q.messages = Append(req.messages, m) /\ m \in Messages /\ req.messages \in Seq(Messages)
       /\ m.role = "assistant"
  BY <1>1, <1>2, <1>4, <1>6 DEF Moved, Messages, Listed
<1>12. Worded(q)
  <2>1. ~Severed(q)
    <3>1. q.text = req.text
      BY <1>5, <1>6 DEF Moved
    <3> QED BY <1>3, <3>1 DEF Severed
  <2>2. q.at = "finishing" => Told(q)
    BY <1>4, <1>6, <1>7 DEF Told, Moved
  <2>3. q.at = "tools" => Closed(q)
    <3> SUFFICES ASSUME q.at = "tools" PROVE Closed(q)
      OBVIOUS
    <3>1. calls # <<>>
      BY <1>9
    <3>2. answer.calls # <<>>
      BY <3>1
    <3>3. ~long
      BY <1>1, <3>2
    <3> QED BY <1>4, <1>6, <1>7, <3>3 DEF Closed, Moved
  <2>4. ~IsTool(q.messages, Len(q.messages))
    <3>1. q.messages[Len(q.messages)] = m
      <4> HIDE DEF m
      <4> QED BY <1>11
    <3> QED BY <1>11, <3>1 DEF IsTool
  <2> QED BY <1>9, <2>1, <2>2, <2>3, <2>4 DEF Worded
<1>13. Passing(q)
  <2>1. q.at = "finishing" => q.turns >= MaxTurns \/ q.reason \in {"stop", "length"}
    <3> SUFFICES ASSUME q.at = "finishing", ~(q.turns >= MaxTurns)
                 PROVE  q.reason \in {"stop", "length"}
      OBVIOUS
    <3>1. turns \in Nat /\ MaxTurns \in Nat
      BY <1>2, BatchAssumption DEF Formed
    <3>2. turns < MaxTurns
      BY <1>6, <3>1
    <3>3. answer.calls = <<>>
      BY <1>9, <3>2
    <3> QED BY <1>1, <1>6, <3>3
  <2> QED BY <1>9, <2>1 DEF Passing
<1>14. CountFor(q, n)
  <2> SUFFICES ASSUME "search" \in q.kwargs
               PROVE  n = Cardinality(FoundIn(q.messages)) + Cardinality(Unsaid(q.calls))
    BY <1>9 DEF CountFor
  <2>1. "search" \in req.kwargs
    BY <1>5, <1>6 DEF Moved
  <2>2. n = Cardinality(FoundIn(req.messages)) + Cardinality(Unsaid(req.calls))
    BY <2>1 DEF CountFor
  <2>3. Cardinality(Unsaid(req.calls)) = 0
    <3>1. req.calls = <<>>
      BY <1>2 DEF Formed
    <3>2. \A i \in DOMAIN req.calls : req.calls[i].result # "ok"
      BY <3>1
    <3> QED BY <3>2, NothingUnsaid
  <2>4. Cardinality(Unsaid(q.calls)) = 0
    BY <1>6, <1>8, NothingUnsaid
  <2>5. Cardinality(FoundIn(q.messages)) = Cardinality(FoundIn(req.messages))
    <3>1. ~(m.role = "tool" /\ m.tool = "search" /\ m.ok)
      BY <1>11
    <3> DEFINE ms == req.messages
    <3>2. ms \in Seq(Messages) /\ m \in Messages /\ q.messages = Append(ms, m)
      BY <1>11
    <3> HIDE DEF ms, m
    <3>3. Cardinality(FoundIn(Append(ms, m))) = Cardinality(FoundIn(ms))
      BY <3>1, <3>2, FoundSame
    <3> QED BY <3>2, <3>3 DEF ms
  <2> QED BY <2>2, <2>3, <2>4, <2>5
<1> QED BY <1>5, <1>6, <1>9, <1>10, <1>12, <1>13, <1>14 DEF RequestInv, Moved, Waits

\* One more search result in the instance.
LEMMA UnsaidAnswered ==
  ASSUME NEW calls \in Seq(ToolCalls), NEW i \in DOMAIN calls, calls[i].result = "asked",
         NEW x \in {"ok", "failed"}, NEW new, DOMAIN new = DOMAIN calls,
         new[i].tool = calls[i].tool, new[i].result = x,
         \A j \in DOMAIN calls : j # i => new[j] = calls[j]
  PROVE  /\ Cardinality(Unsaid(new)) = Cardinality(Unsaid(calls))
              + IF calls[i].tool = "search" /\ x = "ok" THEN 1 ELSE 0
         /\ Cardinality(Unsaid(calls)) \in Nat
<1>1. IsFiniteSet(Unsaid(calls)) /\ Cardinality(Unsaid(calls)) \in Nat
  <2>1. Unsaid(calls) \subseteq 1 .. Len(calls) /\ Len(calls) \in Nat
    BY DEF Unsaid
  <2>2. IsFiniteSet(1 .. Len(calls))
    BY <2>1, FS_Interval
  <2> QED BY <2>1, <2>2, FS_Subset, FS_CardinalityType
<1>2. i \notin Unsaid(calls)
  BY DEF Unsaid
<1>3. CASE calls[i].tool = "search" /\ x = "ok"
  <2>1. Unsaid(new) = Unsaid(calls) \cup {i}
    BY <1>2, <1>3 DEF Unsaid
  <2>2. Cardinality(Unsaid(calls) \cup {i}) = Cardinality(Unsaid(calls)) + 1
    BY <1>1, <1>2, FS_AddElement
  <2> QED BY <1>1, <1>3, <2>1, <2>2
<1>4. CASE ~(calls[i].tool = "search" /\ x = "ok")
  <2>1. Unsaid(new) = Unsaid(calls)
    BY <1>2, <1>4 DEF Unsaid
  <2> QED BY <1>1, <1>4, <2>1
<1> QED BY <1>3, <1>4

\* The result of a call.
LEMMA ToolAnswersMoves ==
  ASSUME NEW req, RequestInv(req), req.at = "tools", NEW i \in DOMAIN req.calls,
         req.calls[i].result = "asked", NEW x \in {"ok", "failed"}, NEW n, CountFor(req, n),
         NEW m, m = IF req.calls[i].tool = "search" /\ x = "ok" THEN n + 1 ELSE n,
         NEW q, q = [req EXCEPT !.calls[i].result = x]
  PROVE  /\ RequestInv(q) /\ q.at = "tools" /\ q.kwargs = req.kwargs /\ CountFor(q, m)
         /\ DOMAIN q.calls = DOMAIN req.calls
         /\ \A j \in DOMAIN req.calls : j # i => q.calls[j] = req.calls[j]
<1>1. Formed(req) /\ Worded(req) /\ Passing(req) /\ Listed(req) /\ DOMAIN req = Fields
  BY DEF RequestInv, Formed, Listed
<1>2. Moved(q, req) /\ q.at = "tools" /\ q.turns = req.turns
  BY <1>1 DEF Moved, Fields
<1>3. q.calls = [req.calls EXCEPT ![i] = [req.calls[i] EXCEPT !.result = x]]
  BY <1>1 DEF Fields
<1>4. req.calls \in Seq(ToolCalls) /\ \A j \in DOMAIN req.calls : req.calls[j].tool \in req.kwargs
  BY <1>1 DEF Formed
<1>5. req.calls[i] \in ToolCalls
  BY <1>4
<1> DEFINE c == [req.calls[i] EXCEPT !.result = x]
<1>6. c \in ToolCalls /\ c.tool = req.calls[i].tool /\ c.result = x
  BY <1>5 DEF ToolCalls
<1> HIDE DEF c
<1>7. q.calls = [req.calls EXCEPT ![i] = c]
  BY <1>3 DEF c
<1>8. /\ DOMAIN q.calls = DOMAIN req.calls /\ q.calls[i] = c
      /\ \A j \in DOMAIN req.calls : j # i => q.calls[j] = req.calls[j]
  BY <1>7
<1>9. q.calls \in Seq(ToolCalls)
  BY <1>4, <1>6, <1>7, SMTT(30)
<1>10. q.calls # <<>>
  BY <1>8
<1>11. /\ Listed(q) /\ Retold(q) = Retold(req) /\ LastId(q) = LastId(req)
       /\ (Severed(q) <=> Severed(req))
  BY <1>1, <1>2, SameLists
<1>12. \A j \in DOMAIN q.calls : q.calls[j].tool \in q.kwargs
  BY <1>2, <1>4, <1>6, <1>8 DEF Moved
<1>13. Formed(q)
  BY <1>1, <1>2, <1>9, <1>10, <1>11, <1>12 DEF Formed, Moved, Ats
<1>14. Worded(q)
  BY <1>1, <1>2, <1>11 DEF Worded, Moved, Closed
<1>15. Passing(q)
  BY <1>2 DEF Passing
<1>16. CountFor(q, m)
  <2> SUFFICES ASSUME "search" \in q.kwargs
               PROVE  m = Cardinality(FoundIn(q.messages)) + Cardinality(Unsaid(q.calls))
    BY <1>2 DEF CountFor
  <2> DEFINE calls == req.calls
             new == q.calls
  <2>1. /\ calls \in Seq(ToolCalls) /\ i \in DOMAIN calls /\ calls[i].result = "asked"
        /\ DOMAIN new = DOMAIN calls /\ new[i].tool = calls[i].tool /\ new[i].result = x
        /\ \A j \in DOMAIN calls : j # i => new[j] = calls[j]
    BY <1>4, <1>6, <1>8
  <2>2. n = Cardinality(FoundIn(req.messages)) + Cardinality(Unsaid(calls))
    BY <1>2 DEF CountFor, Moved
  <2>3. q.messages = req.messages /\ Cardinality(FoundIn(req.messages)) \in Nat
    BY <1>1, <1>2, FoundIsFinite DEF Moved, Listed
  <2>4. m = IF calls[i].tool = "search" /\ x = "ok" THEN n + 1 ELSE n
    OBVIOUS
  <2> HIDE DEF calls, new
  <2>5. /\ Cardinality(Unsaid(new)) = Cardinality(Unsaid(calls))
              + IF calls[i].tool = "search" /\ x = "ok" THEN 1 ELSE 0
        /\ Cardinality(Unsaid(calls)) \in Nat
    BY <2>1, UnsaidAnswered
  <2>6. m = Cardinality(FoundIn(q.messages)) + Cardinality(Unsaid(new))
    BY <2>2, <2>3, <2>4, <2>5
  <2> QED BY <2>6 DEF new
<1> QED BY <1>2, <1>8, <1>13, <1>14, <1>15, <1>16 DEF RequestInv, Moved

\* All responses are in the lists: the engine is asked again, or there is no room.
LEMMA RespondMoves ==
  ASSUME NEW req, RequestInv(req), req.at = "tools", NEW n, CountFor(req, n),
         NEW grown, grown = Responses(req),
         NEW q, q = IF Len(grown.ids) >= MaxModelLen
                    THEN [grown EXCEPT !.calls = <<>>, !.reason = "stop", !.at = "finishing"]
                    ELSE [grown EXCEPT !.calls = <<>>, !.state = "RUNNING", !.at = "ready"]
  PROVE  /\ RequestInv(q) /\ q.at \in {"ready", "finishing"} /\ q.kwargs = req.kwargs
         /\ CountFor(q, n)
<1>1. Formed(req) /\ Worded(req) /\ Listed(req)
  BY DEF RequestInv, Formed
<1>2. PromptLength \in Nat /\ MaxModelLen \in Nat
  BY BatchAssumption
<1>3. ~Severed(req) /\ TakesTool(req)
  BY <1>1, <1>2 DEF Worded, TakesTool
<1>4. req.calls \in Seq(ToolCalls) /\ req.calls # <<>>
  BY <1>1 DEF Formed
<1>5. /\ Listed(grown) /\ ButForLists(grown, req) /\ Len(grown.ids) >= Len(req.ids) /\ Told(grown)
      /\ Len(grown.ids) < MaxModelLen =>
              /\ Closed(grown)
              /\ Cardinality(FoundIn(grown.messages)) =
                   Cardinality(FoundIn(req.messages)) + Cardinality(Unsaid(req.calls))
  BY <1>1, <1>3, <1>4, ResponsesTell
<1>6. /\ DOMAIN grown = Fields /\ grown.format = req.format /\ grown.prompt = req.prompt
      /\ grown.text = req.text /\ grown.kwargs = req.kwargs /\ grown.turns = req.turns
      /\ grown.max_model_len = req.max_model_len
  BY <1>5 DEF ButForLists, Fields
<1>7. Len(grown.ids) \in Nat /\ Len(req.ids) \in Nat /\ grown.ids \in Seq(Tokens)
  BY <1>1, <1>5 DEF Listed
<1>8. /\ Moved(q, grown) /\ q.turns = grown.turns /\ q.calls = <<>>
      /\ Len(grown.ids) >= MaxModelLen => q.reason = "stop" /\ q.at = "finishing"
      /\ Len(grown.ids) < MaxModelLen => q.at = "ready"
  <2>1. CASE Len(grown.ids) >= MaxModelLen
    <3>1. q = [grown EXCEPT !.calls = <<>>, !.reason = "stop", !.at = "finishing"]
      BY <2>1
    <3>2. ~(Len(grown.ids) < MaxModelLen)
      BY <1>2, <1>7, <2>1
    <3> QED BY <1>6, <2>1, <3>1, <3>2 DEF Moved, Fields
  <2>2. CASE ~(Len(grown.ids) >= MaxModelLen)
    <3>1. q = [grown EXCEPT !.calls = <<>>, !.state = "RUNNING", !.at = "ready"]
      BY <2>2
    <3> QED BY <1>6, <2>2, <3>1 DEF Moved, Fields
  <2> QED BY <2>1, <2>2
<1>9. Listed(q) /\ Retold(q) = Retold(grown) /\ LastId(q) = LastId(grown)
  BY <1>5, <1>8, SameLists
<1>10. Len(grown.ids) >= MaxModelLen \/ Len(grown.ids) < MaxModelLen
  BY <1>2, <1>7
<1>11. q.at \in {"ready", "finishing"}
  BY <1>8, <1>10
<1>12. Formed(q)
  <2>1. q.prompt <= Len(q.ids)
    <3>1. q.ids = grown.ids /\ q.prompt = req.prompt
      BY <1>6, <1>8 DEF Moved
    <3>2. req.prompt \in Nat /\ req.prompt <= Len(req.ids)
      BY <1>1, <1>2 DEF Formed
    <3> QED BY <1>5, <1>7, <3>1, <3>2
  <2>2. /\ q.at \in Ats /\ q.at # "tools" /\ q.kwargs = req.kwargs
        /\ q.max_model_len = req.max_model_len /\ q.prompt = req.prompt /\ q.turns = req.turns
    BY <1>6, <1>8, <1>11 DEF Moved, Ats
  <2>3. q.calls \in Seq(ToolCalls) /\ q.calls = <<>> /\ \A i \in DOMAIN q.calls : FALSE
    BY <1>8
  <2> QED BY <1>1, <1>9, <2>1, <2>2, <2>3 DEF Formed
<1>13. Worded(q)
  <2>1. ~Severed(q)
    <3>1. q.text = req.text
      BY <1>6, <1>8 DEF Moved
    <3> QED BY <1>3, <3>1 DEF Severed
  <2>2. Told(q)
    BY <1>5, <1>8, <1>9 DEF Told, Moved
  <2>3. q.at = "ready" => Shown(q)
    <3> SUFFICES ASSUME q.at = "ready" PROVE Shown(q)
      OBVIOUS
    <3>1. Len(grown.ids) < MaxModelLen
      BY <1>8, <1>10
    <3> QED BY <1>5, <1>8, <1>9, <3>1 DEF Shown, Closed, Moved
  <2> QED BY <1>11, <2>1, <2>2, <2>3 DEF Worded
<1>14. Passing(q)
  BY <1>8, <1>10 DEF Passing
<1>15. CountFor(q, n)
  <2> SUFFICES ASSUME "search" \in q.kwargs
               PROVE  \/ n = Cardinality(FoundIn(q.messages)) + Cardinality(Unsaid(q.calls))
                      \/ q.at = "finishing" /\ Len(Retold(q)) >= MaxModelLen
    BY <1>11 DEF CountFor
  <2>1. CASE Len(grown.ids) >= MaxModelLen
    <3> DEFINE whole == Retold(grown)
               ids == grown.ids
    <3>1. ids \in Seq(Tokens) /\ Closing \in Seq(Tokens) /\ (whole = ids \/ ids \o Closing = whole)
      BY <1>5, <1>7, OneToken DEF Told
    <3> HIDE DEF ids, whole
    <3>2. Len(ids \o Closing) = Len(ids) + Len(Closing) /\ Len(Closing) \in Nat /\ Len(ids) \in Nat
      BY <3>1, ConcatProperties
    <3>3. Len(whole) >= Len(ids) /\ Len(whole) \in Nat
      BY <3>1, <3>2
    <3>4. Len(whole) >= MaxModelLen
      BY <1>2, <1>7, <2>1, <3>2, <3>3 DEF ids
    <3> QED BY <1>8, <1>9, <2>1, <3>4 DEF whole
  <2>2. CASE Len(grown.ids) < MaxModelLen
    <3>1. n = Cardinality(FoundIn(req.messages)) + Cardinality(Unsaid(req.calls))
      BY <1>6, <1>8 DEF CountFor, Moved
    <3>2. n = Cardinality(FoundIn(q.messages))
      BY <1>5, <1>8, <2>2, <3>1 DEF Moved
    <3>3. Cardinality(Unsaid(q.calls)) = 0
      <4>1. \A i \in DOMAIN q.calls : q.calls[i].result # "ok"
        BY <1>8
      <4> QED BY <4>1, NothingUnsaid
    <3>4. Cardinality(FoundIn(q.messages)) \in Nat
      BY <1>9, FoundIsFinite DEF Listed
    <3> DEFINE found == Cardinality(FoundIn(q.messages))
               unsaid == Cardinality(Unsaid(q.calls))
    <3>5. found \in Nat /\ unsaid = 0 /\ n = found
      BY <3>2, <3>3, <3>4
    <3> HIDE DEF found, unsaid
    <3>6. n = found + unsaid
      BY <3>5
    <3> QED BY <3>6 DEF found, unsaid
  <2> QED BY <1>10, <2>1, <2>2
<1> QED BY <1>6, <1>8, <1>11, <1>12, <1>13, <1>14, <1>15 DEF RequestInv, Moved

\* The lists are cut: what is left is the beginning of the rendered messages,
\* with the loss over what was said.
Finished(req, scores) == [Finalize(req, scores) EXCEPT !.at = "done"]

Ends(req, q) ==
  RequestInv(q) /\ q.at = "done" /\ q.kwargs = req.kwargs /\ \A any : CountFor(q, any)

LEMMA FinishMoves ==
  ASSUME NEW req, RequestInv(req), req.at = "finishing", NEW n, CountFor(req, n),
         NEW scores, "search" \in req.kwargs => scores["search"] = n
  PROVE  Ends(req, Finished(req, scores))
<1> SUFFICES ASSUME NEW q, q = [Finalize(req, scores) EXCEPT !.at = "done"] PROVE Ends(req, q)
  BY DEF Finished
<1> DEFINE cut == req.max_model_len
           ids == req.ids
           whole == Retold(req)
           t == Slice(ids, 0, cut)
<1>1. Formed(req) /\ Worded(req) /\ Passing(req) /\ Listed(req) /\ DOMAIN req = Fields
  BY DEF RequestInv, Formed, Listed
<1>2. /\ DOMAIN q = Fields /\ q.format = req.format /\ q.prompt = req.prompt
      /\ q.text = req.text /\ q.messages = req.messages /\ q.kwargs = req.kwargs
      /\ q.max_model_len = cut /\ q.turns = req.turns /\ q.calls = req.calls
      /\ q.state = "COMPLETED" /\ q.at = "done" /\ q.scores = scores
      /\ q.ids = t /\ q.loss = Slice(req.loss, 0, cut)
      /\ q.response = Slice(q.ids, req.prompt, ResponseLength)
      /\ q.response_loss = Slice(q.loss, req.prompt, ResponseLength)
  BY <1>1 DEF Finalize, Fields
<1>3. /\ PromptLength \in Nat \ {0} /\ ResponseLength \in Nat /\ MaxModelLen \in Nat
      /\ cut = PromptLength + ResponseLength /\ cut <= MaxModelLen
  BY <1>1, BatchAssumption, RolloutAssumption DEF Formed, Listed
<1>4. ~Severed(req) /\ Told(req)
  BY <1>1 DEF Worded
<1>5. req.prompt \in 0 .. PromptLength /\ req.prompt <= Len(ids) /\ ids \in Seq(Tokens)
      /\ Len(ids) \in Nat \ {0} /\ req.loss = Said(ids)
  BY <1>1 DEF Formed, Listed
<1>6. Retold(q) = whole
  <2>1. Begun(q) = Begun(req)
    BY <1>1, <1>2, BegunIs DEF Formed, Listed
  <2>2. \A p : Conversation(q, p) = Conversation(req, p)
    BY <1>2 DEF Conversation
  <2> QED BY <2>1, <2>2 DEF Retold
<1>7. whole \in Seq(Tokens) /\ (ids = whole \/ ids \o Closing = whole)
  BY <1>1, <1>4, RetoldType DEF Told
<1> HIDE DEF cut, ids, whole
<1>8. /\ IsPrefix(ids, whole) /\ Len(whole) \in {Len(ids), Len(ids) + 1}
      /\ \A i \in 1 .. Len(ids) : ids[i] = whole[i]
  <2>1. CASE ids = whole
    <3>1. \A i \in 1 .. Len(ids) : ids[i] = whole[i]
      BY <2>1
    <3>2. Len(ids) <= Len(whole)
      BY <1>5, <2>1
    <3> QED BY <1>5, <1>7, <2>1, <3>1, <3>2, PrefixByElements
  <2>2. CASE ids \o Closing = whole
    <3> DEFINE c == Closing
    <3>1. c \in Seq(Tokens) /\ Len(c) = 1
      BY OneToken
    <3> HIDE DEF c
    <3>2. ids \in Seq(Tokens) /\ c \in Seq(Tokens)
      BY <1>5, <3>1
    <3>3. Len(ids \o c) = Len(ids) + Len(c)
      BY <3>2, ConcatProperties
    <3>4. \A i \in 1 .. Len(ids) : (ids \o c)[i] = ids[i]
      BY <3>2
    <3>5. IsPrefix(ids, ids \o c)
      BY <3>2, PrefixOfConcat
    <3>6. whole = ids \o c
      BY <2>2 DEF c
    <3> QED BY <3>1, <3>3, <3>4, <3>5, <3>6
  <2> QED BY <1>7, <2>1, <2>2
<1>9. /\ t \in Seq(Tokens) /\ Len(t) = (IF Len(ids) < cut THEN Len(ids) ELSE cut)
      /\ \A i \in 1 .. Len(t) : t[i] = ids[i]
  <2>1. 0 \in Nat /\ 0 <= Len(ids) /\ cut \in Nat
    BY <1>3, <1>5
  <2>2. /\ t \in Seq(Tokens) /\ Len(t) = (IF Len(ids) - 0 < cut THEN Len(ids) - 0 ELSE cut)
        /\ \A i \in 1 .. Len(t) : t[i] = ids[0 + i]
    BY <1>5, <2>1, SliceIs, ZenonT(40)
  <2> HIDE DEF t
  <2>3. \A i \in 1 .. Len(t) : 0 + i = i
    BY <2>2
  <2> QED BY <1>5, <2>2, <2>3
<1>10. q.loss = Said(q.ids)
  <2>1. Slice(Said(ids), 0, cut) = Said(Slice(ids, 0, cut))
    BY <1>3, <1>5, SaidOfSlice
  <2> QED BY <1>2, <1>5, <2>1
<1> HIDE DEF t
<1>11. Len(t) \in Nat \ {0} /\ Len(t) <= cut /\ Len(t) <= Len(ids) /\ req.prompt <= Len(t)
       /\ req.prompt \in Nat
  BY <1>3, <1>5, <1>9
<1>12. Listed(q)
  <2>1. t # <<>>
    BY <1>9, <1>11
  <2> QED BY <1>1, <1>2, <1>9, <1>10, <2>1 DEF Listed
<1>13. Formed(q)
  <2>1. q.calls \in Seq(ToolCalls) /\ q.calls = <<>> /\ \A i \in DOMAIN q.calls : FALSE
    BY <1>1, <1>2 DEF Formed
  <2>2. q.at \in Ats /\ q.at # "tools" /\ q.turns \in Nat /\ q.kwargs \subseteq Tools
    BY <1>1, <1>2 DEF Formed, Ats
  <2> QED BY <1>2, <1>3, <1>5, <1>11, <1>12, <2>1, <2>2 DEF Formed
<1>14. AsRendered(q)
  <2>1. IsPrefix(t, whole)
    <3>1. \A i \in 1 .. Len(t) : t[i] = whole[i]
      BY <1>5, <1>8, <1>9, <1>11
    <3>2. Len(t) <= Len(whole)
      BY <1>5, <1>8, <1>11
    <3> QED BY <1>7, <1>9, <3>1, <3>2, PrefixByElements
  <2>2. Len(t) \in {Len(whole), Len(whole) - 1, cut}
    BY <1>5, <1>8, <1>9
  <2> DEFINE f == q.loss
             p == req.prompt
             a == Slice(t, p, ResponseLength)
             b == Slice(f, p, ResponseLength)
             k == Len(t)
             c == Slice(t, p, k)
  <2>3. f \in Seq({0, 1}) /\ Len(f) = Len(t)
    BY <1>2, <1>9, <1>10 DEF Said
  <2>4. p \in Nat /\ p <= Len(t)
    BY <1>11
  <2>5. ResponseLength \in Nat /\ Len(t) \in Nat
    BY <1>3, <1>11
  <2> HIDE DEF f, p
  <2>6. /\ a \in Seq(Tokens)
        /\ Len(a) = IF Len(t) - p < ResponseLength THEN Len(t) - p ELSE ResponseLength
        /\ \A i \in 1 .. Len(a) : a[i] = t[p + i]
    <3>1. t \in Seq(Tokens)
      BY <1>9
    <3>2. ResponseLength \in Nat
      BY <2>5
    <3> QED BY <2>4, <3>1, <3>2, SliceIs
  <2>7. Len(b) = IF Len(f) - p < ResponseLength THEN Len(f) - p ELSE ResponseLength
    <3>1. p <= Len(f)
      BY <2>3, <2>4
    <3> QED BY <2>3, <2>4, <2>5, <3>1, SliceIs
  <2>8. /\ c \in Seq(Tokens)
        /\ Len(c) = IF Len(t) - p < k THEN Len(t) - p ELSE k
        /\ \A i \in 1 .. Len(c) : c[i] = t[p + i]
    <3>1. t \in Seq(Tokens) /\ p \in Nat /\ k \in Nat /\ p <= Len(t)
      BY <1>9, <2>4, <2>5
    <3> HIDE DEF k
    <3> QED BY <3>1, SliceIs
  <2> HIDE DEF a, b, c
  <2>9. Len(a) = Len(b) /\ Len(a) <= ResponseLength
    BY <2>3, <2>4, <2>5, <2>6, <2>7
  <2>10. IsPrefix(a, c)
    <3>1. Len(c) = Len(t) - p
      BY <2>4, <2>5, <2>8
    <3>2. Len(a) <= Len(c) /\ Len(a) \in Nat /\ Len(c) \in Nat
      BY <2>4, <2>5, <2>6, <3>1
    <3>3. \A i \in 1 .. Len(a) : a[i] = c[i]
      <4> SUFFICES ASSUME NEW i \in 1 .. Len(a) PROVE a[i] = c[i]
        OBVIOUS
      <4>1. i \in 1 .. Len(c)
        BY <3>2
      <4>2. a[i] = t[p + i] /\ c[i] = t[p + i]
        BY <2>6, <2>8, <4>1
      <4> QED BY <4>2
    <3> QED BY <2>6, <2>8, <3>2, <3>3, PrefixByElements
  <2>11. q.ids = t /\ q.response = a /\ q.response_loss = b /\ q.prompt = p
         /\ Slice(q.ids, q.prompt, Len(q.ids)) = c /\ q.max_model_len = cut
    BY <1>2 DEF a, b, c, f, p
  <2> QED BY <1>6, <1>10, <2>1, <2>2, <2>9, <2>10, <2>11 DEF AsRendered
<1>15. Worded(q)
  <2>1. ~Severed(q)
    BY <1>2, <1>4 DEF Severed
  <2> QED BY <1>2, <1>14, <2>1 DEF Worded
<1>16. Passing(q)
  <2>1. Len(q.ids) <= MaxModelLen
    BY <1>2, <1>3, <1>11
  <2> QED BY <1>2, <2>1 DEF Passing
<1>17. ASSUME NEW any PROVE CountFor(q, any)
  <2> SUFFICES ASSUME "search" \in q.kwargs
               PROVE  \/ q.scores["search"] = Cardinality(FoundIn(q.messages))
                      \/ Len(Retold(q)) >= MaxModelLen
    BY <1>2 DEF CountFor
  <2>1. q.scores["search"] = n
    BY <1>2
  <2>2. \/ n = Cardinality(FoundIn(req.messages)) + Cardinality(Unsaid(req.calls))
        \/ Len(whole) >= MaxModelLen
    BY <1>2 DEF CountFor, whole
  <2>3. Cardinality(Unsaid(req.calls)) = 0
    <3>1. req.calls = <<>>
      BY <1>1 DEF Formed
    <3>2. \A i \in DOMAIN req.calls : req.calls[i].result # "ok"
      BY <3>1
    <3> QED BY <3>2, NothingUnsaid
  <2>4. Cardinality(FoundIn(req.messages)) \in Nat
    BY <1>1, FoundIsFinite DEF Listed
  <2> DEFINE found == Cardinality(FoundIn(req.messages))
             unsaid == Cardinality(Unsaid(req.calls))
  <2>5. found \in Nat /\ unsaid = 0 /\ (n = found + unsaid \/ Len(whole) >= MaxModelLen)
    BY <2>2, <2>3, <2>4
  <2>6. found = Cardinality(FoundIn(q.messages))
    BY <1>2
  <2> HIDE DEF found, unsaid
  <2>7. n = found \/ Len(whole) >= MaxModelLen
    BY <2>5
  <2> QED BY <1>6, <2>1, <2>6, <2>7
<1> QED BY <1>2, <1>13, <1>15, <1>16, <1>17 DEF RequestInv, Ends

-----------------------------------------------------------------------------
(* The steps of the rollout.                                               *)

LEMMA PutChanges ==
  ASSUME NEW r \in DOMAIN reqs, NEW q, Put(r, q)
  PROVE  /\ DOMAIN reqs' = DOMAIN reqs /\ reqs'[r] = q
         /\ \A s \in DOMAIN reqs : s # r => reqs'[s] = reqs[s]
  BY DEF Put

\* A step of one request, by what it does to the instances and the calls.
LEMMA MovesKeep ==
  ASSUME RolloutInv, phase = "running", UNCHANGED phase, NEW r \in DOMAIN reqs, NEW q, Put(r, q),
         RequestInv(q), BucketInv', UnderWay', instances' \in [Alive' -> Nat],
         CountFor(q, instances'[<<"search", r>>]),
         \A s \in DOMAIN reqs : s # r /\ <<"search", s>> \in Alive =>
           instances'[<<"search", s>>] = instances[<<"search", s>>]
  PROVE  RolloutInv'
<1>1. /\ DOMAIN reqs' = DOMAIN reqs /\ reqs'[r] = q
      /\ \A s \in DOMAIN reqs : s # r => reqs'[s] = reqs[s]
  BY PutChanges
<1>2. \A s \in DOMAIN reqs' : RequestInv(reqs'[s])
  BY <1>1 DEF RolloutInv
<1>3. ASSUME NEW s \in DOMAIN reqs PROVE CountFor(reqs'[s], instances'[<<"search", s>>])
  <2>1. CASE s = r
    BY <1>1, <2>1
  <2>2. CASE s # r
    <3>1. reqs'[s] = reqs[s] /\ CountFor(reqs[s], instances[<<"search", s>>])
      BY <1>1, <2>2 DEF RolloutInv
    <3>2. CASE <<"search", s>> \in Alive
      BY <2>2, <3>1, <3>2
    <3>3. CASE <<"search", s>> \notin Alive
      <4>1. "search" \in reqs[s].kwargs => reqs[s].at \in {"created", "done"}
        <5>1. reqs[s].kwargs \subseteq Tools
          BY DEF RolloutInv, RequestInv, Formed
        <5> QED BY <3>3, <5>1 DEF Alive
      <4> DEFINE p == reqs[s]
                 a == instances[<<"search", s>>]
                 b == instances'[<<"search", s>>]
      <4>2. CountFor(p, a) /\ ("search" \in p.kwargs => p.at \in {"created", "done"})
        BY <3>1, <4>1
      <4> HIDE DEF p, a, b
      <4>3. CountFor(p, b)
        BY <4>2 DEF CountFor
      <4> QED BY <3>1, <4>3 DEF p, b
    <3> QED BY <3>2, <3>3
  <2> QED BY <2>1, <2>2
<1>4. \A s \in DOMAIN reqs' : CountFor(reqs'[s], instances'[<<"search", s>>])
  BY <1>1, <1>3
<1>5. DOMAIN reqs' \subseteq Rows /\ phase' = "running" /\ FailsFromOutside'
  BY <1>1 DEF RolloutInv, FailsFromOutside
<1> QED BY <1>2, <1>4, <1>5 DEF RolloutInv

\* A step that ends the batch with an error.
LEMMA RaiseKeeps ==
  ASSUME RolloutInv, NEW what \in {"no room", "prompt cut", "tool without kwargs", "sandbox failed"},
         Raise(what), BucketInv', UnderWay'
  PROVE  RolloutInv'
<1>1. phase' = what /\ reqs' = reqs /\ instances' = instances
  BY DEF Raise
<1>2. Alive' = Alive
  BY <1>1 DEF Alive
<1>3. FailsFromOutside' /\ phase' # "idle" /\ phase' # "returned"
  BY <1>1 DEF FailsFromOutside
<1> QED BY <1>1, <1>2, <1>3 DEF RolloutInv

\* The calls under way are those of other requests.
LEMMA UnderWayStays ==
  ASSUME UnderWay, UNCHANGED stage, NEW r \in DOMAIN reqs, NEW q, Put(r, q),
         \A c \in Calls : stage[c] # "none" => c[1] # r
  PROVE  UnderWay'
<1>1. /\ DOMAIN reqs' = DOMAIN reqs
      /\ \A s \in DOMAIN reqs : s # r => reqs'[s] = reqs[s]
  BY PutChanges
<1>2. stage' = stage
  OBVIOUS
<1> QED BY <1>1, <1>2 DEF UnderWay

LEMMA NoneUnderWay ==
  ASSUME UnderWay, NEW r \in DOMAIN reqs, reqs[r].at # "tools"
  PROVE  \A c \in Calls : stage[c] # "none" => c[1] # r
  BY DEF UnderWay

\* A request that has its instances keeps them, one that has none gets none.
LEMMA AliveStays ==
  ASSUME NEW r \in DOMAIN reqs, NEW q, Put(r, q), q.kwargs = reqs[r].kwargs,
         q.at \in {"created", "done"} <=> reqs[r].at \in {"created", "done"}
  PROVE  Alive' = Alive
<1>1. /\ DOMAIN reqs' = DOMAIN reqs /\ reqs'[r] = q
      /\ \A s \in DOMAIN reqs : s # r => reqs'[s] = reqs[s]
  BY PutChanges
<1>2. \A s \in DOMAIN reqs : /\ reqs'[s].kwargs = reqs[s].kwargs
                             /\ reqs'[s].at \in {"created", "done"} <=> reqs[s].at \in {"created", "done"}
  BY <1>1
<1> QED BY <1>1, <1>2 DEF Alive

LEMMA CreateToolsKeeps ==
  ASSUME RolloutInv, NEW r, CreateTools(r) PROVE RolloutInv'
<1> DEFINE req == reqs[r]
           q == [req EXCEPT !.state = "RUNNING", !.at = "ready"]
<1>1. /\ phase = "running" /\ r \in DOMAIN reqs /\ req.at = "created" /\ Put(r, q)
      /\ instances' = [i \in DOMAIN instances \cup InstancesOf(r) |->
                         IF i \in InstancesOf(r) THEN 0 ELSE instances[i]]
      /\ UNCHANGED phase /\ UNCHANGED bucket
  BY DEF CreateTools, Live
<1>2. RequestInv(req)
  BY <1>1 DEF RolloutInv
<1>3. RequestInv(q) /\ q.at = "ready" /\ q.kwargs = req.kwargs /\ CountFor(q, 0)
  <2> HIDE DEF req
  <2>1. req.at = "created"
    BY <1>1
  <2> QED BY <1>2, <2>1, CreateToolsMoves
<1> HIDE DEF q
<1>4. BucketInv' /\ UNCHANGED stage /\ UnderWay
  BY <1>1, StutterKeeps DEF RolloutInv, bucket
<1>5. UnderWay'
  <2>1. reqs[r].at # "tools"
    BY <1>1
  <2>2. \A c \in Calls : stage[c] # "none" => c[1] # r
    BY <1>1, <1>4, <2>1, NoneUnderWay
  <2> QED BY <1>1, <1>4, <2>2, UnderWayStays
<1>6. /\ DOMAIN reqs' = DOMAIN reqs /\ reqs'[r] = q
      /\ \A s \in DOMAIN reqs : s # r => reqs'[s] = reqs[s]
  BY <1>1, PutChanges
<1>7. req.kwargs \subseteq Tools
  BY <1>2 DEF RequestInv, Formed
<1>8. Alive' = Alive \cup InstancesOf(r) /\ Alive \cap InstancesOf(r) = {}
  BY <1>1, <1>3, <1>6, <1>7 DEF Alive, InstancesOf
<1>9. instances \in [Alive -> Nat]
  BY DEF RolloutInv
<1>10. instances' = [i \in Alive' |-> IF i \in InstancesOf(r) THEN 0 ELSE instances[i]]
  BY <1>1, <1>8, <1>9
<1>11. instances' \in [Alive' -> Nat]
  BY <1>8, <1>9, <1>10
<1>12. CountFor(q, instances'[<<"search", r>>])
  <2>1. CASE "search" \in req.kwargs
    <3>1. <<"search", r>> \in InstancesOf(r)
      BY <2>1 DEF InstancesOf
    <3>2. instances'[<<"search", r>>] = 0
      BY <1>8, <1>10, <3>1
    <3> QED BY <1>3, <3>2
  <2>2. CASE "search" \notin req.kwargs
    BY <1>3, <2>2 DEF CountFor
  <2> QED BY <2>1, <2>2
<1>13. \A s \in DOMAIN reqs : s # r /\ <<"search", s>> \in Alive =>
           instances'[<<"search", s>>] = instances[<<"search", s>>]
  BY <1>8, <1>10
<1> QED BY <1>1, <1>3, <1>4, <1>5, <1>11, <1>12, <1>13, MovesKeep

LEMMA CallEngineKeeps ==
  ASSUME RolloutInv, NEW r, CallEngine(r) PROVE RolloutInv'
<1> DEFINE req == reqs[r]
           saved == Restrict(sampling, DOMAIN Wanted)
           q == [req EXCEPT !.at = "engine", !.saved = saved]
           n == instances[<<"search", r>>]
<1>1. phase = "running" /\ r \in DOMAIN reqs /\ req.at = "ready" /\ UNCHANGED bucket
  BY DEF CallEngine, Live
<1>2. RequestInv(req) /\ CountFor(req, n) /\ UnderWay
  BY <1>1 DEF RolloutInv
<1>3. BucketInv' /\ UNCHANGED stage
  BY <1>1, StutterKeeps DEF RolloutInv, bucket
<1>4. CASE MaxNewTokens(req) < 0
  <2>1. Raise("no room")
    BY <1>4 DEF CallEngine
  <2>2. UnderWay'
    BY <1>2, <1>3, <2>1 DEF UnderWay, Raise
  <2> QED BY <1>3, <2>1, <2>2, RaiseKeeps
<1>5. CASE ~(MaxNewTokens(req) < 0)
  <2>1. Put(r, q) /\ UNCHANGED <<phase, instances>>
    BY <1>5 DEF CallEngine
  <2>2. MaxNewTokens(req) >= 0
    <3>1. Listed(req)
      BY <1>2 DEF RequestInv, Formed
    <3>2. MaxNewTokens(req) \in Int
      BY <3>1, MaxNewTokensType
    <3> QED BY <1>5, <3>2
  <2>3. RequestInv(q) /\ q.at = "engine" /\ q.kwargs = req.kwargs /\ CountFor(q, n)
    <3> HIDE DEF req, n, saved
    <3> QED BY <1>1, <1>2, <2>2, CallEngineMoves
  <2> HIDE DEF q
  <2>4. UnderWay'
    <3>1. reqs[r].at # "tools"
      BY <1>1
    <3>2. \A c \in Calls : stage[c] # "none" => c[1] # r
      BY <1>1, <1>2, <3>1, NoneUnderWay
    <3> QED BY <1>1, <1>2, <1>3, <2>1, <3>2, UnderWayStays
  <2>5. Alive' = Alive
    BY <1>1, <2>1, <2>3, AliveStays
  <2>6. instances' = instances /\ instances' \in [Alive' -> Nat]
    BY <2>1, <2>5 DEF RolloutInv
  <2>7. CountFor(q, instances'[<<"search", r>>])
    BY <2>3, <2>6
  <2> QED BY <1>1, <1>3, <2>1, <2>3, <2>4, <2>6, <2>7, MovesKeep
<1> QED BY <1>4, <1>5

\* A call is a request, a place in its list and a tool.
LEMMA CallsAre ==
  /\ \A c \in Calls : c = <<c[1], c[2], c[3]>> /\ c[1] \in Rows /\ c[2] \in 1 .. MaxCalls /\ c[3] \in Tools
  /\ \A r \in Rows, i \in 1 .. MaxCalls, tool \in Tools : <<r, i, tool>> \in Calls
  BY RolloutAssumption

\* The calls of an answer go to the pools.
LEMMA SubmitUnderWay ==
  ASSUME UnderWay, NEW r \in DOMAIN reqs, reqs[r].at # "tools", NEW q, Put(r, q),
         NEW calls, q.calls = calls, calls # <<>> => q.at = "tools", DOMAIN <<>> = {},
         Submit(Places(r, calls))
  PROVE  UnderWay'
<1>1. \A c \in Calls : stage[c] # "none" => c[1] # r
  BY NoneUnderWay
<1>2. /\ DOMAIN reqs' = DOMAIN reqs /\ reqs'[r] = q
      /\ \A s \in DOMAIN reqs : s # r => reqs'[s] = reqs[s]
  BY PutChanges
<1>3. SUFFICES ASSUME NEW c \in Calls, stage'[c] # "none"
               PROVE  /\ c[1] \in DOMAIN reqs' /\ reqs'[c[1]].at = "tools"
                      /\ c[2] \in DOMAIN reqs'[c[1]].calls
                      /\ reqs'[c[1]].calls[c[2]].tool = c[3]
                      /\ reqs'[c[1]].calls[c[2]].result = "asked"
  BY DEF UnderWay
<1>4. stage'[c] = IF c \in Places(r, calls) THEN "submitted" ELSE stage[c]
  BY DEF Submit
<1>5. CASE c \in Places(r, calls)
  <2>1. PICK i \in DOMAIN calls : calls[i].result = "asked" /\ c = <<r, i, calls[i].tool>>
    BY <1>5 DEF Places
  <2>2. c[1] = r /\ c[2] = i /\ c[3] = calls[i].tool
    BY <2>1
  <2>3. calls # <<>>
    BY <2>1
  <2> QED BY <1>2, <2>1, <2>2, <2>3
<1>6. CASE c \notin Places(r, calls)
  <2>1. stage[c] # "none"
    BY <1>3, <1>4, <1>6
  <2>2. c[1] # r /\ c[1] \in DOMAIN reqs
    BY <1>1, <2>1 DEF UnderWay
  <2>3. reqs'[c[1]] = reqs[c[1]]
    BY <1>2, <2>2
  <2> QED BY <1>2, <2>1, <2>2, <2>3 DEF UnderWay
<1> QED BY <1>5, <1>6

LEMMA AnswerKeeps ==
  ASSUME RolloutInv, NEW r, Answer(r) PROVE RolloutInv'
<1> DEFINE req == reqs[r]
           n == instances[<<"search", r>>]
<1>1. phase = "running" /\ r \in DOMAIN reqs /\ req.at = "engine"
  BY DEF Answer, Live
<1>2. RequestInv(req) /\ CountFor(req, n) /\ UnderWay /\ BucketInv
  BY <1>1 DEF RolloutInv
<1>3. PICK answer \in Answers(req) : TakeAnswer(r, answer)
  BY DEF Answer, Answers
<1> DEFINE calls == Asked(req, answer)
           q == TookAnswer(req, answer)
           Cut == Raise("prompt cut") /\ UNCHANGED bucket
           Bad == Raise("tool without kwargs") /\ UNCHANGED bucket
           Good == Put(r, q) /\ Submit(Places(r, calls)) /\ UNCHANGED <<phase, instances>>
           bad == \E i \in DOMAIN calls : calls[i].tool \notin req.kwargs
<1>4. Cut \/ Bad \/ (CanAddAssistant(req) /\ ~bad /\ Good)
  <2>1. CASE ~CanAddAssistant(req) \/ bad
    <3>1. TakeAnswer(r, answer)
      BY <1>3
    <3>2. Cut \/ Bad
      BY <2>1, <3>1 DEF TakeAnswer, Asked
    <3> QED BY <3>2
  <2>2. CASE CanAddAssistant(req) /\ ~bad
    <3>1. Good
      BY <1>3, <2>2 DEF TakeAnswer, TookAnswer, Asked
    <3> QED BY <2>2, <3>1
  <2> QED BY <2>1, <2>2
<1>5. CASE Cut \/ Bad
  <2>1. PICK what \in {"no room", "prompt cut", "tool without kwargs", "sandbox failed"} : Raise(what)
    BY <1>5
  <2>2. UNCHANGED bucket
    BY <1>5
  <2>3. BucketInv'
    BY <1>2, <2>2, StutterKeeps
  <2>4. UnderWay'
    BY <1>2, <2>1, <2>2 DEF UnderWay, Raise, bucket
  <2> QED BY <2>1, <2>3, <2>4, RaiseKeeps
<1>6. CASE CanAddAssistant(req) /\ ~bad /\ Good
  <2>1. CanAddAssistant(req) /\ \A i \in DOMAIN calls : calls[i].tool \in req.kwargs
    BY <1>6
  <2>2. Put(r, q) /\ Submit(Places(r, calls)) /\ UNCHANGED <<phase, instances>>
    BY <1>6
  <2>3. /\ RequestInv(q) /\ q.at \in {"tools", "finishing"} /\ q.kwargs = req.kwargs
        /\ q.calls = calls /\ (q.at = "tools" <=> calls # <<>>) /\ CountFor(q, n)
    <3>1. RequestInv(req) /\ req.at = "engine" /\ CountFor(req, n) /\ answer \in Answers(req)
      BY <1>1, <1>2
    <3>2. Waits(req, calls, n, q)
      <4> HIDE DEF req, n
      <4> QED BY <2>1, <3>1, AnswerMoves
    <3> QED BY <3>2 DEF Waits
  <2> HIDE DEF q, calls
  <2>4. BucketInv'
    <3> DEFINE asked == Places(r, calls)
    <3>1. Submit(asked)
      BY <2>2
    <3> HIDE DEF asked
    <3> QED BY <1>2, <3>1, SubmitKeeps
  <2>5. UnderWay'
    <3>1. reqs[r].at # "tools" /\ r \in DOMAIN reqs /\ DOMAIN <<>> = {}
      BY <1>1
    <3>2. calls # <<>> => q.at = "tools"
      BY <2>3
    <3> QED BY <1>2, <2>2, <2>3, <3>1, <3>2, SubmitUnderWay
  <2>6. Alive' = Alive
    <3>1. q.at \in {"created", "done"} <=> reqs[r].at \in {"created", "done"}
      BY <1>1, <2>3
    <3> QED BY <1>1, <2>2, <2>3, <3>1, AliveStays
  <2>7. instances' = instances /\ instances' \in [Alive' -> Nat]
    BY <2>2, <2>6 DEF RolloutInv
  <2>8. CountFor(q, instances'[<<"search", r>>])
    BY <2>3, <2>7
  <2> QED BY <1>1, <2>2, <2>3, <2>4, <2>5, <2>7, <2>8, MovesKeep
<1> QED BY <1>4, <1>5, <1>6

LEMMA RespondKeeps ==
  ASSUME RolloutInv, NEW r, Respond(r) PROVE RolloutInv'
<1> DEFINE req == reqs[r]
           n == instances[<<"search", r>>]
           grown == Responses(req)
           q == IF Len(grown.ids) >= MaxModelLen
                THEN [grown EXCEPT !.calls = <<>>, !.reason = "stop", !.at = "finishing"]
                ELSE [grown EXCEPT !.calls = <<>>, !.state = "RUNNING", !.at = "ready"]
<1>1. /\ phase = "running" /\ r \in DOMAIN reqs /\ req.at = "tools"
      /\ \A i \in DOMAIN req.calls : req.calls[i].result # "asked"
  BY DEF Respond, Live
<1>2. RequestInv(req) /\ CountFor(req, n) /\ UnderWay /\ BucketInv
  BY <1>1 DEF RolloutInv
<1>3. CanAddToolResponse(req)
  BY <1>1, <1>2 DEF RequestInv, Worded, Closed, LastId, CanAddToolResponse, EndsWith, Closing
<1>4. Put(r, q) /\ UNCHANGED <<phase, instances>> /\ UNCHANGED bucket
  BY <1>3 DEF Respond
<1>5. /\ RequestInv(q) /\ q.at \in {"ready", "finishing"} /\ q.kwargs = req.kwargs /\ CountFor(q, n)
  <2>1. grown = Responses(req)
    OBVIOUS
  <2>2. q = IF Len(grown.ids) >= MaxModelLen
            THEN [grown EXCEPT !.calls = <<>>, !.reason = "stop", !.at = "finishing"]
            ELSE [grown EXCEPT !.calls = <<>>, !.state = "RUNNING", !.at = "ready"]
    OBVIOUS
  <2>3. req.at = "tools"
    BY <1>1
  <2> HIDE DEF req, n, grown, q
  <2> QED BY <1>2, <2>1, <2>2, <2>3, RespondMoves
<1> HIDE DEF q
<1>6. BucketInv' /\ UNCHANGED stage
  BY <1>2, <1>4, StutterKeeps DEF bucket
<1>7. UnderWay'
  <2>1. \A c \in Calls : stage[c] # "none" => c[1] # r
    BY <1>1, <1>2 DEF UnderWay
  <2> QED BY <1>1, <1>2, <1>4, <1>6, <2>1, UnderWayStays
<1>8. Alive' = Alive
  <2>1. q.at \in {"created", "done"} <=> reqs[r].at \in {"created", "done"}
    BY <1>1, <1>5
  <2> QED BY <1>1, <1>4, <1>5, <2>1, AliveStays
<1>9. instances' = instances /\ instances' \in [Alive' -> Nat]
  BY <1>4, <1>8 DEF RolloutInv
<1>10. CountFor(q, instances'[<<"search", r>>])
  BY <1>5, <1>9
<1> QED BY <1>1, <1>4, <1>5, <1>6, <1>7, <1>9, <1>10, MovesKeep

\* The result of a call is taken, and that call only.
LEMMA TakeUnderWay ==
  ASSUME UnderWay, NEW r \in DOMAIN reqs, reqs[r].at = "tools", NEW i \in DOMAIN reqs[r].calls,
         NEW c, c = <<r, i, reqs[r].calls[i].tool>>, Take({c}),
         DOMAIN reqs' = DOMAIN reqs, \A s \in DOMAIN reqs : s # r => reqs'[s] = reqs[s],
         reqs'[r].at = "tools", DOMAIN reqs'[r].calls = DOMAIN reqs[r].calls,
         \A j \in DOMAIN reqs[r].calls : j # i => reqs'[r].calls[j] = reqs[r].calls[j]
  PROVE  UnderWay'
<1> SUFFICES ASSUME NEW d \in Calls, stage'[d] # "none"
             PROVE  /\ d[1] \in DOMAIN reqs' /\ reqs'[d[1]].at = "tools"
                    /\ d[2] \in DOMAIN reqs'[d[1]].calls
                    /\ reqs'[d[1]].calls[d[2]].tool = d[3]
                    /\ reqs'[d[1]].calls[d[2]].result = "asked"
  BY DEF UnderWay
<1>1. stage'[d] = IF d = c THEN "none" ELSE stage[d]
  BY DEF Take
<1>2. d # c /\ stage[d] # "none"
  BY <1>1
<1>3. /\ d[1] \in DOMAIN reqs /\ reqs[d[1]].at = "tools"
      /\ d[2] \in DOMAIN reqs[d[1]].calls
      /\ reqs[d[1]].calls[d[2]].tool = d[3] /\ reqs[d[1]].calls[d[2]].result = "asked"
  BY <1>2 DEF UnderWay
<1>4. CASE d[1] # r
  <2>1. reqs'[d[1]] = reqs[d[1]]
    BY <1>3, <1>4
  <2> QED BY <1>3, <2>1
<1>5. CASE d[1] = r
  <2>1. d[2] # i
    <3> SUFFICES ASSUME d[2] = i PROVE FALSE
      OBVIOUS
    <3>1. d[3] = reqs[r].calls[i].tool
      BY <1>3, <1>5
    <3>2. d = <<d[1], d[2], d[3]>>
      BY CallsAre
    <3>3. d = c
      BY <1>5, <3>1, <3>2
    <3> QED BY <1>2, <3>3
  <2>2. reqs'[r].calls[d[2]] = reqs[r].calls[d[2]]
    BY <1>3, <1>5, <2>1
  <2> QED BY <1>3, <1>5, <2>2
<1> QED BY <1>4, <1>5

LEMMA ToolAnswersKeeps ==
  ASSUME RolloutInv, NEW r, NEW i, ToolAnswers(r, i) PROVE RolloutInv'
<1> DEFINE req == reqs[r]
           n == instances[<<"search", r>>]
           tool == req.calls[i].tool
           c == <<r, i, tool>>
           x == stage[c]
           q == [req EXCEPT !.calls[i].result = x]
           m == IF tool = "search" /\ x = "ok" THEN n + 1 ELSE n
<1>1. /\ phase = "running" /\ r \in DOMAIN reqs /\ req.at = "tools" /\ i \in DOMAIN req.calls
      /\ req.calls[i].result = "asked" /\ Take({c})
  BY DEF ToolAnswers, Live
<1>2. RequestInv(req) /\ CountFor(req, n) /\ UnderWay /\ BucketInv
  BY <1>1 DEF RolloutInv
<1>3. x \in {"ok", "failed"}
  BY <1>1 DEF Take
<1>4. BucketInv'
  <2> DEFINE taken == {c}
  <2>1. Take(taken)
    BY <1>1
  <2> HIDE DEF taken
  <2> QED BY <1>2, <2>1, TakeKeeps
<1>5. CASE tool = "sandbox" /\ x = "failed"
  <2>1. Raise("sandbox failed")
    BY <1>5 DEF ToolAnswers
  <2>2. reqs' = reqs
    BY <2>1 DEF Raise
  <2>3. UnderWay'
    <3>1. /\ DOMAIN reqs' = DOMAIN reqs /\ \A s \in DOMAIN reqs : s # r => reqs'[s] = reqs[s]
          /\ reqs'[r].at = "tools" /\ DOMAIN reqs'[r].calls = DOMAIN reqs[r].calls
          /\ \A j \in DOMAIN reqs[r].calls : j # i => reqs'[r].calls[j] = reqs[r].calls[j]
      BY <1>1, <2>2
    <3>2. c = <<r, i, reqs[r].calls[i].tool>>
      OBVIOUS
    <3> HIDE DEF c, x, q
    <3> QED BY <1>1, <1>2, <3>1, <3>2, TakeUnderWay
  <2> QED BY <1>4, <2>1, <2>3, RaiseKeeps
<1>6. CASE ~(tool = "sandbox" /\ x = "failed")
  <2>1. /\ Put(r, q) /\ UNCHANGED phase
        /\ instances' = IF tool = "search" THEN Kept(r, x) ELSE instances
    BY <1>6 DEF ToolAnswers
  <2>2. /\ RequestInv(q) /\ q.at = "tools" /\ q.kwargs = req.kwargs /\ CountFor(q, m)
        /\ DOMAIN q.calls = DOMAIN req.calls
        /\ \A j \in DOMAIN req.calls : j # i => q.calls[j] = req.calls[j]
    <3>1. m = IF req.calls[i].tool = "search" /\ x = "ok" THEN n + 1 ELSE n
      OBVIOUS
    <3>2. q = [req EXCEPT !.calls[i].result = x]
      OBVIOUS
    <3>3. req.at = "tools" /\ i \in DOMAIN req.calls /\ req.calls[i].result = "asked"
      BY <1>1
    <3> HIDE DEF req, n, m, q, x
    <3> QED BY <1>2, <1>3, <3>1, <3>2, <3>3, ToolAnswersMoves
  <2>3. /\ DOMAIN reqs' = DOMAIN reqs /\ reqs'[r] = q
        /\ \A s \in DOMAIN reqs : s # r => reqs'[s] = reqs[s]
    <3> HIDE DEF q
    <3> QED BY <1>1, <2>1, PutChanges
  <2> HIDE DEF q
  <2>4. UnderWay'
    <3>1. /\ reqs'[r].at = "tools" /\ DOMAIN reqs'[r].calls = DOMAIN reqs[r].calls
          /\ \A j \in DOMAIN reqs[r].calls : j # i => reqs'[r].calls[j] = reqs[r].calls[j]
      BY <2>2, <2>3
    <3>2. c = <<r, i, reqs[r].calls[i].tool>>
      OBVIOUS
    <3> HIDE DEF c, x
    <3> QED BY <1>1, <1>2, <2>3, <3>1, <3>2, TakeUnderWay
  <2>5. Alive' = Alive
    <3>1. q.at \in {"created", "done"} <=> reqs[r].at \in {"created", "done"}
      BY <1>1, <2>2
    <3> QED BY <1>1, <2>1, <2>2, <3>1, AliveStays
  <2>6. instances \in [Alive -> Nat]
    BY DEF RolloutInv
  <2>7. tool \in req.kwargs /\ req.kwargs \subseteq Tools
    BY <1>1, <1>2 DEF RequestInv, Formed
  <2>8. <<tool, r>> \in Alive
    BY <1>1, <2>7 DEF Alive
  <2>9. CASE tool = "search" /\ x = "ok"
    <3>1. instances' = [instances EXCEPT ![<<"search", r>>] = instances[<<"search", r>>] + 1]
      BY <2>1, <2>9 DEF Kept
    <3>2. instances[<<"search", r>>] \in Nat /\ <<"search", r>> \in Alive
      BY <2>6, <2>8, <2>9
    <3>3. instances' \in [Alive' -> Nat] /\ instances'[<<"search", r>>] = m
      BY <2>5, <2>6, <2>9, <3>1, <3>2
    <3>4. \A s \in DOMAIN reqs : s # r /\ <<"search", s>> \in Alive =>
           instances'[<<"search", s>>] = instances[<<"search", s>>]
      BY <2>6, <3>1
    <3>5. CountFor(q, instances'[<<"search", r>>])
      <4> HIDE DEF m
      <4> QED BY <2>2, <3>3
    <3> QED BY <1>1, <1>4, <2>1, <2>2, <2>4, <3>3, <3>4, <3>5, MovesKeep
  <2>10. CASE ~(tool = "search" /\ x = "ok")
    <3>1. instances' = instances /\ m = n
      BY <2>1, <2>10 DEF Kept
    <3>2. instances' \in [Alive' -> Nat]
      BY <2>5, <2>6, <3>1
    <3>3. CountFor(q, instances'[<<"search", r>>])
      <4> HIDE DEF m
      <4> QED BY <2>2, <3>1
    <3> QED BY <1>1, <1>4, <2>1, <2>2, <2>4, <3>1, <3>2, <3>3, MovesKeep
  <2> QED BY <2>9, <2>10
<1> QED BY <1>5, <1>6

LEMMA FinishKeeps ==
  ASSUME RolloutInv, NEW r, Finish(r) PROVE RolloutInv'
<1> DEFINE req == reqs[r]
           n == instances[<<"search", r>>]
           scores == [tool \in req.kwargs |-> instances[<<tool, r>>]]
           q == Finished(req, scores)
<1>1. phase = "running" /\ r \in DOMAIN reqs /\ req.at = "finishing"
  BY DEF Finish, Live
<1>2. RequestInv(req) /\ CountFor(req, n) /\ UnderWay /\ BucketInv /\ instances \in [Alive -> Nat]
  BY <1>1 DEF RolloutInv
<1>3. req.kwargs \subseteq Tools
  BY <1>2 DEF RequestInv, Formed
<1>4. InstancesOf(r) \subseteq Alive
  BY <1>1, <1>3 DEF InstancesOf, Alive
<1>5. InstancesOf(r) \subseteq DOMAIN instances
  BY <1>2, <1>4
<1>6. Reason(req) \in {"stop", "length"}
  BY <1>1, <1>2 DEF RequestInv, Passing, Reason
<1>7. /\ instances' = Restrict(instances, DOMAIN instances \ InstancesOf(r))
      /\ Put(r, q) /\ UNCHANGED phase
  BY <1>5, <1>6 DEF Finish, Released, Finished
<1>8. RequestInv(q) /\ q.at = "done" /\ q.kwargs = req.kwargs /\ \A any : CountFor(q, any)
  <2>1. "search" \in req.kwargs => scores["search"] = n
    OBVIOUS
  <2>2. RequestInv(req) /\ CountFor(req, n) /\ req.at = "finishing"
    BY <1>1, <1>2
  <2>3. Ends(req, q)
    <3> HIDE DEF req, n, scores
    <3> QED BY <2>1, <2>2, FinishMoves
  <2> QED BY <2>3 DEF Ends
<1> HIDE DEF q
<1>9. BucketInv' /\ UNCHANGED stage
  <2>1. UNCHANGED bucket
    BY DEF Finish
  <2> QED BY <1>2, <2>1, StutterKeeps DEF bucket
<1>10. UnderWay'
  <2>1. reqs[r].at # "tools"
    BY <1>1
  <2>2. \A c \in Calls : stage[c] # "none" => c[1] # r
    BY <1>1, <1>2, <2>1, NoneUnderWay
  <2> QED BY <1>1, <1>2, <1>7, <1>9, <2>2, UnderWayStays
<1>11. /\ DOMAIN reqs' = DOMAIN reqs /\ reqs'[r] = q
       /\ \A s \in DOMAIN reqs : s # r => reqs'[s] = reqs[s]
  BY <1>1, <1>7, PutChanges
<1>12. Alive' = Alive \ InstancesOf(r)
  BY <1>1, <1>8, <1>11 DEF Alive, InstancesOf
<1>13. instances' = [i \in Alive' |-> instances[i]]
  BY <1>2, <1>7, <1>12 DEF Restrict
<1>14. instances' \in [Alive' -> Nat]
  BY <1>2, <1>12, <1>13
<1>15. \A s \in DOMAIN reqs : s # r /\ <<"search", s>> \in Alive =>
           instances'[<<"search", s>>] = instances[<<"search", s>>]
  <2>1. \A s \in DOMAIN reqs : s # r => <<"search", s>> \notin InstancesOf(r)
    BY DEF InstancesOf
  <2> QED BY <1>12, <1>13, <2>1
<1>16. CountFor(q, instances'[<<"search", r>>])
  BY <1>8
<1> QED BY <1>1, <1>7, <1>8, <1>9, <1>10, <1>14, <1>15, <1>16, MovesKeep

LEMMA ReturnBatchKeeps ==
  ASSUME RolloutInv, ReturnBatch PROVE RolloutInv'
<1>1. /\ phase = "running" /\ \A r \in DOMAIN reqs : reqs[r].at = "done"
      /\ UNCHANGED <<reqs, instances>> /\ UNCHANGED bucket
  BY DEF ReturnBatch
<1>2. \A r \in DOMAIN reqs : /\ reqs[r].state = "COMPLETED" /\ Len(reqs[r].ids) <= MaxModelLen
                             /\ Len(reqs[r].ids) = Len(reqs[r].loss)
  <2> SUFFICES ASSUME NEW r \in DOMAIN reqs
               PROVE  /\ reqs[r].state = "COMPLETED" /\ Len(reqs[r].ids) <= MaxModelLen
                      /\ Len(reqs[r].ids) = Len(reqs[r].loss)
    OBVIOUS
  <2> DEFINE q == reqs[r]
  <2>1. RequestInv(q) /\ q.at = "done"
    BY <1>1 DEF RolloutInv
  <2> HIDE DEF q
  <2>2. q.state = "COMPLETED" /\ Len(q.ids) <= MaxModelLen
    BY <2>1 DEF RequestInv, Passing
  <2>3. q.ids \in Seq(Tokens) /\ q.loss = Said(q.ids)
    BY <2>1 DEF RequestInv, Formed, Listed
  <2>4. Len(q.ids) = Len(q.loss)
    BY <2>3 DEF Said
  <2> QED BY <2>2, <2>4 DEF q
<1>3. phase' = "returned"
  BY <1>1, <1>2 DEF ReturnBatch
<1>4. BucketInv' /\ UNCHANGED stage
  BY <1>1, StutterKeeps DEF RolloutInv, bucket
<1>5. Alive' = Alive /\ reqs' = reqs /\ instances' = instances
  BY <1>1 DEF Alive
<1>6. UnderWay'
  BY <1>4, <1>5 DEF RolloutInv, UnderWay
<1>7. FailsFromOutside'
  BY <1>3 DEF FailsFromOutside
<1> QED BY <1>1, <1>3, <1>4, <1>5, <1>6, <1>7 DEF RolloutInv

\* The threads only work on calls that are under way.
LEMMA PoolsKeep ==
  ASSUME RolloutInv, Pools PROVE RolloutInv'
<1>1. UNCHANGED <<phase, reqs, instances>> /\ BucketInv
  BY DEF Pools, RolloutInv
<1>2. /\ BucketInv'
      /\ \A c \in Calls : stage'[c] # "none" => stage[c] # "none"
  <2>1. CASE \E c \in Calls : Start(c)
    <3>1. PICK c \in Calls : Start(c)
      BY <2>1
    <3>2. BucketInv'
      BY <1>1, <3>1, StartKeeps
    <3>3. stage \in [Calls -> Stages] /\ stage[c] = "submitted" /\ stage' = [stage EXCEPT ![c] = "acquiring"]
      BY <1>1, <3>1 DEF Start, BucketInv, BucketTypes
    <3> QED BY <3>2, <3>3
  <2>2. CASE Acquire
    <3>1. BucketInv'
      BY <1>1, <2>2, AcquireKeeps
    <3>2. /\ stage \in [Calls -> Stages] /\ waiting \in Seq(Calls) /\ waiting # <<>>
          /\ stage' = [stage EXCEPT ![Head(waiting)] = "running"]
          /\ \A i \in DOMAIN waiting : stage[waiting[i]] = "acquiring"
      BY <1>1, <2>2 DEF Acquire, BucketInv, BucketTypes, TokensAreConserved
    <3>3. 1 \in DOMAIN waiting /\ Head(waiting) = waiting[1]
      BY <3>2
    <3>4. stage[Head(waiting)] = "acquiring"
      BY <3>2, <3>3
    <3> QED BY <3>1, <3>2, <3>4
  <2>3. CASE \E c \in Calls, answer \in {"ok", "failed"} : Return(c, answer)
    <3>1. PICK c \in Calls, answer \in {"ok", "failed"} : Return(c, answer)
      BY <2>3
    <3>2. BucketInv'
      BY <1>1, <3>1, ReturnKeeps
    <3>3. stage \in [Calls -> Stages] /\ stage[c] = "running" /\ stage' = [stage EXCEPT ![c] = answer]
      BY <1>1, <3>1 DEF Return, BucketInv, BucketTypes
    <3> QED BY <3>2, <3>3
  <2>4. CASE Release
    <3>1. BucketInv'
      BY <1>1, <2>4, ReleaseKeeps
    <3>2. stage' = stage
      BY <2>4 DEF Release
    <3> QED BY <3>1, <3>2
  <2> QED BY <2>1, <2>2, <2>3, <2>4 DEF Pools
<1>3. Alive' = Alive /\ reqs' = reqs /\ instances' = instances /\ phase' = phase
  BY <1>1 DEF Alive
<1>4. UnderWay'
  BY <1>2, <1>3 DEF RolloutInv, UnderWay
<1>5. FailsFromOutside'
  BY <1>3 DEF RolloutInv, FailsFromOutside
<1> QED BY <1>2, <1>3, <1>4, <1>5 DEF RolloutInv

LEMMA StartBatchKeeps ==
  ASSUME RolloutInv, StartBatch PROVE RolloutInv'
<1>1. phase = "idle" /\ reqs = <<>> /\ phase' = "running" /\ UNCHANGED <<instances>> /\ UNCHANGED bucket
  BY DEF StartBatch, RolloutInv
<1>2. PICK format \in Formats, texts \in [1 .. Prompts -> PromptTexts],
           kwargs \in [1 .. Prompts -> SUBSET Tools] :
        reqs' = [r \in {row \in Rows : mode' # "train" => row[2] = 1}
                   |-> NewRequest(format, texts[r[1]], kwargs[r[1]])]
  BY DEF StartBatch
<1>3. DOMAIN reqs' \subseteq Rows
  BY <1>2
<1>4. ASSUME NEW r \in DOMAIN reqs' PROVE RequestInv(reqs'[r]) /\ reqs'[r].at = "created"
  <2>1. r[1] \in 1 .. Prompts
    BY <1>3 DEF Rows
  <2>2. texts[r[1]] \in PromptTexts /\ kwargs[r[1]] \in SUBSET Tools
    BY <2>1
  <2>3. reqs'[r] = NewRequest(format, texts[r[1]], kwargs[r[1]])
    BY <1>2
  <2> QED BY <2>2, <2>3, NewRequestStarts
<1>5. DOMAIN reqs = {}
  BY <1>1
<1>6. Alive = {} /\ Alive' = {}
  BY <1>4, <1>5 DEF Alive
<1>7. instances' \in [Alive' -> Nat]
  BY <1>1, <1>6 DEF RolloutInv
<1>8. BucketInv' /\ UNCHANGED stage
  BY <1>1, StutterKeeps DEF RolloutInv, bucket
<1>9. UnderWay'
  BY <1>5, <1>8 DEF RolloutInv, UnderWay
<1>10. \A r \in DOMAIN reqs' : CountFor(reqs'[r], instances'[<<"search", r>>])
  <2> SUFFICES ASSUME NEW r \in DOMAIN reqs' PROVE CountFor(reqs'[r], instances'[<<"search", r>>])
    OBVIOUS
  <2> DEFINE q == reqs'[r]
             n == instances'[<<"search", r>>]
  <2>1. q.at = "created"
    BY <1>4
  <2> HIDE DEF q, n
  <2>2. CountFor(q, n)
    BY <2>1 DEF CountFor
  <2> QED BY <2>2 DEF q, n
<1>11. FailsFromOutside'
  BY <1>1 DEF FailsFromOutside
<1> QED BY <1>1, <1>3, <1>4, <1>7, <1>8, <1>9, <1>10, <1>11 DEF RolloutInv

LEMMA RolloutStarts ==
  ASSUME Init PROVE RolloutInv
<1>1. phase = "idle" /\ reqs = <<>> /\ instances = <<>> /\ BucketInit
  BY DEF Init
<1>2. BucketInv
  BY <1>1, BucketStarts
<1>3. DOMAIN reqs = {} /\ DOMAIN instances = {}
  BY <1>1
<1>4. Alive = {}
  BY <1>3 DEF Alive
<1>5. instances \in [Alive -> Nat]
  BY <1>1, <1>3, <1>4
<1>6. UnderWay
  BY <1>1 DEF BucketInit, UnderWay
<1>7. FailsFromOutside
  BY <1>1 DEF FailsFromOutside
<1> QED BY <1>1, <1>2, <1>3, <1>5, <1>6, <1>7 DEF RolloutInv

LEMMA RolloutStutters ==
  ASSUME RolloutInv, UNCHANGED vars PROVE RolloutInv'
<1>1. phase' = phase /\ reqs' = reqs /\ instances' = instances /\ stage' = stage /\ UNCHANGED bucket
  BY DEF vars, bucket
<1>2. BucketInv'
  BY <1>1, StutterKeeps DEF RolloutInv
<1>3. Alive' = Alive
  BY <1>1 DEF Alive
<1>4. UnderWay' /\ FailsFromOutside'
  BY <1>1 DEF RolloutInv, UnderWay, FailsFromOutside
<1> QED BY <1>1, <1>2, <1>3, <1>4 DEF RolloutInv

LEMMA RolloutStep ==
  ASSUME RolloutInv, [Next]_vars PROVE RolloutInv'
<1>1. CASE StartBatch
  BY <1>1, StartBatchKeeps
<1>2. CASE \E r \in Rows : CreateTools(r)
  BY <1>2, CreateToolsKeeps
<1>3. CASE \E r \in Rows : CallEngine(r)
  BY <1>3, CallEngineKeeps
<1>4. CASE \E r \in Rows : Answer(r)
  BY <1>4, AnswerKeeps
<1>5. CASE \E r \in Rows, i \in 1 .. MaxCalls : ToolAnswers(r, i)
  BY <1>5, ToolAnswersKeeps
<1>6. CASE \E r \in Rows : Respond(r)
  BY <1>6, RespondKeeps
<1>7. CASE \E r \in Rows : Finish(r)
  BY <1>7, FinishKeeps
<1>8. CASE ReturnBatch
  BY <1>8, ReturnBatchKeeps
<1>9. CASE Pools
  BY <1>9, PoolsKeep
<1>10. CASE UNCHANGED vars
  BY <1>10, RolloutStutters
<1> QED BY <1>1, <1>2, <1>3, <1>4, <1>5, <1>6, <1>7, <1>8, <1>9, <1>10 DEF Next

(* The inductive invariant of the rollout: where every request is (_async_rollout_a_request),
   what its ids, messages and instances are there, and whose the calls under
   way are. *)
THEOREM RolloutKeepsItsRequests == Spec => []RolloutInv
  BY RolloutStarts, RolloutStep, PTL DEF Spec

LEMMA ShownIsThePrompt ==
  ASSUME NEW q, Listed(q), Shown(q) \/ q.ids = Retold(q) PROVE AsShown(q)
<1> DEFINE w == Retold(q)
           o == Opening
           p == w \o o
<1>1. w \in Seq(Tokens) /\ o \in Seq(Tokens) /\ Len(o) = 1
  BY RetoldType, OneToken
<1>2. Retold(q) \o Opening = p
  OBVIOUS
<1>3. q.ids = p \/ q.ids = w
  BY DEF Shown, Closed
<1>4. q.loss = Said(q.ids)
  BY DEF Listed
<1> HIDE DEF w, o
<1>5. w \in Seq(Tokens) /\ o \in Seq(Tokens)
  BY <1>1
<1>6. p \in Seq(Tokens) /\ Len(p) = Len(w) + Len(o)
  BY <1>5, ConcatProperties
<1>7. IsPrefix(w, p)
  BY <1>5, PrefixOfConcat
<1> HIDE DEF p
<1>8. Len(p) \in Nat /\ Len(w) \in Nat
  BY <1>5, <1>6
<1>9. IsPrefix(p, p)
  BY <1>6, <1>8, PrefixByElements
<1>10. IsPrefix(q.ids, p) /\ Len(q.ids) >= Len(p) - 1
  BY <1>1, <1>3, <1>6, <1>7, <1>8, <1>9
<1> QED BY <1>2, <1>4, <1>10 DEF AsShown

(* Whatever the engine and the tools answer, the ids a request is trained on
   are those of its messages, after its prompt or what a cut has left of it,
   and the loss is over what the assistant said (add_assistant_message, add_tool_response_message,
   finalize). *)
THEOREM RolloutTrainsAsShown == Spec => []TrainedAsShown
<1>1. ASSUME RolloutInv PROVE TrainedAsShown
  <2> SUFFICES ASSUME NEW r \in DOMAIN reqs
               PROVE  /\ reqs[r].at = "engine" => AsShown(reqs[r])
                      /\ reqs[r].at = "done" => AsRendered(reqs[r])
    BY DEF TrainedAsShown
  <2> DEFINE q == reqs[r]
  <2>1. RequestInv(q)
    BY <1>1 DEF RolloutInv
  <2> HIDE DEF q
  <2>2. Listed(q) /\ Worded(q)
    BY <2>1 DEF RequestInv, Formed
  <2>3. ASSUME q.at = "engine" PROVE AsShown(q)
    BY <2>2, <2>3, ShownIsThePrompt DEF Worded
  <2>4. ASSUME q.at = "done" PROVE AsRendered(q)
    BY <2>2, <2>4 DEF Worded
  <2> QED BY <2>3, <2>4 DEF q
<1> QED BY <1>1, RolloutKeepsItsRequests, PTL

(* No call of a tool is under way without its instance, a returned batch has
   left neither instances nor calls behind, and a finished request has the
   search results of its messages (_handle_pending_state, execute, release,
   calc_reward). *)
THEOREM RolloutToolsLive == Spec => []ToolsLiveWithTheirRequest
<1>1. ASSUME RolloutInv PROVE ToolsLiveWithTheirRequest
  <2>1. instances \in [Alive -> Nat] /\ UnderWay
    BY <1>1 DEF RolloutInv
  <2>2. \A r \in DOMAIN reqs : RequestInv(reqs[r])
    BY <1>1 DEF RolloutInv
  <2>3. ASSUME NEW c \in Calls, stage[c] # "none" PROVE <<c[3], c[1]>> \in DOMAIN instances
    <3> DEFINE r == c[1]
               q == reqs[r]
    <3>1. /\ r \in DOMAIN reqs /\ q.at = "tools" /\ c[2] \in DOMAIN q.calls
          /\ q.calls[c[2]].tool = c[3]
      BY <2>1, <2>3 DEF UnderWay
    <3>2. q.kwargs \subseteq Tools /\ c[3] \in q.kwargs
      BY <2>2, <3>1 DEF RequestInv, Formed
    <3>3. <<c[3], r>> \in Alive
      BY <3>1, <3>2 DEF Alive
    <3> QED BY <2>1, <3>3
  <2>4. ASSUME phase = "returned" PROVE instances = <<>> /\ \A c \in Calls : stage[c] = "none"
    <3>1. \A r \in DOMAIN reqs : reqs[r].at = "done"
      BY <1>1, <2>4 DEF RolloutInv
    <3>2. Alive = {}
      BY <3>1 DEF Alive
    <3>3. instances \in [1 .. 0 -> Nat] /\ 1 .. 0 = {}
      BY <2>1, <3>2
    <3>4. instances \in Seq(Nat) /\ Len(instances) = 0
      BY <3>3
    <3>5. instances = <<>>
      BY <3>4
    <3>6. \A c \in Calls : stage[c] = "none"
      BY <2>1, <3>1 DEF UnderWay
    <3> QED BY <3>5, <3>6
  <2>5. ASSUME NEW r \in DOMAIN reqs, reqs[r].at = "done", "search" \in reqs[r].kwargs
        PROVE  \/ reqs[r].scores["search"] = Cardinality(FoundIn(reqs[r].messages))
               \/ Len(Retold(reqs[r])) >= MaxModelLen
    <3>1. CountFor(reqs[r], instances[<<"search", r>>])
      BY <1>1 DEF RolloutInv
    <3> QED BY <2>5, <3>1 DEF CountFor
  <2> QED BY <2>3, <2>4, <2>5 DEF ToolsLiveWithTheirRequest
<1> QED BY <1>1, RolloutKeepsItsRequests, PTL

(* A batch fails only for what comes from outside: never on the worker's own
   checks of a request (the assertions of _async_rollout_a_request and
   _req_level_generate_sequences, the KeyError of an instance that is gone). *)
THEOREM RolloutFailsFromOutside == Spec => []FailsFromOutside
<1>1. ASSUME RolloutInv PROVE FailsFromOutside
  BY <1>1 DEF RolloutInv
<1> QED BY <1>1, RolloutKeepsItsRequests, PTL

=============================================================================
