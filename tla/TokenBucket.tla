----------------------------- MODULE TokenBucket -----------------------------
(***************************************************************************)
(* The execution pools of the tools and the rate limiter they share.       *)
(*                                                                         *)
(* A call of a tool is a task of the tool's pool, a Ray actor with         *)
(* num_workers threads.  A thread asks the limiter for a token and waits   *)
(* until it has it, calls the service, and gives the token back without    *)
(* waiting for that.  The limiter is one named actor for all the pools.    *)
(* Its "acquire" group has one thread: the request it serves may block on  *)
(* the semaphore, and the others queue up behind it.  "release" has        *)
(* threads of its own.                                                     *)
(***************************************************************************)
EXTENDS Integers, Sequences, FiniteSets

CONSTANTS
  Calls,       \* places for the calls of tools that can be under way at once
  Tools,       \* the tools, each with a pool
  PoolOf,      \* of every call: the tool in whose pool it runs
  NumWorkers,  \* threads of a pool
  RateLimit    \* tokens of the limiter

ASSUME BucketAssumption ==
  /\ IsFiniteSet(Calls)
  /\ PoolOf \in [Calls -> Tools]
  /\ NumWorkers \in Nat \ {0}
  /\ RateLimit \in Nat \ {0}

VARIABLES
  stage,      \* of every call: not under way, in the pool, at the limiter, at
              \* the service, back with a result or without one
  waiting,    \* the requests for a token, in the order the limiter got them
  permits,    \* value of the limiter's semaphore
  releasing   \* calls of release that have not been executed yet

bucket == <<stage, waiting, permits, releasing>>

Stages == {"none", "submitted", "acquiring", "running", "ok", "failed"}

BucketInit ==
  /\ stage = [c \in Calls |-> "none"]
  /\ waiting = <<>>
  /\ permits = RateLimit
  /\ releasing = 0

\* Calls that are made together.
Submit(asked) ==
  /\ \A c \in asked : stage[c] = "none"
  /\ stage' = [c \in Calls |-> IF c \in asked THEN "submitted" ELSE stage[c]]
  /\ UNCHANGED <<waiting, permits, releasing>>

\* The threads of a pool that are in use.
Threads(tool) == {c \in Calls : PoolOf[c] = tool /\ stage[c] \in {"acquiring", "running"}}

\* A thread takes a call and asks for a token.
Start(c) ==
  /\ stage[c] = "submitted"
  /\ Cardinality(Threads(PoolOf[c])) < NumWorkers
  /\ stage' = [stage EXCEPT ![c] = "acquiring"]
  /\ waiting' = Append(waiting, c)
  /\ UNCHANGED <<permits, releasing>>

Acquire_NoBlock ==
  /\ waiting # <<>>
  /\ permits' = IF permits > 0 THEN permits - 1 ELSE permits
  /\ stage' = [stage EXCEPT ![Head(waiting)] = "running"]
  /\ waiting' = Tail(waiting)
  /\ UNCHANGED releasing

\* The one thread of the group "acquire" gets past the semaphore.
Acquire ==
  /\ waiting # <<>>
  /\ permits > 0
  /\ permits' = permits - 1
  /\ stage' = [stage EXCEPT ![Head(waiting)] = "running"]
  /\ waiting' = Tail(waiting)
  /\ UNCHANGED releasing

\* The service has answered, or an exception has been logged and swallowed.
Return(c, answer) ==
  /\ stage[c] = "running"
  /\ answer \in {"ok", "failed"}
  /\ stage' = [stage EXCEPT ![c] = answer]
  /\ releasing' = releasing + 1
  /\ UNCHANGED <<waiting, permits>>

\* Releases behind the requests for tokens, in one group.
Release_SameThread ==
  /\ releasing > 0
  /\ waiting = <<>>
  /\ permits' = permits + 1
  /\ releasing' = releasing - 1
  /\ UNCHANGED <<stage, waiting>>

\* A thread of the group "release".
Release ==
  /\ releasing > 0
  /\ permits' = permits + 1
  /\ releasing' = releasing - 1
  /\ UNCHANGED <<stage, waiting>>

\* The results of these calls have been taken.
Take(taken) ==
  /\ \A c \in taken : stage[c] \in {"ok", "failed"}
  /\ stage' = [c \in Calls |-> IF c \in taken THEN "none" ELSE stage[c]]
  /\ UNCHANGED <<waiting, permits, releasing>>

BucketNext ==
  \/ \E asked \in SUBSET Calls : Submit(asked)
  \/ \E c \in Calls : Start(c)
  \/ Acquire
  \/ \E c \in Calls : \E answer \in {"ok", "failed"} : Return(c, answer)
  \/ Release
  \/ \E taken \in SUBSET Calls : Take(taken)

BucketSpec == BucketInit /\ [][BucketNext]_bucket

-----------------------------------------------------------------------------
\* The calls that are at the service, which hold a token.
Running == {c \in Calls : stage[c] = "running"}

\* No token is lost or made: those in the semaphore, those held and those on
\* their way back are as many as the limit, so no more calls than that are at
\* the services at once; and whoever waits for a token is in the queue, once,
\* so that its thread will be woken (TokenBucketWorker and execute, whose
\* exit callback is registered before the token is asked for).
TokensAreConserved ==
  /\ permits \in Nat /\ releasing \in Nat
  /\ permits + Cardinality(Running) + releasing = RateLimit
  /\ \A i \in DOMAIN waiting : stage[waiting[i]] = "acquiring"
  /\ \A c \in Calls : stage[c] = "acquiring" => \E i \in DOMAIN waiting : waiting[i] = c
  /\ \A i, j \in DOMAIN waiting : waiting[i] = waiting[j] => i = j
=============================================================================
