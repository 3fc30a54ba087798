---------------------------- MODULE ProviderPool ----------------------------
(***************************************************************************)
(* acquisition/providers: MultiProvider routes every request of the        *)
(* collector to RPC endpoints in priority order, with a health record and  *)
(* a token bucket per endpoint and two nested levels of retry - the posts  *)
(* of HttpJsonRpcProvider._call inside the tries of _retry_with_backoff.   *)
(*                                                                         *)
(* The pool has one caller, which awaits every request, and lives as long  *)
(* as its process: an exception that leaves _route ends both.  Endpoints   *)
(* fail and come back as they like, and may be behind the chain.           *)
(*                                                                         *)
(* Time is counted in ticks.  A monotonic instant is kept as the ticks     *)
(* still missing to it, and the bucket is refilled as time passes instead  *)
(* of at the next acquire.                                                 *)
(***************************************************************************)
EXTENDS Integers, Sequences

CONSTANTS
  NumProviders,  \* providers are numbered by priority
  Threshold,     \* unhealthy_threshold
  Recovery,      \* recovery_interval_seconds, in ticks
  Rate,          \* rate_limit_per_second, in tokens per tick
  PostBackoff,   \* _BACKOFF_SECONDS of http_json_rpc.py, in ticks
  TryBackoff     \* _BACKOFF_SECONDS of multi_provider.py, in ticks

ASSUME PoolAssumption ==
  /\ {NumProviders, Threshold, Rate} \subseteq Nat \ {0}
  /\ Recovery \in Nat
  /\ PostBackoff \in Seq(Nat)
  /\ TryBackoff \in Seq(Nat)

Provider == 1 .. NumProviders
Capacity == 2 * Rate
Posts    == Len(PostBackoff) + 1
Tries    == Len(TryBackoff) + 1

(* What a post to an endpoint comes back with: "down", an HTTP error or a   *)
(* retryable RPC code; "refusing", another RPC code or a malformed result;  *)
(* "garbled", a body that is not JSON, whose ValueError nothing catches.    *)
EndpointState == {"up", "down", "refusing", "garbled"}

VARIABLES
  (* the endpoints *)
  endpoint,   \* how each of them is
  has,        \* whether it has the block the collector is reading
  (* the pool *)
  healthy,    \* ProviderHealthChecker._healthy
  failures,   \* ._consecutive_failures
  cooling,    \* ticks until ._unhealthy_since + recovery, 0 when not unhealthy
  tokens,     \* TokenBucketRateLimiter._tokens
  (* the request *)
  pc,         \* where the request is
  request,    \* what is asked for
  cand,       \* position in the loop over the providers
  try, post,  \* attempt of _retry_with_backoff, attempt of _call
  wait,       \* ticks left of a backoff sleep
  attempted,  \* the providers this request failed at
  (* history *)
  faulted,    \* the providers that failed any post of this process
  partial,    \* this block's logs were asked of an endpoint without the block
  lost        \* such a block was accepted

endpoints == <<endpoint, has>>
health    == <<healthy, failures, cooling>>
attempts  == <<cand, try, post, wait, attempted>>
marks     == <<faulted, partial, lost>>
vars      == <<endpoints, health, tokens, pc, request, attempts, marks>>

TypeOK ==
  /\ endpoint \in [Provider -> EndpointState] /\ has \in [Provider -> BOOLEAN]
  /\ healthy \in [Provider -> BOOLEAN]
  /\ failures \in [Provider -> 0 .. Threshold]
  /\ cooling \in [Provider -> 0 .. Recovery]
  /\ tokens \in [Provider -> 0 .. Capacity]
  /\ pc \in {"idle", "route", "acquire", "call", "failed", "raised"}
  /\ request \in {"head", "header", "logs", "verify"}
  /\ cand \in 1 .. NumProviders + 1 /\ try \in 1 .. Tries /\ post \in 1 .. Posts /\ wait \in Nat
  /\ attempted \subseteq Provider /\ faulted \subseteq Provider
  /\ partial \in BOOLEAN /\ lost \in BOOLEAN

-----------------------------------------------------------------------------
(* The endpoints and the clock.                                             *)

Change(p, state) ==
  /\ endpoint' = [endpoint EXCEPT ![p] = state]
  /\ UNCHANGED <<has, health, tokens, pc, request, attempts, marks>>

CatchUp(p) ==
  /\ has' = [has EXCEPT ![p] = TRUE]
  /\ UNCHANGED <<endpoint, health, tokens, pc, request, attempts, marks>>

OneLess(n) == IF n > 0 THEN n - 1 ELSE 0

(* _refill: min(capacity, tokens + elapsed * rate)                          *)
Refill(n) == IF n + Rate > Capacity THEN Capacity ELSE n + Rate

Tick ==
  /\ cooling' = [p \in Provider |-> OneLess(cooling[p])]
  /\ tokens'  = [p \in Provider |-> Refill(tokens[p])]
  /\ wait'    = OneLess(wait)
  /\ UNCHANGED <<endpoints, healthy, failures, pc, request, cand, try, post, attempted, marks>>

-----------------------------------------------------------------------------
(* ProviderHealthChecker. *)

(* Not the code: the count is not reset.                                    *)
MarkHealthyOnly(p) ==
  /\ healthy' = [healthy EXCEPT ![p] = TRUE]
  /\ cooling' = [cooling EXCEPT ![p] = 0]
  /\ UNCHANGED failures

MarkHealthy(p) ==
  /\ healthy'  = [healthy EXCEPT ![p] = TRUE]
  /\ failures' = [failures EXCEPT ![p] = 0]
  /\ cooling'  = [cooling EXCEPT ![p] = 0]

MarkUnhealthy(p) ==
  LET count == failures[p] + 1
      falls == count >= Threshold /\ healthy[p]
  IN  /\ failures' = [failures EXCEPT ![p] = count]
      /\ healthy'  = [healthy EXCEPT ![p] = @ /\ ~falls]
      /\ cooling'  = [cooling EXCEPT ![p] = IF falls THEN Recovery ELSE @]

-----------------------------------------------------------------------------
(* MultiProvider._route. *)

(* Not the code: the loop goes on from where the last request ended.        *)
RequestSticky ==
  /\ pc = "idle"
  /\ pc' = "route"
  /\ attempted' = {}
  /\ UNCHANGED <<endpoints, health, tokens, request, cand, try, post, wait, marks>>

Request ==
  /\ pc = "idle"
  /\ pc' = "route"
  /\ cand' = 1
  /\ attempted' = {}
  /\ UNCHANGED <<endpoints, health, tokens, request, try, post, wait, marks>>

(* Not the code: an unhealthy provider is skipped, due or not.              *)
ConsiderOnlyHealthy ==
  /\ pc = "route"
  /\ cand \in Provider
  /\ IF healthy[cand] THEN pc' = "acquire" /\ UNCHANGED cand
     ELSE cand' = cand + 1 /\ UNCHANGED pc
  /\ UNCHANGED <<endpoints, health, tokens, request, try, post, wait, attempted, marks>>

(* The head of the loop: an unhealthy provider is skipped unless its        *)
(* recovery is due, which makes it healthy before it has answered.          *)
Consider ==
  /\ pc = "route"
  /\ cand \in Provider
  /\ IF healthy[cand] THEN pc' = "acquire" /\ UNCHANGED <<health, cand>>
     ELSE IF cooling[cand] = 0 THEN MarkHealthy(cand) /\ pc' = "acquire" /\ UNCHANGED cand
     ELSE cand' = cand + 1 /\ UNCHANGED <<health, pc>>
  /\ UNCHANGED <<endpoints, tokens, request, try, post, wait, attempted, marks>>

(* AllProvidersFailedError. *)
Exhausted ==
  /\ pc = "route"
  /\ cand \notin Provider
  /\ pc' = "failed"
  /\ UNCHANGED <<endpoints, health, tokens, request, attempts, marks>>

(* One token for all the posts of the provider.  acquire sleeps until there *)
(* is one.                                                                  *)
Acquire ==
  /\ pc = "acquire"
  /\ tokens[cand] >= 1
  /\ tokens' = [tokens EXCEPT ![cand] = @ - 1]
  /\ try' = 1 /\ post' = 1 /\ wait' = 0
  /\ pc' = "call"
  /\ UNCHANGED <<endpoints, health, request, cand, attempted, marks>>

-----------------------------------------------------------------------------
(* One post of _call, once its backoff is over, and what it leads to.       *)

Posting == pc = "call" /\ wait = 0

(* A header the endpoint does not have yet is an AcquisitionError.          *)
Answers(p) == endpoint[p] = "up" /\ (request \in {"header", "verify"} => has[p])

(* The collector asks for the head, then a block's header and its logs; the *)
(* finality engine asks for the header again.                               *)
NextRequest ==
  CASE request = "head"   -> "header"
    [] request = "header" -> "logs"
    [] request = "logs"   -> "verify"
    [] request = "verify" -> "head"

(* The head names a block, which the endpoint that named it has.  The logs  *)
(* of a block an endpoint does not have are an empty list.                  *)
Answered(known) ==
  /\ Posting
  /\ Answers(cand)
  /\ MarkHealthy(cand)
  /\ pc' = "idle"
  /\ request' = NextRequest
  /\ request = "head" => known[cand]
  /\ has' = IF request = "head" THEN known ELSE has
  /\ partial' = IF request = "logs" THEN ~has[cand] ELSE partial
  /\ lost' = (lost \/ (request = "verify" /\ partial))
  /\ UNCHANGED <<endpoint, tokens, attempts, faulted>>

(* A transport failure is retried inside the provider ...                   *)
PostAgain ==
  /\ Posting
  /\ endpoint[cand] = "down"
  /\ post < Posts
  /\ post' = post + 1
  /\ wait' = PostBackoff[post]
  /\ faulted' = faulted \cup {cand}
  /\ UNCHANGED <<endpoints, health, tokens, pc, request, cand, try, attempted, partial, lost>>

(* ... and an AcquisitionError by the pool, ...                             *)
TryFails ==
  /\ Posting
  /\ \/ endpoint[cand] = "down" /\ post = Posts
     \/ endpoint[cand] = "refusing"
     \/ endpoint[cand] = "up" /\ ~Answers(cand)
  /\ faulted' = faulted \cup {cand}

(* Not the code: a provider is tried until it answers.                      *)
TryAgainAlways ==
  /\ TryFails
  /\ try' = IF try < Tries THEN try + 1 ELSE try
  /\ post' = 1
  /\ wait' = 1
  /\ UNCHANGED <<endpoints, health, tokens, pc, request, cand, attempted, partial, lost>>

TryAgain ==
  /\ TryFails
  /\ try < Tries
  /\ try' = try + 1
  /\ post' = 1
  /\ wait' = TryBackoff[try]
  /\ UNCHANGED <<endpoints, health, tokens, pc, request, cand, attempted, partial, lost>>

(* Not the code: no other provider is tried.                                *)
GiveUp ==
  /\ TryFails
  /\ try = Tries
  /\ MarkUnhealthy(cand)
  /\ attempted' = attempted \cup {cand}
  /\ pc' = "failed"
  /\ UNCHANGED <<endpoints, tokens, request, cand, try, post, wait, partial, lost>>

(* ... until the provider is reported and the next one takes over.          *)
FailOver ==
  /\ TryFails
  /\ try = Tries
  /\ MarkUnhealthy(cand)
  /\ attempted' = attempted \cup {cand}
  /\ cand' = cand + 1
  /\ pc' = "route"
  /\ UNCHANGED <<endpoints, tokens, request, try, post, wait, partial, lost>>

(* Any other exception passes through both retries and the loop.            *)
Escape ==
  /\ Posting
  /\ endpoint[cand] = "garbled"
  /\ faulted' = faulted \cup {cand}
  /\ pc' = "raised"
  /\ UNCHANGED <<endpoints, health, tokens, request, attempts, partial, lost>>

-----------------------------------------------------------------------------
(* The process ends with the exception, and a new one builds a new pool.    *)
Dead == {"failed", "raised"}

Restart ==
  /\ pc \in Dead
  /\ healthy'  = [p \in Provider |-> TRUE]
  /\ failures' = [p \in Provider |-> 0]
  /\ cooling'  = [p \in Provider |-> 0]
  /\ tokens'   = [p \in Provider |-> Capacity]
  /\ pc' = "idle" /\ request' = "head"
  /\ cand' = 1 /\ try' = 1 /\ post' = 1 /\ wait' = 0
  /\ attempted' = {} /\ faulted' = {} /\ partial' = FALSE
  /\ UNCHANGED <<endpoints, lost>>

Init ==
  /\ endpoint \in [Provider -> EndpointState]
  /\ has = [p \in Provider |-> TRUE]
  /\ healthy  = [p \in Provider |-> TRUE]
  /\ failures = [p \in Provider |-> 0]
  /\ cooling  = [p \in Provider |-> 0]
  /\ tokens   = [p \in Provider |-> Capacity]
  /\ pc = "idle" /\ request = "head"
  /\ cand = 1 /\ try = 1 /\ post = 1 /\ wait = 0
  /\ attempted = {} /\ faulted = {} /\ partial = FALSE /\ lost = FALSE

Environment ==
  \/ \E p \in Provider, state \in EndpointState : Change(p, state)
  \/ \E p \in Provider : CatchUp(p)

Step ==
  \/ Request \/ Consider \/ Exhausted \/ Acquire
  \/ \E known \in [Provider -> BOOLEAN] : Answered(known)
  \/ PostAgain \/ TryAgain \/ FailOver \/ Escape

Next == Environment \/ Tick \/ Step \/ Restart

Spec == Init /\ [][Next]_vars

(* Sleeps end and posts return: every client has a timeout.                 *)
FairSpec == Spec /\ WF_vars(Tick) /\ WF_vars(Step)
-----------------------------------------------------------------------------
(* Properties.                                                              *)

(* The health record: a provider is unhealthy exactly when it failed        *)
(* Threshold requests in a row, and only an unhealthy one cools down.       *)
HealthMatchesFailures ==
  \A p \in Provider :
    /\ healthy[p] <=> failures[p] < Threshold
    /\ healthy[p] => cooling[p] = 0

(* Failover is in priority order: while a provider is called, each one      *)
(* before it has failed this request or is unhealthy.                       *)
InPriorityOrder ==
  pc \in {"acquire", "call"} =>
    \A p \in Provider : p < cand => p \in attempted \/ ~healthy[p]

(* AllProvidersFailedError, which ends the process, means that every        *)
(* provider has failed since the process began: one that never fails is     *)
(* enough, whatever the others do.                                          *)
OneSteadyProviderIsEnough == pc = "failed" => faulted = Provider

(* A request ends: with an answer, or with an exception.                    *)
EveryRequestEnds == (pc = "route") ~> (pc \in {"idle"} \cup Dead)

(* Once the primary answers for good, it is asked again and again, however  *)
(* often it was marked unhealthy before - unless the process ends.          *)
PrimaryReturns ==
  <>[](endpoint[1] = "up" /\ has[1] /\ pc \notin Dead) => []<>(pc = "call" /\ cand = 1)

(* ADR-006, Recovery: "No historical information should be lost" in a       *)
(* temporary provider outage.  Judged when a block has been accepted.       *)
NoLogsLost == ~lost
==============================================================================
