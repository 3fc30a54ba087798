-------------------------- MODULE ProviderPoolProofs --------------------------
(***************************************************************************)
(* Theorems about ProviderPool, for every number of providers, threshold,  *)
(* recovery interval, rate and backoff.                                    *)
(***************************************************************************)
EXTENDS ProviderPool, SequenceTheorems, TLAPS

(* While a provider is called it is one of the pool, and healthy: Consider  *)
(* lets no other through, so its count is still below the threshold.        *)
CalledIsHealthy ==
  pc \in {"acquire", "call"} => cand \in Provider /\ healthy[cand]

(* InPriorityOrder, from the head of the loop on.                           *)
InOrderFromHead ==
  pc \in {"route", "acquire", "call"} =>
    \A p \in Provider : p < cand => p \in attempted \/ ~healthy[p]

(* Whatever is held against a provider, it failed a post.                   *)
Deserved ==
  /\ attempted \subseteq faulted
  /\ \A p \in Provider : failures[p] # 0 => p \in faulted

IInv ==
  /\ TypeOK
  /\ HealthMatchesFailures
  /\ CalledIsHealthy
  /\ InOrderFromHead
  /\ Deserved
  /\ OneSteadyProviderIsEnough

-----------------------------------------------------------------------------
(* The constants that the actions compute with are numbers.                 *)
LEMMA Numbers ==
  /\ NumProviders \in Nat \ {0} /\ Threshold \in Nat \ {0} /\ Rate \in Nat \ {0}
  /\ Recovery \in Nat
  /\ Posts \in Nat \ {0} /\ Tries \in Nat \ {0}
  /\ \A i \in 1 .. Posts : i < Posts => PostBackoff[i] \in Nat
  /\ \A i \in 1 .. Tries : i < Tries => TryBackoff[i] \in Nat
<1>1. /\ NumProviders \in Nat \ {0} /\ Threshold \in Nat \ {0} /\ Rate \in Nat \ {0}
      /\ Recovery \in Nat /\ PostBackoff \in Seq(Nat) /\ TryBackoff \in Seq(Nat)
  BY PoolAssumption
<1>2. Len(PostBackoff) \in Nat /\ Len(TryBackoff) \in Nat
  BY <1>1, LenProperties
<1>3. \A i \in 1 .. Len(PostBackoff) : PostBackoff[i] \in Nat
  BY <1>1, ElementOfSeq
<1>4. \A i \in 1 .. Len(TryBackoff) : TryBackoff[i] \in Nat
  BY <1>1, ElementOfSeq
<1> QED
  BY <1>1, <1>2, <1>3, <1>4 DEF Posts, Tries

(* A provider that is marked healthy has a record in order.                 *)
LEMMA HealthyMark ==
  ASSUME NEW p \in Provider, TypeOK, HealthMatchesFailures, Deserved, MarkHealthy(p)
  PROVE  /\ healthy' \in [Provider -> BOOLEAN]
         /\ failures' \in [Provider -> 0 .. Threshold]
         /\ cooling' \in [Provider -> 0 .. Recovery]
         /\ HealthMatchesFailures'
         /\ healthy'[p]
         /\ \A q \in Provider : q # p => healthy'[q] = healthy[q]
         /\ \A q \in Provider : failures'[q] # 0 => q \in faulted
  BY Numbers DEF TypeOK, HealthMatchesFailures, Deserved, MarkHealthy

(* So has one that was healthy and is reported as failed.                   *)
LEMMA UnhealthyMark ==
  ASSUME NEW p \in Provider, TypeOK, HealthMatchesFailures, Deserved, healthy[p], MarkUnhealthy(p)
  PROVE  /\ healthy' \in [Provider -> BOOLEAN]
         /\ failures' \in [Provider -> 0 .. Threshold]
         /\ cooling' \in [Provider -> 0 .. Recovery]
         /\ HealthMatchesFailures'
         /\ \A q \in Provider : q # p => healthy'[q] = healthy[q]
         /\ \A q \in Provider : failures'[q] # 0 => q \in faulted \cup {p}
<1> DEFINE count == failures[p] + 1
           falls == count >= Threshold /\ healthy[p]
<1>1. failures[p] \in Nat /\ failures[p] < Threshold /\ count \in 0 .. Threshold
  BY Numbers DEF TypeOK, HealthMatchesFailures
<1>2. /\ failures' = [failures EXCEPT ![p] = count]
      /\ healthy' = [healthy EXCEPT ![p] = @ /\ ~falls]
      /\ cooling' = [cooling EXCEPT ![p] = IF falls THEN Recovery ELSE @]
  BY DEF MarkUnhealthy
<1>3. falls <=> ~(count < Threshold)
  BY <1>1, Numbers
<1>4. healthy'[p] = ~falls /\ failures'[p] = count
  BY <1>2 DEF TypeOK
<1>5. cooling' \in [Provider -> 0 .. Recovery] /\ (~falls => cooling'[p] = 0)
  BY <1>2, Numbers DEF TypeOK, HealthMatchesFailures
<1>6. \A q \in Provider : q # p => /\ healthy'[q] = healthy[q] /\ failures'[q] = failures[q]
                                   /\ cooling'[q] = cooling[q]
  BY <1>2 DEF TypeOK
<1>7. healthy' \in [Provider -> BOOLEAN] /\ failures' \in [Provider -> 0 .. Threshold]
  BY <1>1, <1>2 DEF TypeOK
<1>8. HealthMatchesFailures'
  BY <1>3, <1>4, <1>5, <1>6 DEF HealthMatchesFailures
<1> HIDE DEF count, falls
<1> QED
  BY <1>5, <1>6, <1>7, <1>8 DEF Deserved

-----------------------------------------------------------------------------
LEMMA InitEstablishes == Init => IInv
<1> SUFFICES ASSUME Init PROVE IInv
  OBVIOUS
<1>1. TypeOK
  <2>1. /\ endpoint \in [Provider -> EndpointState] /\ has \in [Provider -> BOOLEAN]
        /\ healthy \in [Provider -> BOOLEAN]
    BY DEF Init
  <2>2. Capacity \in Nat
    BY Numbers DEF Capacity
  <2>3. /\ failures \in [Provider -> 0 .. Threshold] /\ cooling \in [Provider -> 0 .. Recovery]
        /\ tokens \in [Provider -> 0 .. Capacity]
    BY <2>2, Numbers DEF Init
  <2>4. /\ pc \in {"idle", "route", "acquire", "call", "failed", "raised"}
        /\ request \in {"head", "header", "logs", "verify"}
        /\ attempted \subseteq Provider /\ faulted \subseteq Provider
        /\ partial \in BOOLEAN /\ lost \in BOOLEAN
    BY DEF Init
  <2>5. cand \in 1 .. NumProviders + 1 /\ try \in 1 .. Tries /\ post \in 1 .. Posts /\ wait \in Nat
    BY Numbers DEF Init
  <2> QED
    BY <2>1, <2>3, <2>4, <2>5 DEF TypeOK
<1> QED
  BY <1>1, Numbers DEF Init, IInv, HealthMatchesFailures, CalledIsHealthy, InOrderFromHead, Deserved,
                       OneSteadyProviderIsEnough, Provider

(* Every step keeps it: the actions in the order of Next, the one of a post *)
(* split by what it comes back with.                                        *)
LEMMA StepKeepsInvariant == IInv /\ [Next]_vars => IInv'
<1> SUFFICES ASSUME IInv, [Next]_vars PROVE IInv'
  OBVIOUS
<1> USE DEF IInv
<1>1. ASSUME NEW p \in Provider, NEW state \in EndpointState, Change(p, state) PROVE IInv'
  BY <1>1 DEF Change, TypeOK, HealthMatchesFailures, CalledIsHealthy, InOrderFromHead, Deserved,
              OneSteadyProviderIsEnough, health, attempts, marks
<1>2. ASSUME NEW p \in Provider, CatchUp(p) PROVE IInv'
  BY <1>2 DEF CatchUp, TypeOK, HealthMatchesFailures, CalledIsHealthy, InOrderFromHead, Deserved,
              OneSteadyProviderIsEnough, health, attempts, marks
<1>3. CASE Tick
  <2>1. cooling' \in [Provider -> 0 .. Recovery] /\ \A p \in Provider : cooling[p] = 0 => cooling'[p] = 0
    BY <1>3, Numbers DEF Tick, TypeOK, OneLess
  <2>2. tokens' \in [Provider -> 0 .. Capacity]
    BY <1>3, Numbers DEF Tick, TypeOK, Refill, Capacity
  <2>3. wait' \in Nat
    BY <1>3 DEF Tick, TypeOK, OneLess
  <2> QED
    BY <1>3, <2>1, <2>2, <2>3 DEF Tick, TypeOK, HealthMatchesFailures, CalledIsHealthy, InOrderFromHead,
              Deserved, OneSteadyProviderIsEnough, endpoints, marks
<1>4. CASE Request
  <2>1. cand' \in 1 .. NumProviders + 1 /\ \A p \in Provider : ~(p < cand')
    BY <1>4, Numbers DEF Request, Provider
  <2> QED
    BY <1>4, <2>1 DEF Request, TypeOK, HealthMatchesFailures, CalledIsHealthy, InOrderFromHead, Deserved,
              OneSteadyProviderIsEnough, endpoints, health, marks
<1>5. CASE Consider
  <2>1. pc = "route" /\ cand \in Provider
    BY <1>5 DEF Consider
  <2>2. cand + 1 \in 1 .. NumProviders + 1 /\ \A p \in Provider : p < cand + 1 <=> p < cand \/ p = cand
    BY <2>1, Numbers DEF Provider
  <2>3. CASE healthy[cand]
    BY <1>5, <2>1, <2>3 DEF Consider, TypeOK, HealthMatchesFailures, CalledIsHealthy, InOrderFromHead, Deserved,
              OneSteadyProviderIsEnough, endpoints, health, marks
  <2>4. CASE ~healthy[cand] /\ cooling[cand] = 0
    <3>1. MarkHealthy(cand) /\ pc' = "acquire" /\ cand' = cand
      BY <1>5, <2>4 DEF Consider
    <3>2. /\ healthy' \in [Provider -> BOOLEAN] /\ failures' \in [Provider -> 0 .. Threshold]
          /\ cooling' \in [Provider -> 0 .. Recovery] /\ HealthMatchesFailures' /\ healthy'[cand]
          /\ \A q \in Provider : q # cand => healthy'[q] = healthy[q]
          /\ \A q \in Provider : failures'[q] # 0 => q \in faulted
      BY <2>1, <3>1, HealthyMark
    <3>3. \A p \in Provider : p < cand => p # cand
      BY <2>1, Numbers DEF Provider
    <3> QED
      BY <1>5, <2>1, <3>1, <3>2, <3>3 DEF Consider, TypeOK, CalledIsHealthy, InOrderFromHead, Deserved,
              OneSteadyProviderIsEnough, endpoints, marks
  <2>5. CASE ~healthy[cand] /\ cooling[cand] # 0
    BY <1>5, <2>1, <2>2, <2>5 DEF Consider, TypeOK, HealthMatchesFailures, CalledIsHealthy, InOrderFromHead,
              Deserved, OneSteadyProviderIsEnough, endpoints, health, marks
  <2> QED
    BY <2>3, <2>4, <2>5
<1>6. CASE Exhausted
  <2>1. pc = "route" /\ cand \notin Provider
    BY <1>6 DEF Exhausted
  <2>2. \A p \in Provider : p < cand
    BY <2>1, Numbers DEF Provider, TypeOK
  <2>3. \A p \in Provider : p \in attempted \/ failures[p] # 0
    BY <2>1, <2>2, Numbers DEF InOrderFromHead, HealthMatchesFailures
  <2>4. faulted = Provider
    BY <2>3 DEF Deserved, TypeOK
  <2> QED
    BY <1>6, <2>4 DEF Exhausted, TypeOK, HealthMatchesFailures, CalledIsHealthy, InOrderFromHead, Deserved,
              OneSteadyProviderIsEnough, endpoints, health, attempts, marks
<1>7. CASE Acquire
  <2>1. tokens' \in [Provider -> 0 .. Capacity]
    <3>1. cand \in Provider /\ Capacity \in Nat
      BY <1>7, Numbers DEF Acquire, CalledIsHealthy, Capacity
    <3>2. tokens[cand] - 1 \in 0 .. Capacity
      BY <1>7, <3>1 DEF Acquire, TypeOK
    <3> QED
      BY <1>7, <3>2 DEF Acquire, TypeOK
  <2>2. try' \in 1 .. Tries /\ post' \in 1 .. Posts /\ wait' \in Nat
    BY <1>7, Numbers DEF Acquire
  <2>3. TypeOK'
    BY <1>7, <2>1, <2>2 DEF Acquire, TypeOK, endpoints, health, marks
  <2>4. HealthMatchesFailures' /\ Deserved' /\ OneSteadyProviderIsEnough'
    BY <1>7 DEF Acquire, HealthMatchesFailures, Deserved, OneSteadyProviderIsEnough, health, marks
  <2>5. CalledIsHealthy' /\ InOrderFromHead'
    BY <1>7 DEF Acquire, CalledIsHealthy, InOrderFromHead, health
  <2> QED
    BY <2>3, <2>4, <2>5
<1>8. ASSUME NEW known \in [Provider -> BOOLEAN], Answered(known) PROVE IInv'
  <2>1. pc = "call" /\ cand \in Provider /\ MarkHealthy(cand) /\ pc' = "idle"
    BY <1>8 DEF Answered, Posting, CalledIsHealthy
  <2>2. /\ healthy' \in [Provider -> BOOLEAN] /\ failures' \in [Provider -> 0 .. Threshold]
        /\ cooling' \in [Provider -> 0 .. Recovery] /\ HealthMatchesFailures'
        /\ \A q \in Provider : failures'[q] # 0 => q \in faulted
    BY <2>1, HealthyMark
  <2>3. request' \in {"head", "header", "logs", "verify"} /\ has' \in [Provider -> BOOLEAN]
    BY <1>8 DEF Answered, NextRequest, TypeOK
  <2>4. partial' \in BOOLEAN /\ lost' \in BOOLEAN
    BY <1>8, <2>1 DEF Answered, TypeOK
  <2> QED
    BY <1>8, <2>1, <2>2, <2>3, <2>4 DEF Answered, TypeOK, CalledIsHealthy, InOrderFromHead, Deserved,
              OneSteadyProviderIsEnough, attempts
<1>9. CASE PostAgain
  <2>1. pc = "call" /\ cand \in Provider
    BY <1>9 DEF PostAgain, Posting, CalledIsHealthy
  <2>2. post' \in 1 .. Posts /\ wait' \in Nat
    BY <1>9, Numbers DEF PostAgain, TypeOK
  <2> QED
    BY <1>9, <2>1, <2>2 DEF PostAgain, TypeOK, HealthMatchesFailures, CalledIsHealthy, InOrderFromHead, Deserved,
              OneSteadyProviderIsEnough, endpoints, health
<1>10. CASE TryAgain
  <2>1. pc = "call" /\ cand \in Provider /\ faulted' = faulted \cup {cand}
    BY <1>10 DEF TryAgain, TryFails, Posting, CalledIsHealthy
  <2>2. try' \in 1 .. Tries /\ post' \in 1 .. Posts /\ wait' \in Nat
    BY <1>10, Numbers DEF TryAgain, TypeOK
  <2> QED
    BY <1>10, <2>1, <2>2 DEF TryAgain, TypeOK, HealthMatchesFailures, CalledIsHealthy, InOrderFromHead, Deserved,
              OneSteadyProviderIsEnough, endpoints, health
<1>11. CASE FailOver
  <2>1. pc = "call" /\ cand \in Provider /\ healthy[cand] /\ faulted' = faulted \cup {cand}
    BY <1>11 DEF FailOver, TryFails, Posting, CalledIsHealthy
  <2>2. /\ healthy' \in [Provider -> BOOLEAN] /\ failures' \in [Provider -> 0 .. Threshold]
        /\ cooling' \in [Provider -> 0 .. Recovery] /\ HealthMatchesFailures'
        /\ \A q \in Provider : q # cand => healthy'[q] = healthy[q]
        /\ \A q \in Provider : failures'[q] # 0 => q \in faulted \cup {cand}
    BY <1>11, <2>1, UnhealthyMark DEF FailOver
  <2>3. cand' \in 1 .. NumProviders + 1 /\ \A p \in Provider : p < cand' <=> p < cand \/ p = cand
    BY <1>11, <2>1, Numbers DEF FailOver, Provider
  <2>4. attempted' = attempted \cup {cand} /\ pc' = "route"
    BY <1>11 DEF FailOver
  <2>5. InOrderFromHead'
    BY <2>1, <2>2, <2>3, <2>4 DEF InOrderFromHead
  <2> QED
    BY <1>11, <2>1, <2>2, <2>3, <2>4, <2>5 DEF FailOver, TypeOK, CalledIsHealthy, Deserved,
              OneSteadyProviderIsEnough, endpoints
<1>12. CASE Escape
  <2>1. pc = "call" /\ cand \in Provider
    BY <1>12 DEF Escape, Posting, CalledIsHealthy
  <2> QED
    BY <1>12, <2>1 DEF Escape, TypeOK, HealthMatchesFailures, CalledIsHealthy, InOrderFromHead, Deserved,
              OneSteadyProviderIsEnough, endpoints, health, attempts
<1>13. CASE Restart
  <2>1. /\ failures' \in [Provider -> 0 .. Threshold] /\ cooling' \in [Provider -> 0 .. Recovery]
        /\ tokens' \in [Provider -> 0 .. Capacity]
    BY <1>13, Numbers DEF Restart, Capacity
  <2>2. cand' \in 1 .. NumProviders + 1 /\ try' \in 1 .. Tries /\ post' \in 1 .. Posts /\ wait' \in Nat
    BY <1>13, Numbers DEF Restart
  <2>3. HealthMatchesFailures'
    BY <1>13, Numbers DEF Restart, HealthMatchesFailures
  <2> QED
    BY <1>13, <2>1, <2>2, <2>3 DEF Restart, TypeOK, CalledIsHealthy, InOrderFromHead, Deserved,
              OneSteadyProviderIsEnough, endpoints
<1>14. CASE UNCHANGED vars
  BY <1>14 DEF TypeOK, HealthMatchesFailures, CalledIsHealthy, InOrderFromHead, Deserved,
               OneSteadyProviderIsEnough, vars, endpoints, health, attempts, marks
<1> QED
  BY <1>1, <1>2, <1>3, <1>4, <1>5, <1>6, <1>7, <1>8, <1>9, <1>10, <1>11, <1>12, <1>13, <1>14
     DEF Next, Environment, Step

-----------------------------------------------------------------------------
(* The inductive invariant.                                                 *)
THEOREM InvariantHolds == Spec => []IInv
  BY InitEstablishes, StepKeepsInvariant, PTL DEF Spec

(* The health record of MultiProvider and ProviderHealthChecker, the rate   *)
(* limiter's bucket and the two attempt counters stay in their ranges.      *)
THEOREM TypeCorrect == Spec => []TypeOK
<1>1. IInv => TypeOK
  BY DEF IInv
<1> QED
  BY <1>1, InvariantHolds, PTL

(* A provider is unhealthy exactly when it failed Threshold requests in a   *)
(* row (health_checker.py).                                                 *)
THEOREM HealthIsTheCount == Spec => []HealthMatchesFailures
<1>1. IInv => HealthMatchesFailures
  BY DEF IInv
<1> QED
  BY <1>1, InvariantHolds, PTL

(* _route calls a provider only after each one of higher priority failed    *)
(* this request or was unhealthy, however many there are.                   *)
THEOREM FailoverInPriorityOrder == Spec => []InPriorityOrder
<1>1. IInv => InPriorityOrder
  BY DEF IInv, InOrderFromHead, InPriorityOrder
<1> QED
  BY <1>1, InvariantHolds, PTL

(* AllProvidersFailedError is not raised while one provider of the pool has *)
(* never failed a post, whatever the others and the clock do.               *)
THEOREM OneProviderIsEnough == Spec => []OneSteadyProviderIsEnough
<1>1. IInv => OneSteadyProviderIsEnough
  BY DEF IInv
<1> QED
  BY <1>1, InvariantHolds, PTL
===============================================================================
