-------------------------- MODULE UnaryRetryProofs --------------------------
(***************************************************************************)
(* Theorems about UnaryRetry, for every number of attempts.                *)
(***************************************************************************)
EXTENDS UnaryRetry, TLAPS

USE DEF Initial

-----------------------------------------------------------------------------
(* Lemmas about the method table *)

\* The classes of retryable methods are told apart from those that are not.
LEMMA ClassesDisjoint ==
  /\ \A m \in Puts : m \notin Reads
  /\ \A m \in Removes : m \notin Reads /\ m \notin Puts
  BY DEF Reads, Puts, Removes

\* A retryable method is idempotent: on an item it was executed on already it
\* changes nothing and answers what it answered before.
LEMMA RetryableIsIdempotent ==
  ASSUME NEW m \in RetryableRequestMethods,
         NEW v \in {Initial, Effect(m, Initial)}
  PROVE  /\ Effect(m, v) = Effect(m, Initial)
         /\ Answer(m, v) = Answer(m, Initial)
  BY ClassesDisjoint DEF RetryableRequestMethods, Effect, Answer

LEMMA EffectAndAnswerAreInts ==
  ASSUME NEW m, NEW v \in Int
  PROVE  Effect(m, v) \in Int /\ Answer(m, v) \in Int
  BY DEF Effect, Answer

-----------------------------------------------------------------------------
(* The inductive invariant *)

\* The attempt about to be made is new; the ones before it were all retries.
AttemptsInOrder ==
    /\ inService \cap executed = {}
    /\ pc = "invoke" => attempt \notin inService \cup executed
    /\ attempt > 1 => /\ attempt <= 1 + MaxAttempts
                      /\ method \in RetryableRequestMethods
                      /\ RetryStrategy = "fixedCount"

\* What the executions so far did.
ItemAsOnce ==
    /\ item = IF executed = {} THEN Initial ELSE Effect(method, Initial)
    /\ pc \in {"waiting", "decide", "returned"} /\ attempt \in executed =>
          answer = Answer(method, Initial)
    /\ pc = "returned" /\ statusCode = "OK" => attempt \in executed
    /\ pc = "decide" => statusCode # "OK"

RetryInv == TypeOK /\ AttemptsInOrder /\ ItemAsOnce

LEMMA InitRetry == Init => RetryInv
<1> SUFFICES ASSUME Init PROVE RetryInv
  OBVIOUS
<1>1. TypeOK
  <2>1. item \in Int /\ answer \in Int /\ attempt \in Nat \ {0}
    BY DEF Init
  <2>2. inService \subseteq 1 .. attempt /\ executed \subseteq 1 .. attempt
    BY DEF Init
  <2>3. pc \in {"invoke", "waiting", "decide", "returned"} /\ ctxDone \in BOOLEAN
    BY DEF Init
  <2>4. method \in Methods /\ statusCode \in {"OK"} \cup StatusCodes
    BY DEF Init
  <2>5. QED
    BY <2>1, <2>2, <2>3, <2>4 DEF TypeOK
<1>2. AttemptsInOrder
  BY DEF Init, AttemptsInOrder
<1>3. ItemAsOnce
  BY DEF Init, ItemAsOnce
<1>4. QED
  BY <1>1, <1>2, <1>3 DEF RetryInv

LEMMA InterceptorRetry ==
  ASSUME RetryInv, Interceptor
  PROVE  RetryInv'
<1> USE DEF RetryInv
<1>1. CASE Invoke
  BY <1>1 DEF Invoke, TypeOK, AttemptsInOrder, ItemAsOnce
<1>2. CASE InvokeTooLate \/ Failure
  <2> "OK" \notin {"Canceled", "DeadlineExceeded"} \cup StatusCodes
    BY DEF StatusCodes, RetryableStatusCodes
  <2>1. TypeOK'
    BY <1>2 DEF InvokeTooLate, Failure, TypeOK, service, StatusCodes, RetryableStatusCodes
  <2>2. AttemptsInOrder' /\ ItemAsOnce'
    BY <1>2 DEF InvokeTooLate, Failure, AttemptsInOrder, ItemAsOnce, service
  <2>3. QED
    BY <2>1, <2>2
<1>3. CASE Success
  BY <1>3 DEF Success, TypeOK, AttemptsInOrder, ItemAsOnce, service
<1>4. CASE Retry
  <2>1. method \in RetryableRequestMethods
    BY <1>4 DEF Retry, DetermineWhenToRetry, IsEligibleForRetry
  <2>2. TypeOK'
    BY <1>4 DEF Retry, NextAttempt, TypeOK, service
  <2>3. AttemptsInOrder'
    BY <1>4, <2>1, StrategyAssumption
       DEF Retry, NextAttempt, DetermineWhenToRetry, TypeOK, AttemptsInOrder, service
  <2>4. ItemAsOnce'
    BY <1>4 DEF Retry, ItemAsOnce, service
  <2>5. QED
    BY <2>2, <2>3, <2>4
<1>5. CASE GiveUp
  BY <1>5 DEF GiveUp, TypeOK, AttemptsInOrder, ItemAsOnce, service
<1>6. QED
  BY <1>1, <1>2, <1>3, <1>4, <1>5 DEF Interceptor

LEMMA ExecuteRetry ==
  ASSUME RetryInv, NEW a \in inService, Execute(a)
  PROVE  RetryInv'
<1> USE DEF RetryInv, Execute
<1>1. TypeOK'
  BY EffectAndAnswerAreInts DEF TypeOK
<1>2. AttemptsInOrder'
  BY DEF AttemptsInOrder
<1>3. /\ Effect(method, item) = Effect(method, Initial)
      /\ Answer(method, item) = Answer(method, Initial)
  <2>1. CASE executed = {}
    BY <2>1 DEF ItemAsOnce
  <2>2. CASE executed # {}
    \* Two different invocations: the method is retryable.
    <3>1. PICK b \in executed : b # a
      BY <2>2 DEF AttemptsInOrder
    <3>2. attempt > 1
      BY <3>1 DEF TypeOK
    <3>3. method \in RetryableRequestMethods
      BY <3>2 DEF AttemptsInOrder
    <3>4. item \in {Initial, Effect(method, Initial)}
      BY DEF ItemAsOnce
    <3>5. QED
      BY <3>3, <3>4, RetryableIsIdempotent
  <2>3. QED
    BY <2>1, <2>2
<1>4. ItemAsOnce'
  <2>1. item' = Effect(method', Initial) /\ executed' # {}
    BY <1>3
  <2>2. pc' \in {"waiting", "decide", "returned"} /\ attempt' \in executed' =>
           answer' = Answer(method', Initial)
    BY <1>3 DEF ItemAsOnce
  <2>3. QED
    BY <2>1, <2>2 DEF ItemAsOnce
<1>5. QED
  BY <1>1, <1>2, <1>4

LEMMA NextRetry == RetryInv /\ [Next]_vars => RetryInv'
<1> SUFFICES ASSUME RetryInv, [Next]_vars PROVE RetryInv'
  OBVIOUS
<1>1. CASE ContextExpires \/ UNCHANGED vars
  BY <1>1 DEF ContextExpires, vars, service, RetryInv, TypeOK, AttemptsInOrder, ItemAsOnce
<1>2. QED
  BY <1>1, InterceptorRetry, ExecuteRetry DEF Next

LEMMA RetryInvariant == Spec => []RetryInv
  BY InitRetry, NextRetry, PTL DEF Spec

-----------------------------------------------------------------------------
(* The theorems *)

(***************************************************************************)
(* Every variable of the call keeps its type.                              *)
(***************************************************************************)
THEOREM TypeCorrect == Spec => []TypeOK
<1>1. RetryInv => TypeOK
  BY DEF RetryInv
<1>2. QED
  BY <1>1, RetryInvariant, PTL

(***************************************************************************)
(* However many attempts are allowed and whatever the network does, a call *)
(* through the retry interceptor has the effect and the answer of at most  *)
(* one execution.                                                          *)
(***************************************************************************)
THEOREM RetriesAreInvisible == Spec => []AsIfExecutedOnce
<1>1. RetryInv => AsIfExecutedOnce
  BY DEF RetryInv, ItemAsOnce, AsIfExecutedOnce
<1>2. QED
  BY <1>1, RetryInvariant, PTL

(***************************************************************************)
(* The service sees at most 1 + maxAttempts invocations of a call, and one *)
(* of a method that is not retryable.                                      *)
(***************************************************************************)
THEOREM AttemptsAreBounded == Spec => []InvocationsBounded
<1>1. RetryInv => InvocationsBounded
  BY StrategyAssumption DEF RetryInv, TypeOK, AttemptsInOrder, InvocationsBounded
<1>2. QED
  BY <1>1, RetryInvariant, PTL

=============================================================================
