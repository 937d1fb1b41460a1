----------------------------- MODULE UnaryRetry -----------------------------
(***************************************************************************)
(* One unary call through the retry interceptor                            *)
(* (internal/interceptor/retry_interceptor.go) under the fixed-count or    *)
(* the never-retry strategy (internal/retry), over a network that loses    *)
(* requests and replies and delivers a request late, after its sender gave *)
(* up on it.  The service executes what it receives; `item` is the item    *)
(* the call is about, reduced to what the effect of a method can do to it. *)
(***************************************************************************)
EXTENDS Integers, FiniteSets

CONSTANTS
    MaxAttempts,    \* fixedCountRetryStrategy.maxAttempts (3 unless set)
    RetryStrategy   \* "fixedCount" or "never"

ASSUME StrategyAssumption ==
    MaxAttempts \in Int /\ RetryStrategy \in {"fixedCount", "never"}

-----------------------------------------------------------------------------
(* internal/retry/eligibility_strategy.go *)

RetryableStatusCodes == {"Internal", "Unavailable"}

\* The codes an invocation can fail with, as far as the strategy tells them
\* apart or its tests name them.
StatusCodes == RetryableStatusCodes \cup {"Canceled", "DeadlineExceeded", "Unknown"}

\* The methods the table says true for, by what they do to an item: nothing,
\* give it a value, take it or a part of it away.
Reads ==
    {"Get", "GetBatch", "KeysExist", "ItemGetTtl", "ItemGetType",
     "DictionaryGet", "DictionaryFetch", "DictionaryLength",
     "SetFetch", "SetSample", "SetContains", "SetLength", "ListFetch", "ListLength",
     "SortedSetFetch", "SortedSetGetScore", "SortedSetGetRank", "SortedSetLength",
     "SortedSetLengthByScore", "Subscribe"}

Puts == {"Set", "SetBatch", "DictionarySet", "SetUnion", "SortedSetPut"}

Removes ==
    {"Delete", "DictionaryDelete", "SetDifference", "ListRemove", "SortedSetRemove"}

\* The methods the table says false for: executed twice, they change the item
\* twice, or answer the second time that there was nothing to do.
Additions ==
    {"Increment", "DictionaryIncrement", "SortedSetIncrement", "ListPushFront",
     "ListPushBack", "ListConcatenateFront", "ListConcatenateBack"}

Withdrawals == {"SetPop", "ListPopFront", "ListPopBack"}

Conditionals == {"SetIf", "SetIfNotExists", "UpdateTtl", "ListRetain"}

\* Methods the table does not name, such as the control and token services'.
Unlisted == {"CreateCache", "GenerateApiKey", "Publish"}

Methods == Reads \cup Puts \cup Removes \cup Additions \cup Withdrawals
             \cup Conditionals \cup Unlisted

RetryableRequestMethods == Reads \cup Puts \cup Removes

\* A table that forgets that an addition is not idempotent.
IsEligibleForRetryMutant(statusCode, grpcMethod) ==
    /\ statusCode \in RetryableStatusCodes
    /\ grpcMethod \in RetryableRequestMethods \cup {"ListPushBack"}

IsEligibleForRetry(statusCode, grpcMethod) ==
    /\ statusCode \in RetryableStatusCodes
    /\ grpcMethod \in RetryableRequestMethods

-----------------------------------------------------------------------------
(* What one execution of a method does to the item, and what it answers *)

Initial == 2

Effect(grpcMethod, value) ==
    IF grpcMethod \in Reads THEN value
    ELSE IF grpcMethod \in Puts THEN 1
    ELSE IF grpcMethod \in Removes THEN 0
    ELSE IF grpcMethod \in Withdrawals THEN value - 1
    ELSE IF grpcMethod \in Conditionals /\ value # Initial THEN value
    ELSE value + 1

\* A put or a removal answers the same on any item; any other method's answer
\* depends on the item it finds.
Answer(grpcMethod, value) ==
    IF grpcMethod \in Puts \cup Removes THEN 0 ELSE value

VARIABLES
    pc,         \* "invoke", "waiting", "decide" or "returned"
    method,     \* the gRPC method called
    attempt,    \* the interceptor's counter
    statusCode, \* of the last invocation: "OK" or one of StatusCodes
    ctxDone,    \* the request's timeout context has expired
    inService,  \* invocations sent and not executed: on their way, or lost
    executed,   \* invocations the service executed
    item,       \* the item in the service
    answer      \* the service's answer to the current invocation

vars == <<pc, method, attempt, statusCode, ctxDone, inService, executed, item, answer>>

service == <<inService, executed, item, answer>>

TypeOK ==
    /\ pc \in {"invoke", "waiting", "decide", "returned"}
    /\ method \in Methods
    /\ attempt \in Nat \ {0}
    /\ statusCode \in {"OK"} \cup StatusCodes
    /\ ctxDone \in BOOLEAN
    /\ inService \subseteq 1 .. attempt
    /\ executed \subseteq 1 .. attempt
    /\ item \in Int
    /\ answer \in Int

Init ==
    /\ pc = "invoke"
    /\ method \in Methods
    /\ attempt = 1
    /\ statusCode = "OK"
    /\ ctxDone = FALSE
    /\ inService = {}
    /\ executed = {}
    /\ item = Initial
    /\ answer = Initial

-----------------------------------------------------------------------------
(* The interceptor *)

\* invoker(...): with a live context, the request is sent.
Invoke ==
    /\ pc = "invoke"
    /\ ~ctxDone
    /\ inService' = inService \cup {attempt}
    /\ pc' = "waiting"
    /\ UNCHANGED <<method, attempt, statusCode, ctxDone, executed, item, answer>>

\* With an expired one it fails and sends nothing.
InvokeTooLate ==
    /\ pc = "invoke"
    /\ ctxDone
    /\ statusCode' = "DeadlineExceeded"
    /\ pc' = "decide"
    /\ UNCHANGED <<method, attempt, ctxDone, service>>

\* The service's answer arrives: the interceptor returns nil.
Success ==
    /\ pc = "waiting"
    /\ attempt \in executed
    /\ statusCode' = "OK"
    /\ pc' = "returned"
    /\ UNCHANGED <<method, attempt, ctxDone, service>>

\* The invocation fails.  Whether the service executed it, will execute it
\* later or never got it, the interceptor cannot tell.
Failure ==
    /\ pc = "waiting"
    /\ statusCode' \in IF ctxDone THEN {"Canceled", "DeadlineExceeded"} ELSE StatusCodes
    /\ pc' = "decide"
    /\ UNCHANGED <<method, attempt, ctxDone, service>>

\* One retry too many.
DetermineWhenToRetryMutant ==
    /\ RetryStrategy = "fixedCount"
    /\ IsEligibleForRetry(statusCode, method)
    /\ ~(attempt > MaxAttempts + 1)

\* A backoff time, always 0 seconds, and not nil.
DetermineWhenToRetry ==
    /\ RetryStrategy = "fixedCount"
    /\ IsEligibleForRetry(statusCode, method)
    /\ ~(attempt > MaxAttempts)

\* A loop that forgets attempt++, and one that counts down.
NextAttemptMutant == attempt
NextAttemptDownMutant == attempt - 1

NextAttempt == attempt + 1

Retry ==
    /\ pc = "decide"
    /\ DetermineWhenToRetry
    /\ attempt' = NextAttempt
    /\ pc' = "invoke"
    /\ UNCHANGED <<method, statusCode, ctxDone, service>>

\* lastErr is returned.
GiveUp ==
    /\ pc = "decide"
    /\ ~DetermineWhenToRetry
    /\ pc' = "returned"
    /\ UNCHANGED <<method, attempt, statusCode, ctxDone, service>>

-----------------------------------------------------------------------------
(* The service and the clock *)

\* The service executes an invocation, which may be one the client gave up on.
Execute(a) ==
    /\ a \in inService
    /\ inService' = inService \ {a}
    /\ executed' = executed \cup {a}
    /\ item' = Effect(method, item)
    /\ answer' = IF a = attempt THEN Answer(method, item) ELSE answer
    /\ UNCHANGED <<pc, method, attempt, statusCode, ctxDone>>

ContextExpires ==
    /\ pc # "returned"
    /\ ~ctxDone
    /\ ctxDone' = TRUE
    /\ UNCHANGED <<pc, method, attempt, statusCode, service>>

Interceptor == Invoke \/ InvokeTooLate \/ Success \/ Failure \/ Retry \/ GiveUp

Next == Interceptor \/ (\E a \in inService : Execute(a)) \/ ContextExpires

Spec == Init /\ [][Next]_vars

(***************************************************************************)
(* Fairness: the interceptor's goroutine runs, and an invocation ends, as  *)
(* it has a deadline (scsDataClient.makeRequest sets one).  That the       *)
(* deadline passes before the retries are used up is not assumed.          *)
(***************************************************************************)
FairSpec == Spec /\ WF_vars(Interceptor)

-----------------------------------------------------------------------------
(* Properties *)

(***************************************************************************)
(* Retries cannot be seen: whatever was lost or late, the item is as no or *)
(* one execution of the call leaves it, even after the call returned, and  *)
(* a success reports what the one execution answered.  This is what "the   *)
(* call is idempotent" (IsEligibleForRetry) has to mean for the table.     *)
(***************************************************************************)
AsIfExecutedOnce ==
    /\ item \in {Initial, Effect(method, Initial)}
    /\ pc = "returned" /\ statusCode = "OK" => answer = Answer(method, Initial)

(***************************************************************************)
(* The service gets the call at most 1 + maxAttempts times, and once when  *)
(* the method is not listed as retryable or the strategy is never.         *)
(***************************************************************************)
InvocationsBounded ==
    \A a \in inService \cup executed :
        a > 1 => /\ a <= 1 + MaxAttempts
                 /\ method \in RetryableRequestMethods
                 /\ RetryStrategy = "fixedCount"

\* The call returns, even if the service fails every invocation in time.
Returns == <>(pc = "returned")

=============================================================================
