---------------------------- MODULE BatchWorkers ----------------------------
(***************************************************************************)
(* The worker pool of batchutils: BatchGet, BatchSet and BatchDelete.      *)
(*                                                                         *)
(* The caller's goroutine puts every key on a buffered channel, then one   *)
(* nil per worker; a worker takes keys, sends one request for each, puts   *)
(* its outcome on the result channel, and exits on a nil.  The caller      *)
(* waits for all workers, collects one outcome per key and returns.        *)
(* BatchDelete has a smaller key channel and returns no responses.         *)
(***************************************************************************)
EXTENDS Integers, Sequences, FiniteSets

CONSTANTS
    Keys,           \* the sequence of keys (BatchSet: of items) in the request
    MaxConcurrent,  \* MaxConcurrentGets, ...Sets or ...Deletes; 0 if not set
    IsDelete,       \* BatchDelete, as opposed to BatchGet or BatchSet
    Unhashable,     \* keys of type Bytes, which a map cannot be indexed with
    Nil             \* the nil that tells a worker to exit

ASSUME KeysAssumption == Len(Keys) \in Nat /\ DOMAIN Keys = 1 .. Len(Keys)
ASSUME RequestAssumption == MaxConcurrent \in Nat /\ IsDelete \in BOOLEAN

\* maxConcurrentGets, maxConcurrentSets, maxConcurrentDeletes
DefaultMaxConcurrent == 5

N == Len(Keys)

\* The number of workers: the default for 0, and never more than keys.
NumWorkers ==
    LET wanted == IF MaxConcurrent = 0 THEN DefaultMaxConcurrent ELSE MaxConcurrent
    IN IF N < wanted THEN N ELSE wanted

Workers == 1 .. NumWorkers

\* The capacity of the key channel.
Capacity == IF IsDelete THEN NumWorkers ELSE N

(***************************************************************************)
(* The key channel is first in, first out and is fed in a fixed order: its *)
(* k-th message is the k-th key, or a nil once k passes N.  Two counters   *)
(* describe it.                                                            *)
(***************************************************************************)
VARIABLES
    main,       \* the caller: "put", "wait", "collect", "done" or "crashed"
    sent,       \* messages put on the key channel
    taken,      \* messages taken from it
    worker,     \* per worker: "take", "call" or "exited"
    holding,    \* per worker: position of the key it works on
    outcome,    \* per position: what was put on the result channel
    collected,  \* positions the caller has taken from the result channel
    returned    \* {} until the call returns, then the keys of its maps

vars == <<main, sent, taken, worker, holding, outcome, collected, returned>>

Positions == 1 .. N

Results == {p \in Positions : outcome[p] # "none"}

Exited == {w \in Workers : worker[w] = "exited"}

TypeOK ==
    /\ main \in {"put", "wait", "collect", "done", "crashed"}
    /\ sent \in 0 .. N + NumWorkers
    /\ taken \in 0 .. sent
    /\ worker \in [Workers -> {"take", "call", "exited"}]
    /\ holding \in [Workers -> 0 .. N]
    /\ outcome \in [Positions -> {"none", "ok", "error"}]
    /\ collected \subseteq Positions

Init ==
    /\ main = "put"
    /\ sent = 0
    /\ taken = 0
    /\ worker = [w \in Workers |-> "take"]
    /\ holding = [w \in Workers |-> 0]
    /\ outcome = [p \in Positions |-> "none"]
    /\ collected = {}
    /\ returned = {}

-----------------------------------------------------------------------------
(* The caller's goroutine *)

\* Off by one, either way.
NilsNeededMutant == NumWorkers - 1
NilsExtraMutant == NumWorkers + 1

\* One nil for each worker.
NilsNeeded == NumWorkers

\* Put the next key, or the next nil; a full channel blocks.
PutMessage ==
    /\ main = "put"
    /\ sent < N + NilsNeeded
    /\ sent - taken < Capacity
    /\ sent' = sent + 1
    /\ UNCHANGED <<main, taken, worker, holding, outcome, collected, returned>>

PutDone ==
    /\ main = "put"
    /\ sent = N + NilsNeeded
    /\ main' = "wait"
    /\ UNCHANGED <<sent, taken, worker, holding, outcome, collected, returned>>

AllDoneMutant == \E w \in Workers : worker[w] = "exited"

\* The wait group's counter is zero.
AllDone == \A w \in Workers : worker[w] = "exited"

WaitDone ==
    /\ main = "wait"
    /\ AllDone
    /\ main' = "collect"
    /\ UNCHANGED <<sent, taken, worker, holding, outcome, collected, returned>>

\* The outcome goes into a map whose key is the cache key; BatchDelete has no
\* map for the keys it deleted.
CannotStore(p) == Keys[p] \in Unhashable /\ (IsDelete => outcome[p] = "error")

\* Take one more outcome from the result channel; an empty channel blocks.
Collect ==
    /\ main = "collect"
    /\ Cardinality(collected) < N
    /\ \E p \in Results \ collected :
          ~CannotStore(p) /\ collected' = collected \cup {p}
    /\ UNCHANGED <<main, sent, taken, worker, holding, outcome, returned>>

\* "hash of unhashable type": the process panics.
CollectPanics ==
    /\ main = "collect"
    /\ \E p \in Results \ collected : CannotStore(p)
    /\ main' = "crashed"
    /\ UNCHANGED <<sent, taken, worker, holding, outcome, collected, returned>>

CollectedKeys(o) == {Keys[p] : p \in {q \in collected : outcome[q] = o}}

\* N outcomes were collected into the two maps.
Return ==
    /\ main = "collect"
    /\ Cardinality(collected) = N
    /\ main' = "done"
    /\ returned' = {[responses |-> IF IsDelete THEN {} ELSE CollectedKeys("ok"),
                     errors    |-> CollectedKeys("error")]}
    /\ UNCHANGED <<sent, taken, worker, holding, outcome, collected>>

-----------------------------------------------------------------------------
(* A worker *)

\* The message a worker takes next is a key, and not a nil: the caller's own
\* nils are told apart from a nil in the list by nothing.
NextIsKey == taken < N /\ Keys[taken + 1] # Nil

\* Two workers that take the same message.
TakeKeyMutant(w) ==
    /\ worker[w] = "take"
    /\ taken < sent
    /\ NextIsKey
    /\ taken' \in {taken, taken + 1}
    /\ holding' = [holding EXCEPT ![w] = taken + 1]
    /\ worker' = [worker EXCEPT ![w] = "call"]
    /\ UNCHANGED <<main, sent, outcome, collected, returned>>

TakeKey(w) ==
    /\ worker[w] = "take"
    /\ taken < sent
    /\ NextIsKey
    /\ taken' = taken + 1
    /\ holding' = [holding EXCEPT ![w] = taken + 1]
    /\ worker' = [worker EXCEPT ![w] = "call"]
    /\ UNCHANGED <<main, sent, outcome, collected, returned>>

TakeNil(w) ==
    /\ worker[w] = "take"
    /\ taken < sent
    /\ ~NextIsKey
    /\ taken' = taken + 1
    /\ worker' = [worker EXCEPT ![w] = "exited"]
    /\ UNCHANGED <<main, sent, holding, outcome, collected, returned>>

\* The request returns, at the latest when its timeout context expires, and its
\* outcome goes to the result channel, which has room for N.
CallReturns(w) ==
    /\ worker[w] = "call"
    /\ Cardinality(Results) < N
    /\ \E o \in {"ok", "error"} : outcome' = [outcome EXCEPT ![holding[w]] = o]
    /\ holding' = [holding EXCEPT ![w] = 0]
    /\ worker' = [worker EXCEPT ![w] = "take"]
    /\ UNCHANGED <<main, sent, taken, collected, returned>>

-----------------------------------------------------------------------------
Caller == PutMessage \/ PutDone \/ WaitDone \/ Collect \/ CollectPanics \/ Return

WorkerStep(w) == TakeKey(w) \/ TakeNil(w) \/ CallReturns(w)

\* The call has returned, or the process is gone; nothing is left to do.
Finished == main \in {"done", "crashed"} /\ UNCHANGED vars

Next == Caller \/ (\E w \in Workers : WorkerStep(w)) \/ Finished

Spec == Init /\ [][Next]_vars

(***************************************************************************)
(* Fairness: the scheduler runs the caller and every worker that can move; *)
(* a request ends because it runs under context.WithTimeout.               *)
(***************************************************************************)
FairSpec == Spec /\ WF_vars(Caller) /\ \A w \in Workers : WF_vars(WorkerStep(w))

-----------------------------------------------------------------------------
(* Properties *)

(***************************************************************************)
(* When the wait group lets the caller go on, every key has its outcome    *)
(* and no worker is left behind on the key channel: the nils go to the     *)
(* workers one each, and never overtake a key.                             *)
(***************************************************************************)
NoKeyLost ==
    main \in {"collect", "done"} =>
        /\ Results = Positions
        /\ taken = sent
        /\ Exited = Workers

(***************************************************************************)
(* No two workers hold the same key, and no worker holds a key that has an *)
(* outcome already: each key is requested once.                            *)
(***************************************************************************)
NoKeyTwice ==
    \A w \in Workers : worker[w] = "call" =>
        /\ holding[w] \notin Results
        /\ \A v \in Workers \ {w} : worker[v] = "call" => holding[v] # holding[w]

(***************************************************************************)
(* No order of the workers' steps blocks a channel for good: for a list    *)
(* without a nil the call ends, and it ends by returning unless a key of   *)
(* type Bytes makes it panic.                                              *)
(***************************************************************************)
NeverBlocks == <>(main \in IF Unhashable = {} THEN {"done"} ELSE {"done", "crashed"})

Batch == INSTANCE BatchOperation WITH outcome <- outcome, returned <- returned

\* The pool implements the batch operation's promise: whenever it returns, it
\* returns exactly what settled.
ImplementsBatchOperation == Batch!Spec

=============================================================================
