------------------------- MODULE BatchWorkersProofs -------------------------
(***************************************************************************)
(* Theorems about BatchWorkers, for every list of keys without a nil and   *)
(* every requested concurrency.                                            *)
(***************************************************************************)
EXTENDS BatchWorkers, FiniteSetTheorems, TLAPS

NoNilKey == \A p \in Positions : Keys[p] # Nil

LEMMA Sizes ==
  /\ N \in Nat /\ NumWorkers \in Nat
  /\ NumWorkers <= N
  /\ NumWorkers = 0 => N = 0
  /\ Positions = 1 .. N /\ Workers = 1 .. NumWorkers
  /\ DOMAIN Keys = 1 .. N
  BY KeysAssumption, RequestAssumption
     DEF N, NumWorkers, DefaultMaxConcurrent, Positions, Workers

LEMMA FiniteWorkers ==
  /\ IsFiniteSet(Workers) /\ Cardinality(Workers) = NumWorkers
  /\ IsFiniteSet(Positions) /\ Cardinality(Positions) = N
<1>1. ASSUME NEW n \in Nat
      PROVE  IsFiniteSet(1 .. n) /\ Cardinality(1 .. n) = n
  <2>1. Cardinality(1 .. n) = IF 1 > n THEN 0 ELSE n - 1 + 1
    BY FS_Interval
  <2>2. IsFiniteSet(1 .. n)
    BY FS_Interval
  <2>3. QED
    BY <2>1, <2>2
<1>2. Workers = 1 .. NumWorkers /\ Positions = 1 .. N
  BY Sizes
<1>3. QED
  BY <1>1, <1>2, Sizes, Zenon

\* A new member of Exited raises its size by one.
LEMMA OneMoreExited ==
  ASSUME NEW T \in SUBSET Workers, NEW w \in Workers, w \notin T
  PROVE  Cardinality(T \cup {w}) = Cardinality(T) + 1 /\ Cardinality(T) \in Nat
  BY FiniteWorkers, FS_Subset, FS_AddElement, FS_CardinalityType

-----------------------------------------------------------------------------
(* The inductive invariant *)

\* A worker in a call holds a key that was taken and has no outcome.
HeldKeys ==
    \A w \in Workers : worker[w] = "call" =>
        /\ holding[w] \in Positions
        /\ holding[w] <= taken
        /\ outcome[holding[w]] = "none"

OneHolder ==
    \A v, w \in Workers :
        v # w /\ worker[v] = "call" /\ worker[w] = "call" => holding[v] # holding[w]

\* A key that was taken has an outcome or a worker that will give it one; a key
\* still on the channel has neither.
TakenKeys ==
    \A p \in Positions :
        /\ p <= taken => outcome[p] # "none" \/ \E w \in Workers :
                            worker[w] = "call" /\ holding[w] = p
        /\ p > taken => outcome[p] = "none"

\* Every nil that was taken stopped one worker.
NilsTaken == Cardinality(Exited) = IF taken > N THEN taken - N ELSE 0

CallerProgress ==
    /\ main # "put" => sent = N + NumWorkers
    /\ main \in {"collect", "done"} => Exited = Workers
    /\ main # "done" => returned = {}
    /\ collected \subseteq Results

PoolInv ==
    TypeOK /\ HeldKeys /\ OneHolder /\ TakenKeys /\ NilsTaken /\ CallerProgress

USE DEF NilsNeeded, AllDone, NextIsKey

LEMMA InitPool == Init => PoolInv
<1> SUFFICES ASSUME Init PROVE PoolInv
  OBVIOUS
<1>1. TypeOK
  BY Sizes DEF Init, TypeOK
<1>2. HeldKeys /\ OneHolder /\ TakenKeys
  BY Sizes DEF Init, HeldKeys, OneHolder, TakenKeys
<1>3. Exited = {}
  BY DEF Init, Exited
<1>4. NilsTaken
  BY <1>3, Sizes, FS_EmptySet DEF Init, NilsTaken
<1>5. CallerProgress
  BY DEF Init, CallerProgress
<1>6. QED
  BY <1>1, <1>2, <1>4, <1>5 DEF PoolInv

LEMMA CallerPool ==
  ASSUME PoolInv, Caller
  PROVE  PoolInv'
<1> USE DEF PoolInv
<1>1. UNCHANGED <<taken, worker, holding, outcome>>
  BY DEF Caller, PutMessage, PutDone, WaitDone, Collect, CollectPanics, Return
<1>2. HeldKeys' /\ OneHolder' /\ TakenKeys'
  BY <1>1 DEF HeldKeys, OneHolder, TakenKeys
<1>3. Exited' = Exited /\ Results' = Results
  BY <1>1 DEF Exited, Results
<1>4. NilsTaken'
  BY <1>1, <1>3 DEF NilsTaken
<1>5. TypeOK' /\ CallerProgress'
  <2>1. CASE PutMessage
    BY <2>1, <1>3, Sizes DEF PutMessage, TypeOK, CallerProgress
  <2>2. CASE PutDone
    BY <2>2, <1>3, Sizes DEF PutDone, TypeOK, CallerProgress
  <2>3. CASE WaitDone
    <3>1. Exited = Workers
      BY <2>3 DEF WaitDone, Exited
    <3>2. QED
      BY <2>3, <3>1, <1>3, Sizes DEF WaitDone, TypeOK, CallerProgress
  <2>4. CASE Collect
    BY <2>4, <1>3, Sizes DEF Collect, TypeOK, CallerProgress, Results
  <2>5. CASE Return
    BY <2>5, <1>3, Sizes DEF Return, TypeOK, CallerProgress
  <2>6. CASE CollectPanics
    BY <2>6, <1>3, Sizes DEF CollectPanics, TypeOK, CallerProgress
  <2>7. QED
    BY <2>1, <2>2, <2>3, <2>4, <2>5, <2>6 DEF Caller
<1>6. QED
  BY <1>2, <1>4, <1>5

LEMMA TakeKeyPool ==
  ASSUME PoolInv, NEW w \in Workers, TakeKey(w)
  PROVE  PoolInv'
<1> USE Sizes DEF PoolInv, TakeKey
<1>1. TypeOK'
  BY DEF TypeOK
<1>2. HeldKeys' /\ OneHolder' /\ TakenKeys'
  BY DEF HeldKeys, OneHolder, TakenKeys, TypeOK
<1>3. Exited' = Exited
  BY DEF Exited, TypeOK
<1>4. NilsTaken'
  BY <1>3 DEF NilsTaken, TypeOK
<1>5. CallerProgress'
  BY <1>3 DEF CallerProgress, Results
<1>6. QED
  BY <1>1, <1>2, <1>4, <1>5

LEMMA TakeNilPool ==
  ASSUME NoNilKey, PoolInv, NEW w \in Workers, TakeNil(w)
  PROVE  PoolInv'
<1> USE Sizes DEF PoolInv, TakeNil
<1>1. taken >= N
  BY DEF NoNilKey, TypeOK
<1>2. TypeOK'
  BY DEF TypeOK
<1>3. HeldKeys' /\ OneHolder' /\ TakenKeys'
  BY <1>1 DEF HeldKeys, OneHolder, TakenKeys, TypeOK
<1>4. Exited \in SUBSET Workers /\ w \notin Exited /\ Exited' = Exited \cup {w}
  BY DEF Exited, TypeOK
<1>5. Cardinality(Exited') = Cardinality(Exited) + 1
  BY <1>4, OneMoreExited
<1>6. NilsTaken'
  BY <1>1, <1>5 DEF NilsTaken, TypeOK
<1>7. CallerProgress'
  BY <1>4 DEF CallerProgress, Results
<1>8. QED
  BY <1>2, <1>3, <1>6, <1>7

LEMMA CallReturnsPool ==
  ASSUME PoolInv, NEW w \in Workers, CallReturns(w)
  PROVE  PoolInv'
<1> USE Sizes DEF PoolInv, CallReturns
<1>1. holding[w] \in Positions /\ holding[w] <= taken /\ outcome[holding[w]] = "none"
  BY DEF HeldKeys
<1>2. TypeOK'
  BY <1>1 DEF TypeOK
<1>3. HeldKeys'
  BY <1>1 DEF HeldKeys, OneHolder, TypeOK
<1>4. OneHolder'
  BY DEF OneHolder, TypeOK
<1>5. TakenKeys'
  <2> SUFFICES ASSUME NEW p \in Positions
               PROVE  /\ p <= taken' => outcome'[p] # "none" \/ \E v \in Workers :
                                           worker'[v] = "call" /\ holding'[v] = p
                      /\ p > taken' => outcome'[p] = "none"
    BY DEF TakenKeys
  <2>1. CASE p = holding[w]
    BY <2>1, <1>1 DEF TypeOK
  <2>2. CASE p # holding[w]
    <3>1. outcome'[p] = outcome[p]
      BY <2>2, <1>1 DEF TypeOK
    <3>2. ASSUME NEW v \in Workers, worker[v] = "call", holding[v] = p
          PROVE  worker'[v] = "call" /\ holding'[v] = p
      BY <3>2, <2>2 DEF TypeOK
    <3>3. QED
      BY <3>1, <3>2 DEF TakenKeys
  <2>3. QED
    BY <2>1, <2>2
<1>6. Exited' = Exited
  BY DEF Exited, TypeOK
<1>7. NilsTaken'
  BY <1>6 DEF NilsTaken
<1>8. CallerProgress'
  <2>1. Results \subseteq Results'
    BY <1>1 DEF Results, TypeOK
  <2>2. QED
    BY <1>6, <2>1 DEF CallerProgress
<1>9. QED
  BY <1>2, <1>3, <1>4, <1>5, <1>7, <1>8

LEMMA NextPool ==
  ASSUME NoNilKey
  PROVE  PoolInv /\ [Next]_vars => PoolInv'
<1> SUFFICES ASSUME PoolInv, [Next]_vars PROVE PoolInv'
  OBVIOUS
<1>1. CASE Caller
  BY <1>1, CallerPool
<1>2. ASSUME NEW w \in Workers, WorkerStep(w)
      PROVE  PoolInv'
  BY <1>2, TakeKeyPool, TakeNilPool, CallReturnsPool DEF WorkerStep
<1>3. CASE UNCHANGED vars
  BY <1>3 DEF vars, PoolInv, TypeOK, HeldKeys, OneHolder, TakenKeys,
     NilsTaken, CallerProgress, Exited, Results
<1>4. QED
  BY <1>1, <1>2, <1>3 DEF Next, Finished

LEMMA PoolInvariant ==
  ASSUME NoNilKey
  PROVE  Spec => []PoolInv
  BY InitPool, NextPool, PTL DEF Spec

-----------------------------------------------------------------------------
(* The theorems *)

LEMMA AllSettled ==
  ASSUME PoolInv, main \in {"collect", "done"}
  PROVE  Results = Positions /\ taken = sent /\ Exited = Workers
<1> USE Sizes DEF PoolInv
<1>1. Exited = Workers /\ sent = N + NumWorkers
  BY DEF CallerProgress
<1>2. (IF taken > N THEN taken - N ELSE 0) = NumWorkers
  BY <1>1, FiniteWorkers DEF NilsTaken
<1>3. taken = sent /\ taken >= N
  BY <1>1, <1>2 DEF TypeOK
<1>4. \A w \in Workers : worker[w] # "call"
  BY <1>1 DEF Exited
<1>5. \A p \in Positions : outcome[p] # "none"
  BY <1>3, <1>4 DEF TakenKeys, TypeOK
<1>6. QED
  BY <1>1, <1>3, <1>5 DEF Results

(***************************************************************************)
(* Every variable of the pool keeps its type.                              *)
(***************************************************************************)
THEOREM TypeCorrect ==
  ASSUME NoNilKey
  PROVE  Spec => []TypeOK
<1>1. PoolInv => TypeOK
  BY DEF PoolInv
<1>2. QED
  BY <1>1, PoolInvariant, PTL

(***************************************************************************)
(* However many keys and workers there are, when wg.Wait returns every key *)
(* has an outcome on the result channel, the key channel is empty and      *)
(* every worker has exited.                                                *)
(***************************************************************************)
THEOREM WaitLosesNoKey ==
  ASSUME NoNilKey
  PROVE  Spec => []NoKeyLost
<1>1. PoolInv => NoKeyLost
  BY AllSettled DEF NoKeyLost
<1>2. QED
  BY <1>1, PoolInvariant, PTL

(***************************************************************************)
(* Each key is requested by one worker, once.                              *)
(***************************************************************************)
THEOREM KeysRequestedOnce ==
  ASSUME NoNilKey
  PROVE  Spec => []NoKeyTwice
<1>1. PoolInv => NoKeyTwice
  BY DEF PoolInv, HeldKeys, OneHolder, NoKeyTwice, Results
<1>2. QED
  BY <1>1, PoolInvariant, PTL

LEMMA CollectedEverything ==
  ASSUME PoolInv, Cardinality(collected) = N
  PROVE  collected = Positions
  BY FiniteWorkers, FS_Subset DEF PoolInv, TypeOK

LEMMA BatchInit == Init => Batch!Init
  BY Sizes DEF Init, Batch!Init, Batch!Positions

LEMMA BatchStep ==
  ASSUME PoolInv, [Next]_vars
  PROVE  [Batch!Next]_(Batch!vars)
<1> USE Sizes DEF Batch!vars, Batch!Positions
<1>1. CASE PutMessage \/ PutDone \/ WaitDone \/ Collect \/ CollectPanics \/ UNCHANGED vars
  BY <1>1 DEF PutMessage, PutDone, WaitDone, Collect, CollectPanics, vars
<1>2. CASE Return
  <2>1. collected = Positions
    BY <1>2, CollectedEverything DEF Return
  <2>2. \A p \in Positions : outcome[p] # "none"
    BY <1>2, AllSettled DEF Return, Results
  <2>3. returned = {}
    BY <1>2 DEF Return, PoolInv, CallerProgress
  <2>4. \A o : CollectedKeys(o) = Batch!KeysWith(o)
    BY <2>1 DEF CollectedKeys, Batch!KeysWith
  <2>5. Batch!Return
    BY <1>2, <2>2, <2>3, <2>4 DEF Return, Batch!Return
  <2>6. QED
    BY <2>5 DEF Batch!Next
<1>3. ASSUME NEW w \in Workers, WorkerStep(w)
      PROVE  [Batch!Next]_(Batch!vars)
  <2>1. CASE TakeKey(w) \/ TakeNil(w)
    BY <2>1 DEF TakeKey, TakeNil
  <2>2. CASE CallReturns(w)
    <3>1. holding[w] \in DOMAIN Keys /\ outcome[holding[w]] = "none"
      BY <2>2 DEF CallReturns, PoolInv, HeldKeys
    <3>2. Batch!Settle(holding[w])
      BY <2>2, <3>1 DEF CallReturns, Batch!Settle
    <3>3. QED
      BY <3>1, <3>2 DEF Batch!Next
  <2>3. QED
    BY <1>3, <2>1, <2>2 DEF WorkerStep
<1>4. QED
  BY <1>1, <1>2, <1>3 DEF Next, Caller, Finished

(***************************************************************************)
(* BatchGet, BatchSet and BatchDelete implement the batch operation: they  *)
(* return only when every key has settled, with exactly what settled.      *)
(***************************************************************************)
THEOREM PoolImplementsBatch ==
  ASSUME NoNilKey
  PROVE  Spec => ImplementsBatchOperation
  BY PoolInvariant, BatchInit, BatchStep, PTL
     DEF Spec, ImplementsBatchOperation, Batch!Spec
=============================================================================
