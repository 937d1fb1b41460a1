------------------------ MODULE SetIfNotExistsProofs ------------------------
(***************************************************************************)
(* Theorems about SetIfNotExists, for every set of keys.                   *)
(***************************************************************************)
EXTENDS SetIfNotExists, TLAPS

\* BatchSet runs only after KeysExist found nothing; nothing is written before.
WritesAfterCheck ==
    /\ pc \in {"keysExist", "check"} => written = {}
    /\ existed # {} => written = {}
    /\ pc = "batchSet" => existed = {}
    /\ pc # "returned" => result = "none"
    /\ written \subseteq items

\* What settled as ok was written, and a result tells how the items settled.
ResultTellsOutcomes ==
    /\ \A k \in items : outcome[k] = "ok" => k \in written
    /\ result = "stored" => \A k \in items : outcome[k] = "ok"
    /\ result \in {"notStored", "keysExistError"} => written = {}

CallInv == TypeOK /\ WritesAfterCheck /\ ResultTellsOutcomes

USE DEF ReturnWith, AnyExisted, AllSet, Settled, Failed, Results

LEMMA InitCall == Init => CallInv
  BY DEF Init, CallInv, TypeOK, WritesAfterCheck, ResultTellsOutcomes

LEMMA BeforeBatchSet ==
  ASSUME CallInv, KeysExist \/ KeysExistFails \/ SomeExist \/ NoneExist
  PROVE  CallInv'
<1> USE DEF CallInv, TypeOK, WritesAfterCheck, ResultTellsOutcomes
<1>1. CASE KeysExist
  BY <1>1 DEF KeysExist
<1>2. CASE KeysExistFails
  BY <1>2 DEF KeysExistFails
<1>3. CASE SomeExist
  BY <1>3 DEF SomeExist
<1>4. CASE NoneExist
  BY <1>4 DEF NoneExist
<1>5. QED
  BY <1>1, <1>2, <1>3, <1>4

LEMMA ItemSettles ==
  ASSUME CallInv, NEW k \in items, SetItem(k) \/ SetItemFails(k)
  PROVE  CallInv'
<1> USE DEF CallInv, SetItem, SetItemFails, Write
<1>0. k \in Keys
  BY DEF TypeOK
<1>1. TypeOK'
  BY <1>0 DEF TypeOK
<1>2. existed = {}
  BY DEF WritesAfterCheck
<1>3. QED
  BY <1>1, <1>2 DEF TypeOK, WritesAfterCheck, ResultTellsOutcomes

LEMMA BatchSetReturns ==
  ASSUME CallInv, BatchSetFails \/ BatchSetSucceeds \/ EmptyBatchPanics
  PROVE  CallInv'
<1> USE DEF CallInv, TypeOK, WritesAfterCheck, ResultTellsOutcomes
<1>1. CASE BatchSetFails
  BY <1>1 DEF BatchSetFails
<1>2. CASE BatchSetSucceeds
  BY <1>2 DEF BatchSetSucceeds
<1>3. CASE EmptyBatchPanics
  BY <1>3 DEF EmptyBatchPanics
<1>4. QED
  BY <1>1, <1>2, <1>3

LEMMA NextCall == CallInv /\ [Next]_vars => CallInv'
<1> SUFFICES ASSUME CallInv, [Next]_vars PROVE CallInv'
  OBVIOUS
<1>1. ASSUME NEW k \in Keys, OthersSet(k) \/ OthersRemove(k)
      PROVE  CallInv'
  BY <1>1 DEF OthersSet, OthersRemove, CallInv, TypeOK, WritesAfterCheck,
     ResultTellsOutcomes
<1>2. CASE UNCHANGED vars
  BY <1>2 DEF vars, CallInv, TypeOK, WritesAfterCheck, ResultTellsOutcomes
<1>3. QED
  BY <1>1, <1>2, BeforeBatchSet, ItemSettles, BatchSetReturns DEF Next, Call

LEMMA CallInvariant == Spec => []CallInv
  BY InitCall, NextCall, PTL DEF Spec

(***************************************************************************)
(* Every variable of the call keeps its type.                              *)
(***************************************************************************)
THEOREM TypeCorrect == Spec => []TypeOK
<1>1. CallInv => TypeOK
  BY DEF CallInv
<1>2. QED
  BY <1>1, CallInvariant, PTL

(***************************************************************************)
(* However many items there are and whatever other clients do, the result  *)
(* of BatchSetIfNotExists tells which items were written.                  *)
(***************************************************************************)
THEOREM ResultIsTruthful == Spec => []ResultTellsWrites
<1>1. CallInv => ResultTellsWrites
  BY DEF CallInv, WritesAfterCheck, ResultTellsOutcomes, ResultTellsWrites
<1>2. QED
  BY <1>1, CallInvariant, PTL

-----------------------------------------------------------------------------
(* Whose values can be replaced *)

\* Once KeysExist saw no key of the list, another client's value under one of
\* them is new.
TheirsAreNew ==
    pc \in {"check", "batchSet"} /\ existed = {} =>
        \A k \in items : cache[k] = "theirs" => k \in newcomers

LEMMA NextTheirsAreNew == CallInv /\ TheirsAreNew /\ [Next]_vars => TheirsAreNew'
<1> SUFFICES ASSUME CallInv, TheirsAreNew, [Next]_vars
             PROVE  TheirsAreNew'
  OBVIOUS
<1> USE DEF TheirsAreNew, CallInv
<1>1. CASE KeysExist \/ KeysExistFails \/ SomeExist \/ NoneExist
  BY <1>1 DEF KeysExist, KeysExistFails, SomeExist, NoneExist, TypeOK
<1>2. ASSUME NEW k \in items, SetItem(k) \/ SetItemFails(k)
      PROVE  TheirsAreNew'
  BY <1>2 DEF SetItem, SetItemFails, Write, TypeOK
<1>3. CASE BatchSetFails \/ BatchSetSucceeds \/ EmptyBatchPanics
  BY <1>3 DEF BatchSetFails, BatchSetSucceeds, EmptyBatchPanics
<1>4. ASSUME NEW k \in Keys, OthersSet(k) \/ OthersRemove(k)
      PROVE  TheirsAreNew'
  BY <1>4 DEF OthersSet, OthersRemove, TypeOK
<1>5. CASE UNCHANGED vars
  BY <1>5 DEF vars
<1>6. QED
  BY <1>1, <1>2, <1>3, <1>4, <1>5 DEF Next, Call

LEMMA StepReplacesNewcomers ==
  CallInv /\ TheirsAreNew /\ [Next]_vars =>
    [\A k \in Keys :
        cache[k] = "theirs" /\ cache'[k] = "ours" => k \in newcomers]_cache
<1> SUFFICES ASSUME CallInv, TheirsAreNew, [Next]_vars,
                    NEW k \in Keys, cache[k] = "theirs", cache'[k] = "ours"
             PROVE  k \in newcomers
  OBVIOUS
<1>1. ASSUME NEW i \in items, SetItem(i) \/ SetItemFails(i)
      PROVE  k \in newcomers
  <2>1. pc = "batchSet" /\ existed = {}
    BY <1>1 DEF SetItem, SetItemFails, CallInv, WritesAfterCheck
  <2>2. CASE cache' = [cache EXCEPT ![i] = "ours"]
    <3>1. k = i
      BY <2>2 DEF CallInv, TypeOK
    <3>2. QED
      BY <3>1, <2>1 DEF TheirsAreNew
  <2>3. CASE cache' = cache
    BY <2>3
  <2>4. QED
    BY <1>1, <2>2, <2>3 DEF SetItem, SetItemFails, Write
<1>2. ASSUME NEW i \in Keys, OthersSet(i) \/ OthersRemove(i)
      PROVE  FALSE
  BY <1>2 DEF OthersSet, OthersRemove, CallInv, TypeOK
<1>3. QED
  BY <1>1, <1>2 DEF Next, Call, vars, KeysExist, KeysExistFails, SomeExist,
     NoneExist, BatchSetFails, BatchSetSucceeds, EmptyBatchPanics

LEMMA TheirsAreNewInvariant == Spec => []TheirsAreNew
<1>1. Init => TheirsAreNew
  BY DEF Init, TheirsAreNew
<1>2. QED
  BY <1>1, NextTheirsAreNew, CallInvariant, PTL DEF Spec

(***************************************************************************)
(* A value that was in the cache before KeysExist answered is never        *)
(* replaced by a Set of this call, for any list and any other clients.     *)
(***************************************************************************)
THEOREM NewcomersOnly == Spec => ReplacesOnlyNewcomers
  BY TheirsAreNewInvariant, StepReplacesNewcomers, CallInvariant, PTL
     DEF Spec, ReplacesOnlyNewcomers

-----------------------------------------------------------------------------
(* A client that has the keys to itself *)

LEMMA NoNewcomersAlone ==
  ASSUME ~OtherClients
  PROVE  Spec => [](newcomers = {})
<1>1. Init => newcomers = {}
  BY DEF Init
<1>2. newcomers = {} /\ [Next]_vars => (newcomers = {})'
  BY DEF Next, Call, vars, KeysExist, KeysExistFails, SomeExist, NoneExist, SetItem,
     SetItemFails, BatchSetFails, BatchSetSucceeds, EmptyBatchPanics, OthersSet,
     OthersRemove
<1>3. QED
  BY <1>1, <1>2, PTL DEF Spec

(***************************************************************************)
(* For a client that has the keys to itself, the promise of the comment    *)
(* holds: no value of another client is replaced, for any list of items.   *)
(***************************************************************************)
THEOREM AloneOnlyIfNoneExist ==
  ASSUME ~OtherClients
  PROVE  Spec => OnlyIfNoneExist
<1>1. newcomers = {}
      /\ [\A k \in Keys :
            cache[k] = "theirs" /\ cache'[k] = "ours" => k \in newcomers]_cache
      => [\A k \in Keys : cache[k] = "theirs" => cache'[k] # "ours"]_cache
  OBVIOUS
<1>2. QED
  BY <1>1, NewcomersOnly, NoNewcomersAlone, PTL
     DEF ReplacesOnlyNewcomers, OnlyIfNoneExist

=============================================================================
