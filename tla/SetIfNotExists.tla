--------------------------- MODULE SetIfNotExists ---------------------------
(***************************************************************************)
(* batchutils.BatchSetIfNotExists: one KeysExist request, then a BatchSet  *)
(* of all items if no key existed.  Other clients of the cache write,      *)
(* delete and let expire the same keys between any two of its steps.       *)
(* BatchSet is here what BatchOperation promises and BatchWorkers is shown *)
(* to implement: each item settles once, in any order.                     *)
(***************************************************************************)
EXTENDS FiniteSets

CONSTANTS
    Keys,         \* the keys clients use
    OtherClients  \* whether anyone else uses these keys

ASSUME RequestAssumption == IsFiniteSet(Keys) /\ OtherClients \in BOOLEAN

VARIABLES
    items,    \* the keys of props.Items
    pc,       \* "keysExist", "check", "batchSet" or "returned"
    cache,    \* per key: "absent", "theirs" or "ours"
    existed,  \* the reply of KeysExist, as the set of keys that existed
    outcome,  \* per key: "none", "ok" or "error" of its Set
    result,   \* what the call returned
    \* what happened in the service
    written,   \* keys whose Set of this call was executed
    newcomers  \* keys another client has set since KeysExist answered

vars == <<items, pc, cache, existed, outcome, result, written, newcomers>>

Results == {"none", "notStored", "stored", "keysExistError", "setError", "panic"}

TypeOK ==
    /\ items \subseteq Keys
    /\ pc \in {"keysExist", "check", "batchSet", "returned"}
    /\ cache \in [Keys -> {"absent", "theirs", "ours"}]
    /\ existed \subseteq Keys
    /\ outcome \in [Keys -> {"none", "ok", "error"}]
    /\ result \in Results
    /\ written \subseteq Keys
    /\ newcomers \subseteq Keys

Init ==
    /\ items \in SUBSET Keys
    /\ pc = "keysExist"
    /\ cache \in [Keys -> {"absent", "theirs"}]
    /\ existed = {}
    /\ outcome = [k \in Keys |-> "none"]
    /\ result = "none"
    /\ written = {}
    /\ newcomers = {}

ReturnWith(r) == pc' = "returned" /\ result' = r

-----------------------------------------------------------------------------
(* The call *)

\* Reads the reply as values instead of keys.
KeysExistMutant ==
    /\ pc = "keysExist"
    /\ existed' = {cache[k] : k \in items}
    /\ pc' = "check"
    /\ UNCHANGED <<items, cache, outcome, result, written, newcomers>>

\* The reply says of each key of the list whether it exists.
KeysExist ==
    /\ pc = "keysExist"
    /\ existed' = {k \in items : cache[k] # "absent"}
    /\ pc' = "check"
    /\ UNCHANGED <<items, cache, outcome, result, written, newcomers>>

\* Every key is mapped to KeysExist's error.
KeysExistFails ==
    /\ pc = "keysExist"
    /\ ReturnWith("keysExistError")
    /\ UNCHANGED <<items, cache, existed, outcome, written, newcomers>>

\* Looks for a key that is missing instead of one that exists.
AnyExistedMutant == items \subseteq existed

AnyExisted == existed # {}

SomeExist ==
    /\ pc = "check"
    /\ AnyExisted
    /\ ReturnWith("notStored")
    /\ UNCHANGED <<items, cache, existed, outcome, written, newcomers>>

\* BatchSet is called with the client, the cache name and the items, and with
\* nothing else of the request.
NoneExist ==
    /\ pc = "check"
    /\ ~AnyExisted
    /\ pc' = "batchSet"
    /\ UNCHANGED <<items, cache, existed, outcome, result, written, newcomers>>

\* The service executes the Set of an item.
Write(k) ==
    /\ cache' = [cache EXCEPT ![k] = "ours"]
    /\ written' = written \cup {k}

SetItem(k) ==
    /\ pc = "batchSet"
    /\ outcome[k] = "none"
    /\ Write(k)
    /\ outcome' = [outcome EXCEPT ![k] = "ok"]
    /\ UNCHANGED <<items, pc, existed, result, newcomers>>

\* The Set failed, before or after the service executed it.
SetItemFails(k) ==
    /\ pc = "batchSet"
    /\ outcome[k] = "none"
    /\ Write(k) \/ UNCHANGED <<cache, written>>
    /\ outcome' = [outcome EXCEPT ![k] = "error"]
    /\ UNCHANGED <<items, pc, existed, result, newcomers>>

Settled == \A k \in items : outcome[k] # "none"

Failed == {k \in items : outcome[k] = "error"}

\* An error of one item hides the responses of the others.
BatchSetFails ==
    /\ pc = "batchSet" /\ Settled /\ Failed # {}
    /\ ReturnWith("setError")
    /\ UNCHANGED <<items, cache, existed, outcome, written, newcomers>>

\* Counts an operation as stored when one item was.
AllSetMutant == Settled /\ \E k \in items : outcome[k] = "ok"

AllSet == Settled /\ Failed = {}

BatchSetSucceeds ==
    /\ pc = "batchSet" /\ AllSet /\ items # {}
    /\ ReturnWith("stored")
    /\ UNCHANGED <<items, cache, existed, outcome, written, newcomers>>

\* No items: BatchSet returns two nils, and the nil response is dereferenced.
EmptyBatchPanics ==
    /\ pc = "batchSet" /\ AllSet /\ items = {}
    /\ ReturnWith("panic")
    /\ UNCHANGED <<items, cache, existed, outcome, written, newcomers>>

-----------------------------------------------------------------------------
\* Another client sets the key.
OthersSet(k) ==
    /\ OtherClients
    /\ cache' = [cache EXCEPT ![k] = "theirs"]
    /\ newcomers' = IF pc = "keysExist" THEN newcomers ELSE newcomers \cup {k}
    /\ UNCHANGED <<items, pc, existed, outcome, result, written>>

\* Another client deletes the key, or it expires.
OthersRemove(k) ==
    /\ OtherClients
    /\ cache' = [cache EXCEPT ![k] = "absent"]
    /\ UNCHANGED <<items, pc, existed, outcome, result, written, newcomers>>

Call ==
    \/ KeysExist \/ KeysExistFails \/ SomeExist \/ NoneExist
    \/ \E k \in items : SetItem(k) \/ SetItemFails(k)
    \/ BatchSetFails \/ BatchSetSucceeds \/ EmptyBatchPanics

Next == Call \/ \E k \in Keys : OthersSet(k) \/ OthersRemove(k)

Spec == Init /\ [][Next]_vars

-----------------------------------------------------------------------------
(* Properties *)

(***************************************************************************)
(* What the result tells is what was written: Stored, that every item was; *)
(* NotStored or a failed KeysExist, that none was.  And whatever happens   *)
(* to the keys meanwhile, nothing is written once KeysExist has seen one.  *)
(***************************************************************************)
ResultTellsWrites ==
    /\ result = "stored" => written = items
    /\ result \in {"notStored", "keysExistError"} => written = {}
    /\ existed # {} => written = {}

(***************************************************************************)
(* The only values of other clients this call can replace are the ones     *)
(* they set after KeysExist answered: a value that was there before is     *)
(* never replaced, however the items' Sets are interleaved with others.    *)
(***************************************************************************)
ReplacesOnlyNewcomers ==
    [][\A k \in Keys :
          cache[k] = "theirs" /\ cache'[k] = "ours" => k \in newcomers]_cache

(***************************************************************************)
(* Comment of BatchSetIfNotExists: it "will set the key-value pairs ONLY   *)
(* if all keys don't already exist".  Hence no Set of this call replaces   *)
(* the value of another client at all.  Newcomers refute it; it holds of a *)
(* client that has the keys to itself (SetIfNotExistsProofs).              *)
(***************************************************************************)
OnlyIfNoneExist ==
    [][\A k \in Keys : cache[k] = "theirs" => cache'[k] # "ours"]_cache

=============================================================================
