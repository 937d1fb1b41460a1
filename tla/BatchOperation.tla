--------------------------- MODULE BatchOperation ---------------------------
(***************************************************************************)
(* What a batch operation promises: every key of the list is requested     *)
(* once, each request settles on a response or an error, and only when all *)
(* of them have settled does the call return, with exactly the responses   *)
(* and the errors there were.                                              *)
(***************************************************************************)
EXTENDS Integers, Sequences

CONSTANTS Keys,     \* the keys of the request, in order
          IsDelete  \* BatchDelete, which returns errors only

VARIABLES outcome,   \* per position: "none", "ok" or "error"
          returned   \* {} until the call returns, then what the caller gets

vars == <<outcome, returned>>

Positions == DOMAIN Keys

KeysWith(o) == {Keys[p] : p \in {q \in Positions : outcome[q] = o}}

Init ==
    /\ outcome = [p \in Positions |-> "none"]
    /\ returned = {}

Settle(p) ==
    /\ outcome[p] = "none"
    /\ \E o \in {"ok", "error"} : outcome' = [outcome EXCEPT ![p] = o]
    /\ UNCHANGED returned

Return ==
    /\ returned = {}
    /\ \A p \in Positions : outcome[p] # "none"
    /\ returned' = {[responses |-> IF IsDelete THEN {} ELSE KeysWith("ok"),
                     errors    |-> KeysWith("error")]}
    /\ UNCHANGED outcome

Next == (\E p \in Positions : Settle(p)) \/ Return

Spec == Init /\ [][Next]_vars

=============================================================================
