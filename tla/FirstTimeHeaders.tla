-------------------------- MODULE FirstTimeHeaders --------------------------
(***************************************************************************)
(* What the first-time headers promise, whatever the number of clients and *)
(* of goroutines: the process tells each service once who it is (the       *)
(* runtime-version and agent headers), perhaps a few times when the first  *)
(* calls race, and no call goes without the headers unless some call has   *)
(* taken them on.  Which of the two arrives first is the network's choice, *)
(* and a call that took them on may yet be refused by the client itself.   *)
(***************************************************************************)
CONSTANTS Services, Goroutines

VARIABLES introduced,   \* the goroutines whose call to a service took the headers on
          bare          \* whether a call to a service went without them

TypeOK == introduced \in [Services -> SUBSET Goroutines] /\ bare \in [Services -> BOOLEAN]

Init ==
    /\ introduced = [s \in Services |-> {}]
    /\ bare = [s \in Services |-> FALSE]

\* A goroutine never takes them on twice.
Introduce(s, g) ==
    /\ g \notin introduced[s]
    /\ introduced' = [introduced EXCEPT ![s] = @ \cup {g}]
    /\ UNCHANGED bare

GoBare(s) ==
    /\ introduced[s] # {}
    /\ bare' = [bare EXCEPT ![s] = TRUE]
    /\ UNCHANGED introduced

Next == \E s \in Services : GoBare(s) \/ \E g \in Goroutines : Introduce(s, g)

Spec == Init /\ [][Next]_<<introduced, bare>>

=============================================================================
