----------------------------- MODULE ClientLife -----------------------------
(***************************************************************************)
(* What an application may expect of a client's life: its constructor      *)
(* opens connections and returns or gives up, the client it returns serves *)
(* until it is closed, and a closed client holds no connection.  A         *)
(* constructor that gives up may leave connections behind.                 *)
(***************************************************************************)
CONSTANTS Clients, Connections

VARIABLES phase,   \* "new", "making", "ready", "failed" or "closed"
          open     \* the connections a client holds

TypeOK ==
    /\ phase \in [Clients -> {"new", "making", "ready", "failed", "closed"}]
    /\ open \in [Clients -> SUBSET Connections]

Init ==
    /\ phase = [c \in Clients |-> "new"]
    /\ open = [c \in Clients |-> {}]

Start(c) ==
    /\ phase[c] = "new"
    /\ \E p \in {"making", "failed"} : phase' = [phase EXCEPT ![c] = p]
    /\ UNCHANGED open

Open(c, x) ==
    /\ phase[c] = "making"
    /\ \E p \in {"making", "ready", "failed"} : phase' = [phase EXCEPT ![c] = p]
    /\ open' = [open EXCEPT ![c] = @ \cup {x}]

\* The last connection is up, and the constructor returns.
Return(c) ==
    /\ phase[c] = "making"
    /\ phase' = [phase EXCEPT ![c] = "ready"]
    /\ UNCHANGED open

\* It may clean up behind itself.
GiveUp(c) ==
    /\ phase[c] = "making"
    /\ phase' = [phase EXCEPT ![c] = "failed"]
    /\ \E kept \in SUBSET open[c] : open' = [open EXCEPT ![c] = kept]

Close(c) ==
    /\ phase[c] \in {"ready", "closed"}
    /\ phase' = [phase EXCEPT ![c] = "closed"]
    /\ open' = [open EXCEPT ![c] = {}]

Next == \E c \in Clients :
    Start(c) \/ Return(c) \/ GiveUp(c) \/ Close(c) \/ \E x \in Connections : Open(c, x)

Spec == Init /\ [][Next]_<<phase, open>>

=============================================================================
