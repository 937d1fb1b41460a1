--------------------------- MODULE MCConnections ----------------------------
(***************************************************************************)
(* Connections for TLC: two clients of any kind, with the settings that    *)
(* take a constructor down a path of its own.                              *)
(***************************************************************************)
EXTENDS Connections

Good == [kind |-> "cache", channels |-> 2, timeout |-> TRUE, ttl |-> TRUE, eager |-> "none"]

MCSettings ==
    {Good, [Good EXCEPT !.eager = "some"], [Good EXCEPT !.channels = 0],
     [Good EXCEPT !.timeout = FALSE], [Good EXCEPT !.ttl = FALSE], [Good EXCEPT !.eager = "negative"],
     [Good EXCEPT !.kind = "storage"], [Good EXCEPT !.kind = "topic", !.channels = 0],
     [Good EXCEPT !.kind = "auth"], [Good EXCEPT !.kind = "leaderboard"]}

=============================================================================
