--------------------------- MODULE MCBatchWorkers ---------------------------
(* Instances of BatchWorkers for TLC. *)
EXTENDS BatchWorkers

CONSTANTS k1, k2, k3

\* A list with a key given twice.
RepeatedKeys == <<k1, k2, k1, k3>>

=============================================================================
