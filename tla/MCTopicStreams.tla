--------------------------- MODULE MCTopicStreams ---------------------------
(* Instances of TopicStreams for TLC. *)
EXTENDS TopicStreams, TLC

\* Goroutines are interchangeable; used where no liveness property is checked.
Symmetry == Permutations(Subs)

=============================================================================
