----------------------------- MODULE TopicOrder -----------------------------
(***************************************************************************)
(* What a topic subscription promises about the items it returns: they     *)
(* come in the order of the topic.  The next item is the successor of the  *)
(* previous one among those the client can decode; the previous one may be *)
(* repeated after a reconnect, and when it had number 1 any later one of   *)
(* its page may follow the reconnect; anything else between two items was  *)
(* announced by a discontinuity, and even then the topic never runs        *)
(* backwards.                                                              *)
(***************************************************************************)
EXTENDS Naturals

CONSTANTS Seqs,         \* topic sequence numbers
          Pages,        \* sequence pages
          UnknownSeqs,  \* sequence numbers of items the client cannot decode
          None          \* no item returned yet

VARIABLES returned,  \* the last item returned, <<page, sequence number>>
          gapTold,   \* a discontinuity was returned after that item
          resumed    \* the stream was reopened after that item

vars == <<returned, gapTold, resumed>>

Items == Pages \X (Seqs \ UnknownSeqs)

Later(m, n) == m[1] > n[1] \/ (m[1] = n[1] /\ m[2] > n[2])

\* m follows n on its page, and what is in between cannot be decoded.
Follows(m, n) ==
    /\ m[1] = n[1]
    /\ m[2] > n[2]
    /\ \A seq \in Seqs : n[2] < seq /\ seq < m[2] => seq \in UnknownSeqs

Init == returned = None /\ ~gapTold /\ ~resumed

Return(m) == returned' = m /\ ~gapTold' /\ ~resumed'

First == returned = None /\ \E m \in Items : Return(m)

Successor ==
    /\ returned # None
    /\ \E m \in Items : Follows(m, returned) /\ Return(m)

Again == returned # None /\ resumed /\ Return(returned)

\* How much is replayed from number 1 is up to the service.
FromTheFirst ==
    /\ returned # None
    /\ resumed /\ returned[2] = 1
    /\ \E m \in Items : m[1] = returned[1] /\ m[2] > 1 /\ Return(m)

AfterGap ==
    /\ returned # None
    /\ gapTold
    /\ \E m \in Items : Later(m, returned) /\ Return(m)

TellGap == gapTold' /\ UNCHANGED <<returned, resumed>>

Reopen == resumed' /\ UNCHANGED <<returned, gapTold>>

Next == First \/ Successor \/ Again \/ FromTheFirst \/ AfterGap \/ TellGap \/ Reopen

Spec == Init /\ [][Next]_vars

=============================================================================
