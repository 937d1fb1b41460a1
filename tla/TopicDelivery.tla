--------------------------- MODULE TopicDelivery ----------------------------
(***************************************************************************)
(* Delivery of items to one topic subscription:                            *)
(* momento/topic_subscription.go (Event, attemptReconnect) over a service  *)
(* whose behaviour is the one cachepubsub.proto describes.  Stream slots   *)
(* and contexts are the subject of TopicStreams; here a reconnect that     *)
(* fails is a step that does not happen yet.                               *)
(***************************************************************************)
EXTENDS Naturals

CONSTANTS
    MaxSeq,       \* BOUND: messages published per sequence page
    MaxPage,      \* BOUND: sequence pages, one more per topic reset
    MaxBreaks,    \* BOUND: streams lost
    UnknownSeqs,  \* messages whose value kind this client predates
    None

ASSUME BoundsAssumption ==
    /\ MaxSeq \in Nat /\ MaxPage \in Nat \ {0} /\ MaxBreaks \in Nat
    /\ UnknownSeqs \subseteq 1 .. MaxSeq

Seqs == 1 .. MaxSeq
Pages == 1 .. MaxPage
Items == Pages \X Seqs

ASSUME NoneAssumption == None \notin Nat \X Nat

VARIABLES
    \* the topic in the service
    page,       \* current sequence page
    published,  \* newest sequence number of the page, 0 if none
    retained,   \* oldest sequence number that can still be replayed
    \* the stream
    link,       \* "none", "up" or "down"
    next,       \* sequence number the service sends next
    announce,   \* the service sends a discontinuity first
    breaks,     \* streams lost so far
    \* the subscription
    lastKnownSequenceNumber,
    lastKnownSequencePage,
    \* what the application has seen
    returned, gapTold, resumed,
    start       \* history: where the first item is to come from, <<page, number>>

topic == <<page, published, retained>>
lastKnown == <<lastKnownSequenceNumber, lastKnownSequencePage>>
seen == <<returned, gapTold, resumed>>
vars == <<topic, link, next, announce, breaks, lastKnown, seen, start>>

TypeOK ==
    /\ page \in Pages
    /\ published \in 0 .. MaxSeq
    /\ retained \in 1 .. published + 1
    /\ link \in {"none", "up", "down"}
    /\ next \in 1 .. MaxSeq + 1
    /\ announce \in BOOLEAN
    /\ breaks \in 0 .. MaxBreaks
    /\ lastKnownSequenceNumber \in 0 .. MaxSeq
    /\ lastKnownSequencePage \in 0 .. MaxPage
    /\ returned \in Items \cup {None}
    /\ gapTold \in BOOLEAN
    /\ resumed \in BOOLEAN
    /\ start \in ((0 .. MaxPage) \X (0 .. MaxSeq + 1)) \cup {None}

Init ==
    /\ page = 1 /\ published = 0 /\ retained = 1
    /\ link = "none" /\ next = 1 /\ announce = FALSE /\ breaks = 0
    /\ lastKnownSequenceNumber = 0 /\ lastKnownSequencePage = 0
    /\ returned = None /\ gapTold = FALSE /\ resumed = FALSE /\ start = None

-----------------------------------------------------------------------------
(* The service *)

Publish ==
    /\ published < MaxSeq
    /\ published' = published + 1
    /\ UNCHANGED <<page, retained, link, next, announce, breaks, lastKnown, seen, start>>

\* The oldest message expires; a stream that had not sent it yet skips it and
\* says so.
Expire ==
    /\ retained <= published
    /\ retained' = retained + 1
    /\ IF link = "up" /\ next = retained
       THEN next' = retained + 1 /\ announce' = TRUE
       ELSE UNCHANGED <<next, announce>>
    /\ UNCHANGED <<page, published, link, breaks, lastKnown, seen, start>>

\* The topic is reset: a new page, numbered from 1, announced on the stream.
ResetTopic ==
    /\ page < MaxPage
    /\ page' = page + 1
    /\ published' = 0
    /\ retained' = 1
    /\ next' = 1
    /\ announce' = (announce \/ link = "up")
    /\ UNCHANGED <<link, breaks, lastKnown, seen, start>>

\* The service opens a stream for a request (resume_at_topic_sequence_number,
\* sequence_page).  0 means the latest messages.  From 1 it replays "some
\* messages leading up to whatever the newest message is", an unspecified
\* amount, and need not announce what it leaves out.  Any other position is
\* exact; one that is gone, or of another page, is replaced by the oldest
\* message left, after a discontinuity.
OpenAt(seq, seqPage) ==
    LET gone == seqPage # page \/ seq < retained
    IN  /\ link' = "up"
        /\ \/ seq = 0 /\ next' = published + 1 /\ announce' = FALSE
           \/ /\ seq = 1 /\ seqPage = page
              /\ next' \in retained .. published + 1
              /\ announce' \in BOOLEAN /\ (announce' => gone)
           \/ /\ seq # 0 /\ ~(seq = 1 /\ seqPage = page)
              /\ next' = IF gone THEN retained ELSE seq
              /\ announce' = gone

\* Where a stream opened at (seq, seqPage) is to begin: after the newest message,
\* anywhere on the page (number 0), or at the position itself.
Beginning(seq, seqPage) ==
    IF seq = 0 THEN <<page, published + 1>> ELSE <<seqPage, IF seq = 1 THEN 0 ELSE seq>>

LoseStream ==
    /\ link = "up"
    /\ breaks < MaxBreaks
    /\ link' = "down"
    /\ announce' = FALSE
    /\ breaks' = breaks + 1
    /\ UNCHANGED <<topic, next, lastKnown, seen, start>>

-----------------------------------------------------------------------------
(* The client *)

\* The position is not passed on, as in a reconnect before the first item.
SubscribeMutant ==
    /\ link = "none"
    /\ \E seq \in 0 .. MaxSeq, seqPage \in 1 .. page :
          /\ seqPage = page => seq <= published
          /\ start' = Beginning(seq, seqPage)
          /\ OpenAt(0, seqPage)
    /\ UNCHANGED <<topic, breaks, lastKnown, seen>>

\* Subscribe, from the latest messages or from a position the application kept;
\* the request's position is not remembered in the subscription.
Subscribe ==
    /\ link = "none"
    /\ \E seq \in 0 .. MaxSeq, seqPage \in 1 .. page :
          /\ seqPage = page => seq <= published
          /\ start' = Beginning(seq, seqPage)
          /\ OpenAt(seq, seqPage)
    /\ UNCHANGED <<topic, breaks, lastKnown, seen>>

\* Remembering the successor, as if the service resumed after the number sent.
RememberMutant(seq, seqPage) ==
    /\ lastKnownSequenceNumber' = seq + 1
    /\ lastKnownSequencePage' = seqPage

Remember(seq, seqPage) ==
    /\ lastKnownSequenceNumber' = seq
    /\ lastKnownSequencePage' = seqPage

\* RecvMsg yields the next item of the topic.
ReceiveItem ==
    /\ link = "up" /\ ~announce /\ next <= published
    /\ next' = next + 1
    /\ Remember(next, page)
    /\ UNCHANGED <<topic, link, announce, breaks>>

\* Event returns an item with a text or binary value ...
EventItem ==
    /\ next \notin UnknownSeqs
    /\ ReceiveItem
    /\ returned' = <<page, next>>
    /\ gapTold' = FALSE
    /\ resumed' = FALSE
    /\ start' = None

\* ... and loops over one whose value kind it does not know.
EventUnknownValue ==
    /\ next \in UnknownSeqs
    /\ ReceiveItem
    /\ UNCHANGED <<returned, gapTold, resumed, start>>

\* A discontinuity is returned; lastKnownSequenceNumber and Page stay.
EventDiscontinuity ==
    /\ link = "up" /\ announce
    /\ announce' = FALSE
    /\ gapTold' = TRUE
    /\ UNCHANGED <<topic, link, next, breaks, lastKnown, returned, resumed, start>>

\* A resume point that forgets the position: the stream starts at the latest.
ResumePointMutant == 0

\* The sequence number attemptReconnect asks for: the last item, inclusive.
ResumePoint == lastKnownSequenceNumber

\* Before the first item a new stream begins where the lost one was to, unless
\* it is opened at the latest message, because no position is known, or at 1.
StartAgain ==
    start' = IF returned = None /\ lastKnownSequenceNumber \in {0, 1}
             THEN Beginning(lastKnownSequenceNumber, lastKnownSequencePage) ELSE start

\* attemptReconnect that gives up when nothing was received yet.
ReconnectMutant ==
    /\ link = "down"
    /\ lastKnownSequenceNumber # 0
    /\ OpenAt(ResumePoint, lastKnownSequencePage)
    /\ resumed' = TRUE
    /\ StartAgain
    /\ UNCHANGED <<topic, breaks, lastKnown, returned, gapTold>>

\* attemptReconnect gets a new stream.
Reconnect ==
    /\ link = "down"
    /\ OpenAt(ResumePoint, lastKnownSequencePage)
    /\ resumed' = TRUE
    /\ StartAgain
    /\ UNCHANGED <<topic, breaks, lastKnown, returned, gapTold>>

-----------------------------------------------------------------------------
Service == Publish \/ Expire \/ ResetTopic \/ LoseStream

Client == EventItem \/ EventUnknownValue \/ EventDiscontinuity \/ Reconnect

Next == Service \/ Subscribe \/ Client

Spec == Init /\ [][Next]_vars

(***************************************************************************)
(* Fairness: the application keeps calling Event and attemptReconnect      *)
(* retries for ever, so the client's steps are weakly fair.  Streams break *)
(* only MaxBreaks times.                                                   *)
(***************************************************************************)
FairSpec == Spec /\ WF_vars(Client)

-----------------------------------------------------------------------------
(* Properties *)

Order == INSTANCE TopicOrder WITH returned <- returned, gapTold <- gapTold, resumed <- resumed

(***************************************************************************)
(* Over lost streams, inclusive resumption, expiry and topic resets, Event *)
(* returns the items in topic order, repeats at most the last one and only *)
(* after a reconnect, and leaves out without a discontinuity only the ones *)
(* it cannot decode, but for one case: a stream lost after item number 1   *)
(* and before another is reopened at 1, from where the service replays as  *)
(* much as it likes, so any later item of the page may come next.          *)
(***************************************************************************)
ImplementsTopicOrder == Order!Spec

(***************************************************************************)
(* A subscription begins where it was asked to.  start is that place:      *)
(* after the newest message there was at Subscribe (position 0), any       *)
(* message of the page (position 1), or the position itself; and when a    *)
(* stream is lost before the first item, after the newest message there    *)
(* was at the reconnect, because the subscription does not keep the        *)
(* position it was asked for, unless items it could not decode had come,   *)
(* from the last of which it goes on.  The first item that Event returns   *)
(* is never before that place, and without a discontinuity told it is the  *)
(* one there, or the first after it that can be decoded.                   *)
(***************************************************************************)
FirstItemIsAsAsked == returned = None /\ returned' # None =>
    LET first == returned'
        onPage == first[1] = start[1] /\ first[2] >= start[2]
        decodedFirst == start[2] .. (first[2] - 1) \subseteq UnknownSeqs
    IN  /\ first[1] > start[1] \/ onPage
        /\ gapTold \/ (onPage /\ (start[2] = 0 \/ decodedFirst))

BeginsWhereAsked == [][FirstItemIsAsAsked]_vars

(***************************************************************************)
(* Once subscribed, and however often the stream was lost, the client      *)
(* catches up with the newest message of the topic and stays there when    *)
(* publishing stops.                                                       *)
(***************************************************************************)
CaughtUp == link = "up" /\ next = published + 1 /\ ~announce

CatchesUp == (link # "none") ~> CaughtUp

=============================================================================
