------------------------ MODULE TopicDeliveryProofs -------------------------
(***************************************************************************)
(* Proofs about TopicDelivery: the state is well typed, the delivery of    *)
(* items implements TopicOrder, and a subscription begins where Subscribe  *)
(* was asked to, for every number of messages, pages and lost streams.     *)
(*                                                                         *)
(* The argument ties three positions of the topic to each other: the last  *)
(* item returned, the position the subscription remembers (which runs      *)
(* ahead of it over items it cannot decode), and the position of the       *)
(* stream (which a reconnect sets back to the one remembered).             *)
(***************************************************************************)
EXTENDS TopicDelivery, TLAPS

USE DEF topic, lastKnown, seen

Later(m, n) == Order!Later(m, n)
Follows(m, n) == Order!Follows(m, n)

position == <<page, next>>

USE DEF Later, Follows

\* An application has an item only of a stream, and of a page that exists.
Beginnings ==
    /\ announce => link = "up"
    /\ link = "none" => returned = None /\ lastKnownSequenceNumber = 0
    /\ link # "none" /\ returned = None => start # None /\ start[1] <= page
    /\ lastKnownSequencePage <= page
    /\ returned # None => returned \in Order!Items /\ returned[1] <= page

\* The position remembered is the item returned, or after it with nothing in
\* between that was kept from the application, but for what the service left
\* out when it was asked to resume at 1.
Remembers ==
    returned # None =>
        /\ lastKnownSequenceNumber > 0
        /\ \/ /\ lastKnownSequencePage = returned[1]
              /\ lastKnownSequenceNumber >= returned[2]
              /\ \A seq \in Seqs : returned[2] < seq /\ seq <= lastKnownSequenceNumber
                                      => seq \in UnknownSeqs
           \/ /\ gapTold
              /\ Later(<<lastKnownSequencePage, lastKnownSequenceNumber>>, returned)
           \/ /\ resumed /\ returned[2] = 1
              /\ lastKnownSequencePage = returned[1] /\ lastKnownSequenceNumber > 1

\* What the stream sends next may be returned next.
StreamInOrder ==
    link = "up" /\ returned # None =>
        \/ announce /\ Later(position, returned)
        \/ ~announce /\ gapTold /\ Later(position, returned)
        \/ ~announce /\ Follows(position, returned)
        \/ ~announce /\ resumed /\ position = returned
        \/ ~announce /\ resumed /\ returned[2] = 1 /\ page = returned[1] /\ next > 1

\* A position with this page and number is not before start ...
FromStart(onPage, number) ==
    onPage > start[1] \/ (onPage = start[1] /\ number >= start[2])

\* ... and, of the messages from there up to it, only ones that cannot be decoded
\* are missing.
NothingMissed(onPage, number) ==
    /\ onPage = start[1]
    /\ start[2] # 0 => \A seq \in Seqs : start[2] <= seq /\ seq < number => seq \in UnknownSeqs

\* Before the first item, what the stream sends next may come first, and so may
\* what follows the position remembered.
StreamAsAsked ==
    link = "up" /\ returned = None =>
        /\ FromStart(page, next)
        /\ announce \/ gapTold \/ NothingMissed(page, next)

RemembersAsAsked ==
    returned = None /\ lastKnownSequenceNumber # 0 =>
        /\ FromStart(lastKnownSequencePage, lastKnownSequenceNumber)
        /\ gapTold \/ NothingMissed(lastKnownSequencePage, lastKnownSequenceNumber)

Inv ==
    /\ TypeOK /\ Beginnings
    /\ Remembers /\ StreamInOrder
    /\ StreamAsAsked /\ RemembersAsAsked

-----------------------------------------------------------------------------
(* Type correctness *)

Numbers ==
    /\ page \in Pages
    /\ published \in 0 .. MaxSeq
    /\ retained \in 1 .. published + 1
    /\ next \in 1 .. MaxSeq + 1
    /\ breaks \in 0 .. MaxBreaks
    /\ lastKnownSequenceNumber \in 0 .. MaxSeq
    /\ lastKnownSequencePage \in 0 .. MaxPage

Others ==
    /\ link \in {"none", "up", "down"}
    /\ announce \in BOOLEAN
    /\ returned \in Items \cup {None}
    /\ gapTold \in BOOLEAN
    /\ resumed \in BOOLEAN
    /\ start \in ((0 .. MaxPage) \X (0 .. MaxSeq + 1)) \cup {None}

LEMMA Bounds == MaxSeq \in Nat /\ MaxPage \in Nat \ {0} /\ MaxBreaks \in Nat
  BY BoundsAssumption

LEMMA TypeParts == TypeOK <=> Numbers /\ Others
  BY DEF TypeOK, Numbers, Others

LEMMA InitTypeOK == Init => TypeOK
<1>1. Init => Numbers
  BY Bounds DEF Init, Numbers, Pages
<1>2. Init => Others
  BY DEF Init, Others
<1>3. QED
  BY <1>1, <1>2, TypeParts

LEMMA OpenAtTypes ==
  ASSUME TypeOK, NEW seq \in 0 .. MaxSeq, NEW seqPage, OpenAt(seq, seqPage)
  PROVE  link' = "up" /\ next' \in 1 .. MaxSeq + 1 /\ announce' \in BOOLEAN
<1>1. /\ published + 1 \in 1 .. MaxSeq + 1
      /\ retained \in 1 .. MaxSeq + 1
      /\ seq # 0 => seq \in 1 .. MaxSeq + 1
      /\ retained .. published + 1 \subseteq 1 .. MaxSeq + 1
  BY Bounds DEF TypeOK
<1>2. link' = "up" /\ next' \in 1 .. MaxSeq + 1
  BY <1>1 DEF OpenAt
<1>3. announce' \in BOOLEAN
  BY DEF OpenAt, TypeOK
<1>4. QED
  BY <1>2, <1>3

\* OpenAt, case by case.
LEMMA OpenAtCases ==
  ASSUME NEW seq, NEW seqPage, OpenAt(seq, seqPage)
  PROVE  /\ seq = 0 => next' = published + 1 /\ ~announce'
         /\ seq = 1 /\ seqPage = page =>
               next' \in retained .. published + 1 /\ (announce' => seq < retained)
         /\ seq # 0 /\ ~(seq = 1 /\ seqPage = page) =>
               /\ seqPage # page \/ seq < retained => announce' /\ next' = retained
               /\ ~(seqPage # page \/ seq < retained) => ~announce' /\ next' = seq
<1> DEFINE gone == seqPage # page \/ seq < retained
<1>1. \/ seq = 0 /\ next' = published + 1 /\ announce' = FALSE
      \/ /\ seq = 1 /\ seqPage = page
         /\ next' \in retained .. published + 1
         /\ announce' \in BOOLEAN /\ (announce' => gone)
      \/ /\ seq # 0 /\ ~(seq = 1 /\ seqPage = page)
         /\ next' = IF gone THEN retained ELSE seq
         /\ announce' = gone
  BY DEF OpenAt
<1>2. gone <=> (seqPage # page \/ seq < retained)
  OBVIOUS
<1> HIDE DEF gone
<1>3. QED
  BY <1>1, <1>2

LEMMA BeginningTypes ==
  ASSUME TypeOK, NEW seq \in 0 .. MaxSeq, NEW seqPage \in 0 .. MaxPage
  PROVE  Beginning(seq, seqPage) \in (0 .. MaxPage) \X (0 .. MaxSeq + 1)
  BY Bounds DEF Beginning, TypeOK, Pages

LEMMA ServiceTypeOK ==
  ASSUME TypeOK, Service
  PROVE  TypeOK'
<1>1. Numbers'
  BY Bounds DEF Service, Publish, Expire, ResetTopic, LoseStream, TypeOK, Numbers, Pages
<1>2. Others'
  BY DEF Service, Publish, Expire, ResetTopic, LoseStream, TypeOK, Others
<1>3. QED
  BY <1>1, <1>2 DEF TypeOK, Numbers, Others

LEMMA ClientTypeOK ==
  ASSUME TypeOK, Client \/ Subscribe
  PROVE  TypeOK'
<1>1. CASE EventItem \/ EventUnknownValue
  <2>1. next \in Seqs /\ next' \in 1 .. MaxSeq + 1
    BY <1>1, Bounds DEF EventItem, EventUnknownValue, ReceiveItem, TypeOK, Seqs
  <2>2. Numbers'
    BY <1>1, <2>1, Bounds
    DEF EventItem, EventUnknownValue, ReceiveItem, Remember, TypeOK, Numbers, Pages, Seqs
  <2>3. <<page, next>> \in Items
    BY <2>1 DEF TypeOK, Items
  <2>4. Others'
    BY <1>1, <2>3 DEF EventItem, EventUnknownValue, ReceiveItem, TypeOK, Others
  <2>5. QED
    BY <2>2, <2>4 DEF TypeOK, Numbers, Others
<1>2. CASE EventDiscontinuity
  BY <1>2 DEF EventDiscontinuity, TypeOK
<1>3. CASE Reconnect
  <2>1. link' = "up" /\ next' \in 1 .. MaxSeq + 1 /\ announce' \in BOOLEAN
    BY <1>3, OpenAtTypes DEF Reconnect, ResumePoint, TypeOK
  <2>2. start' \in ((0 .. MaxPage) \X (0 .. MaxSeq + 1)) \cup {None}
    BY <1>3, BeginningTypes DEF Reconnect, StartAgain, TypeOK
  <2>3. QED
    BY <1>3, <2>1, <2>2 DEF Reconnect, TypeOK
<1>4. CASE Subscribe
  <2>1. PICK seq \in 0 .. MaxSeq, seqPage \in 1 .. page :
           start' = Beginning(seq, seqPage) /\ OpenAt(seq, seqPage)
    BY <1>4 DEF Subscribe
  <2>2. start' \in (0 .. MaxPage) \X (0 .. MaxSeq + 1)
    <3>1. seqPage \in 0 .. MaxPage
      BY Bounds DEF TypeOK, Pages
    <3>2. QED
      BY <2>1, <3>1, BeginningTypes
  <2>3. link' = "up" /\ next' \in 1 .. MaxSeq + 1 /\ announce' \in BOOLEAN
    BY <2>1, OpenAtTypes
  <2>4. QED
    BY <1>4, <2>2, <2>3 DEF Subscribe, TypeOK
<1>5. QED
  BY <1>1, <1>2, <1>3, <1>4 DEF Client

LEMMA NextTypeOK == TypeOK /\ [Next]_vars => TypeOK'
<1>1. TypeOK /\ UNCHANGED vars => TypeOK'
  BY DEF vars, TypeOK
<1>2. QED
  BY <1>1, ServiceTypeOK, ClientTypeOK DEF Next

\* Every variable keeps its type, whatever the topic and its streams do.
THEOREM TypeCorrect == Spec => []TypeOK
  BY InitTypeOK, NextTypeOK, PTL DEF Spec

-----------------------------------------------------------------------------
(* The positions, step by step *)

LEMMA InitInv == Init => Inv
  BY InitTypeOK
  DEF Init, Inv, Beginnings, Remembers, StreamInOrder, StreamAsAsked, RemembersAsAsked

\* The positions compared are pairs of numbers.
LEMMA ReturnedIsItem ==
  ASSUME TypeOK, Beginnings, returned # None
  PROVE  /\ returned = <<returned[1], returned[2]>>
         /\ returned[1] \in Pages /\ returned[2] \in Seqs \ UnknownSeqs
         /\ returned[1] <= page
         /\ position[1] = page /\ position[2] = next
  BY DEF Beginnings, Order!Items, position

LEMMA StartIsPlace ==
  ASSUME TypeOK, Beginnings, link # "none", returned = None
  PROVE  start[1] \in Nat /\ start[2] \in Nat /\ start[1] <= page
  BY Bounds DEF Beginnings, TypeOK

LEMMA NoneIsNoPlace == \A onPage, number \in Nat : <<onPage, number>> # None
  BY NoneAssumption

\* Nothing that ServiceInv's steps change is in what was remembered.
LEMMA MemoryKept ==
  ASSUME Inv, UNCHANGED <<lastKnown, returned, gapTold, resumed, start>>
  PROVE  Remembers' /\ RemembersAsAsked'
  BY DEF Inv, Remembers, RemembersAsAsked, FromStart, NothingMissed

LEMMA ServiceInv ==
  ASSUME Inv, Service
  PROVE  Inv'
<1>0. TypeOK /\ TypeOK'
  BY ServiceTypeOK DEF Inv
<1>1. page \in Nat /\ next \in Nat /\ retained \in Nat
  BY <1>0, Bounds DEF TypeOK, Pages
<1>2. CASE Publish
  BY <1>0, <1>2, MemoryKept
  DEF Publish, Inv, Beginnings, StreamInOrder, StreamAsAsked, position, FromStart, NothingMissed
<1>3. CASE Expire
  <2>1. Beginnings' /\ Remembers' /\ RemembersAsAsked'
    BY <1>0, <1>3, MemoryKept DEF Expire, Inv, Beginnings
  <2>2. CASE link = "up" /\ next = retained
    <3>1. announce' /\ page' = page /\ next' = next + 1 /\ UNCHANGED <<link, seen, start>>
      BY <1>3, <2>2 DEF Expire
    <3>2. ASSUME returned # None PROVE Later(position, returned) \/ position = returned
      <4>1. position = <<page, next>> /\ returned[2] \in Nat
        BY <3>2, ReturnedIsItem DEF Inv, position, Seqs
      <4>2. QED
        BY <1>1, <2>2, <3>2, <4>1 DEF Inv, StreamInOrder, Order!Follows, Order!Later
    <3>3. ASSUME returned # None PROVE Later(position', returned')
      <4>1. position = <<page, next>> /\ position' = <<page, next + 1>> /\ returned' = returned
        BY <3>1 DEF position
      <4>2. returned = <<returned[1], returned[2]>> /\ returned[1] \in Nat /\ returned[2] \in Nat
        BY <3>3, ReturnedIsItem DEF Inv, Pages, Seqs
      <4>3. QED
        BY <1>1, <3>2, <3>3, <4>1, <4>2 DEF Order!Later
    <3>4. StreamInOrder'
      BY <3>1, <3>3 DEF StreamInOrder
    <3>5. ASSUME returned = None PROVE FromStart(page, next)'
      BY <1>1, <2>2, <3>1, <3>5, StartIsPlace DEF Inv, StreamAsAsked, FromStart
    <3>6. StreamAsAsked'
      BY <3>1, <3>5 DEF StreamAsAsked
    <3>7. QED
      BY <1>0, <2>1, <3>4, <3>6 DEF Inv
  <2>3. CASE ~(link = "up" /\ next = retained)
    BY <1>0, <1>3, <2>1, <2>3
    DEF Expire, Inv, StreamInOrder, StreamAsAsked, position, FromStart, NothingMissed
  <2>4. QED
    BY <2>2, <2>3
<1>4. CASE ResetTopic
  <2>1. /\ page' = page + 1 /\ announce' = (announce \/ link = "up")
        /\ UNCHANGED <<link, lastKnown, seen, start>>
    BY <1>4 DEF ResetTopic
  <2>2. returned # None => returned[1] \in Nat
    BY ReturnedIsItem DEF Inv, Pages
  <2>3. Beginnings'
    BY <1>0, <1>1, <2>1, <2>2, StartIsPlace, Bounds DEF Inv, Beginnings, TypeOK
  <2>4. ASSUME returned # None PROVE Later(position', returned')
    BY <1>1, <2>1, <2>2, <2>4 DEF Inv, Beginnings, position, Order!Later
  <2>5. Remembers' /\ RemembersAsAsked' /\ StreamInOrder'
    BY <2>1, <2>4, MemoryKept DEF StreamInOrder
  <2>6. ASSUME link = "up", returned = None PROVE FromStart(page, next)'
    BY <1>1, <2>1, <2>6, StartIsPlace DEF Inv, FromStart
  <2>7. StreamAsAsked'
    BY <2>1, <2>6 DEF StreamAsAsked
  <2>8. QED
    BY <1>0, <2>3, <2>5, <2>7 DEF Inv
<1>5. CASE LoseStream
  BY <1>0, <1>5, MemoryKept DEF LoseStream, Inv, Beginnings, StreamInOrder, StreamAsAsked
<1>6. QED
  BY <1>2, <1>3, <1>4, <1>5 DEF Service

\* Receiving an item: it may be returned next, and it is remembered.
LEMMA EventItemInv ==
  ASSUME Inv, EventItem
  PROVE  Inv' /\ Order!Next
<1>0. TypeOK /\ TypeOK'
  BY ClientTypeOK DEF Inv, Client
<1>1. /\ next \in Seqs \ UnknownSeqs /\ next \in Nat /\ page \in Pages
      /\ link = "up" /\ ~announce /\ link' = "up" /\ ~announce'
      /\ page' = page /\ next' = next + 1
      /\ lastKnownSequenceNumber' = next /\ lastKnownSequencePage' = page
      /\ returned' = <<page, next>> /\ ~gapTold' /\ ~resumed'
  BY <1>0, Bounds DEF EventItem, ReceiveItem, Remember, TypeOK, Seqs
<1>2. returned' # None
  BY <1>0, <1>1, NoneIsNoPlace DEF TypeOK, Pages
<1>3. position \in Order!Items
  BY <1>1 DEF position, Order!Items
<1>4. Beginnings'
  BY <1>1, <1>2, <1>3, Bounds DEF Inv, Beginnings, position, Pages
<1>5. Remembers'
  BY <1>1, Bounds DEF Remembers, Seqs
<1>6. StreamInOrder' /\ StreamAsAsked' /\ RemembersAsAsked'
  BY <1>1, <1>2, Bounds
  DEF StreamInOrder, StreamAsAsked, RemembersAsAsked, position, Order!Follows, Seqs
<1>7. Order!Next
  <2>1. CASE returned = None
    BY <1>1, <1>3, <2>1 DEF Order!Next, Order!First, Order!Return, position
  <2>2. CASE returned # None
    <3>1. \/ gapTold /\ Later(position, returned)
          \/ Follows(position, returned)
          \/ resumed /\ position = returned
          \/ resumed /\ returned[2] = 1 /\ position[1] = returned[1] /\ position[2] > 1
      BY <1>1, <2>2 DEF Inv, StreamInOrder, position
    <3>2. Order!Return(position)
      BY <1>1 DEF Order!Return, position
    <3>3. QED
      BY <1>3, <2>2, <3>1, <3>2
      DEF Order!Next, Order!Successor, Order!Again, Order!FromTheFirst, Order!AfterGap
  <2>3. QED
    BY <2>1, <2>2
<1>8. QED
  BY <1>0, <1>4, <1>5, <1>6, <1>7 DEF Inv

\* An item that cannot be decoded is remembered and passed over.
LEMMA EventUnknownValueInv ==
  ASSUME Inv, EventUnknownValue
  PROVE  Inv' /\ UNCHANGED Order!vars
<1>0. TypeOK /\ TypeOK'
  BY ClientTypeOK DEF Inv, Client
<1>1. /\ next \in UnknownSeqs /\ next \in Seqs /\ next \in Nat /\ next > 0 /\ page \in Pages
      /\ link = "up" /\ ~announce /\ link' = "up" /\ ~announce'
      /\ page' = page /\ next' = next + 1
      /\ lastKnownSequenceNumber' = next /\ lastKnownSequencePage' = page
      /\ UNCHANGED <<returned, gapTold, resumed, start>>
  BY <1>0, Bounds DEF EventUnknownValue, ReceiveItem, Remember, TypeOK, Seqs
<1>2. Beginnings'
  BY <1>1, Bounds DEF Inv, Beginnings, Pages
<1> DEFINE afterOne == resumed /\ returned[2] = 1 /\ page = returned[1] /\ next > 1
<1>3. ASSUME returned # None
      PROVE  (gapTold /\ Later(position, returned)) \/ Follows(position, returned) \/ afterOne
  <2>1. position # returned
    BY <1>1, <1>3, ReturnedIsItem DEF Inv
  <2>2. QED
    BY <1>1, <1>3, <2>1 DEF Inv, StreamInOrder
<1>4. Remembers'
  <2> SUFFICES ASSUME returned # None
               PROVE  Remembers'
    BY <1>1 DEF Remembers
  <2>1. CASE gapTold /\ Later(position, returned)
    BY <1>1, <2>1 DEF Remembers, position
  <2>2. CASE Follows(position, returned)
    <3>1. /\ page = returned[1] /\ next > returned[2] /\ returned[2] \in Nat
          /\ \A seq \in Seqs : returned[2] < seq /\ seq < next => seq \in UnknownSeqs
      BY <2>2, ReturnedIsItem, Bounds DEF Inv, Order!Follows, position, Seqs
    <3>2. \A seq \in Seqs : returned[2] < seq /\ seq <= next => seq \in UnknownSeqs
      BY <1>1, <3>1 DEF Seqs
    <3>3. QED
      BY <1>1, <3>1, <3>2 DEF Remembers
  <2>3. CASE afterOne
    BY <1>1, <2>3 DEF Remembers
  <2>4. QED
    BY <1>3, <2>1, <2>2, <2>3
<1>5. StreamInOrder'
  <2> SUFFICES ASSUME returned # None
               PROVE  \/ gapTold' /\ Later(position', returned')
                      \/ Follows(position', returned')
                      \/ /\ resumed' /\ returned'[2] = 1
                         /\ page' = returned'[1] /\ next' > 1
    BY <1>1 DEF StreamInOrder
  <2>1. /\ returned[1] \in Nat /\ returned[2] \in Nat
        /\ position = <<page, next>> /\ position' = <<page, next + 1>>
    BY <1>1, ReturnedIsItem, Bounds DEF Inv, position, Pages, Seqs
  <2>2. CASE gapTold /\ Later(position, returned)
    BY <1>1, <2>1, <2>2 DEF Order!Later, Pages
  <2>3. CASE Follows(position, returned)
    BY <1>1, <2>1, <2>3 DEF Order!Follows, Seqs
  <2>4. CASE afterOne
    BY <1>1, <2>4
  <2>5. QED
    BY <1>3, <2>2, <2>3, <2>4
<1>6. StreamAsAsked' /\ RemembersAsAsked'
  <2> SUFFICES ASSUME returned = None
               PROVE  StreamAsAsked' /\ RemembersAsAsked'
    BY <1>1 DEF StreamAsAsked, RemembersAsAsked
  <2>1. start[1] \in Nat /\ start[2] \in Nat
    BY <1>1, StartIsPlace DEF Inv
  <2>2. FromStart(page, next) /\ (gapTold \/ NothingMissed(page, next))
    BY <1>1 DEF Inv, StreamAsAsked
  <2>3. FromStart(page, next + 1) /\ (gapTold \/ NothingMissed(page, next + 1))
    BY <1>1, <2>1, <2>2 DEF FromStart, NothingMissed, Seqs
  <2>4. StreamAsAsked'
    BY <1>1, <2>3 DEF StreamAsAsked, FromStart, NothingMissed
  <2>5. RemembersAsAsked'
    BY <1>1, <2>2 DEF RemembersAsAsked, FromStart, NothingMissed
  <2>6. QED
    BY <2>4, <2>5
<1>7. QED
  BY <1>0, <1>1, <1>2, <1>4, <1>5, <1>6 DEF Inv, Order!vars

LEMMA EventDiscontinuityInv ==
  ASSUME Inv, EventDiscontinuity
  PROVE  Inv' /\ Order!TellGap
<1>1. TypeOK /\ TypeOK'
  BY ClientTypeOK DEF Inv, Client
<1>2. /\ announce /\ ~announce' /\ gapTold' /\ link = "up"
      /\ UNCHANGED <<page, next, link, lastKnown, returned, resumed, start>>
  BY <1>1 DEF EventDiscontinuity, TypeOK
<1>3. position' = position
  BY <1>2 DEF position
<1>4. Beginnings' /\ Remembers' /\ RemembersAsAsked'
  BY <1>2 DEF Inv, Beginnings, Remembers, RemembersAsAsked, FromStart
<1>5. StreamInOrder' /\ StreamAsAsked'
  BY <1>2, <1>3 DEF Inv, StreamInOrder, StreamAsAsked, FromStart
<1>6. QED
  BY <1>1, <1>2, <1>4, <1>5 DEF Inv, Order!TellGap

\* A stream opened where start then says begins there, or announces that it cannot.
LEMMA OpenedAsAsked ==
  ASSUME TypeOK, TypeOK', NEW seq \in 0 .. MaxSeq, NEW seqPage \in Nat, seqPage <= page,
         OpenAt(seq, seqPage), start' = Beginning(seq, seqPage), page' = page
  PROVE  /\ start' # None /\ start'[1] <= page
         /\ FromStart(page, next)'
         /\ announce' \/ NothingMissed(page, next)'
<1>1. page \in Nat /\ published \in Nat /\ retained \in Nat /\ seq \in Nat /\ next' \in Nat
  BY Bounds DEF TypeOK, Pages
<1>2. CASE seq = 0
  <2>1. start' = <<page, published + 1>> /\ next' = published + 1
    BY <1>2, OpenAtCases DEF Beginning
  <2>2. QED
    BY <1>1, <2>1, NoneIsNoPlace DEF FromStart, NothingMissed, Seqs
<1>3. CASE seq # 0
  <2>1. start' = <<seqPage, IF seq = 1 THEN 0 ELSE seq>>
    BY <1>3 DEF Beginning
  <2>2. CASE seqPage # page
    <3>1. announce' /\ seqPage < page
      BY <1>1, <1>3, <2>2, OpenAtCases
    <3>2. QED
      BY <1>1, <2>1, <3>1, NoneIsNoPlace DEF FromStart
  <2>3. CASE seqPage = page /\ seq = 1
    BY <1>1, <2>1, <2>3, NoneIsNoPlace DEF FromStart, NothingMissed
  <2>4. CASE seqPage = page /\ seq # 1
    <3>1. \/ announce' /\ next' = retained /\ seq < retained
          \/ next' = seq
      BY <1>1, <1>3, <2>4, OpenAtCases
    <3>2. QED
      BY <1>1, <2>1, <2>4, <3>1, NoneIsNoPlace DEF FromStart, NothingMissed, Seqs
  <2>5. QED
    BY <2>2, <2>3, <2>4
<1>4. QED
  BY <1>2, <1>3

\* A new stream starts at the position remembered, or announces that it cannot;
\* at 1 it starts anywhere on the page.
LEMMA ReconnectOpens ==
  ASSUME Inv, Reconnect
  PROVE  \/ lastKnownSequenceNumber = 0
         \/ /\ lastKnownSequencePage = page /\ next' = lastKnownSequenceNumber
            /\ ~announce'
         \/ /\ lastKnownSequencePage < page \/ (lastKnownSequencePage = page
                                              /\ lastKnownSequenceNumber < next')
            /\ announce'
         \/ /\ lastKnownSequencePage = page /\ lastKnownSequenceNumber = 1
            /\ next' > 1 /\ ~announce'
<1>0. TypeOK /\ TypeOK'
  BY ClientTypeOK DEF Inv, Client
<1>1. /\ page \in Nat /\ published \in Nat /\ retained \in Nat \ {0} /\ next' \in Nat \ {0}
      /\ lastKnownSequenceNumber \in Nat /\ lastKnownSequencePage \in Nat
      /\ lastKnownSequencePage <= page /\ announce' \in BOOLEAN
  BY <1>0, Bounds DEF TypeOK, Inv, Beginnings, Pages
<1>2. OpenAt(lastKnownSequenceNumber, lastKnownSequencePage)
  BY DEF Reconnect, ResumePoint
<1>3. CASE lastKnownSequenceNumber = 1 /\ lastKnownSequencePage = page
  <2>1. next' \in retained .. published + 1 /\ (announce' => lastKnownSequenceNumber < retained)
    BY <1>2, <1>3, OpenAtCases
  <2>2. next' > 1 \/ (next' = 1 /\ ~announce')
    BY <1>1, <1>3, <2>1
  <2>3. QED
    BY <1>1, <1>3, <2>2
<1>4. CASE lastKnownSequenceNumber # 0 /\ ~(lastKnownSequenceNumber = 1 /\ lastKnownSequencePage = page)
  <2>1. CASE lastKnownSequencePage # page \/ lastKnownSequenceNumber < retained
    <3>1. announce' /\ next' = retained
      BY <1>2, <1>4, <2>1, OpenAtCases
    <3>2. QED
      BY <1>1, <2>1, <3>1
  <2>2. CASE ~(lastKnownSequencePage # page \/ lastKnownSequenceNumber < retained)
    BY <1>2, <1>4, <2>2, OpenAtCases
  <2>3. QED
    BY <2>1, <2>2
<1>5. QED
  BY <1>3, <1>4

LEMMA ReconnectInv ==
  ASSUME Inv, Reconnect
  PROVE  Inv' /\ Order!Reopen
<1>0. TypeOK /\ TypeOK'
  BY ClientTypeOK DEF Inv, Client
<1> DEFINE seq == lastKnownSequenceNumber
           seqPage == lastKnownSequencePage
<1>1. /\ link = "down" /\ link' = "up" /\ resumed'
      /\ UNCHANGED <<page, lastKnown, returned, gapTold>>
      /\ returned # None => start' = start
  BY <1>0 DEF Reconnect, ResumePoint, OpenAt, StartAgain, TypeOK
<1>2. /\ page \in Nat /\ seq \in 0 .. MaxSeq /\ seqPage \in Nat
      /\ next' \in Nat /\ seqPage <= page
  BY <1>0, Bounds DEF TypeOK, Inv, Beginnings, Pages
<1>3. Remembers'
  BY <1>1 DEF Inv, Remembers
<1>4. StreamInOrder'
  <2> SUFFICES ASSUME returned # None
               PROVE  StreamInOrder'
    BY <1>1 DEF StreamInOrder
  <2>1. /\ returned = <<returned[1], returned[2]>>
        /\ returned[1] \in Nat /\ returned[2] \in Nat \ {0}
    BY ReturnedIsItem, Bounds DEF Inv, Pages, Seqs
  <2>2. position' = <<page, next'>> /\ returned' = returned
    BY <1>1 DEF position
  <2>3. /\ seq > 0
        /\ \/ /\ seqPage = returned[1] /\ seq >= returned[2]
              /\ \A n \in Seqs : returned[2] < n /\ n <= seq => n \in UnknownSeqs
           \/ gapTold /\ Later(<<seqPage, seq>>, returned)
           \/ resumed /\ returned[2] = 1 /\ seqPage = returned[1] /\ seq > 1
    BY DEF Inv, Remembers
  <2>4. returned[1] < seqPage \/ (returned[1] = seqPage /\ returned[2] <= seq)
    BY <1>2, <2>1, <2>3 DEF Order!Later
  <2>5. CASE announce' /\ (seqPage < page \/ (seqPage = page /\ seq < next'))
    <3>1. Later(position', returned)
      BY <1>2, <2>1, <2>2, <2>4, <2>5 DEF Order!Later
    <3>2. QED
      BY <2>2, <2>5, <3>1 DEF StreamInOrder
  <2>6. CASE ~announce' /\ seqPage = page /\ next' = seq
    <3>1. position' = <<seqPage, seq>>
      BY <2>2, <2>6
    <3>2. CASE seqPage = returned[1] /\ seq = returned[2]
      BY <1>1, <2>1, <2>2, <2>6, <3>1, <3>2 DEF StreamInOrder
    <3>3. CASE gapTold /\ Later(<<seqPage, seq>>, returned)
      BY <1>1, <2>2, <2>6, <3>1, <3>3 DEF StreamInOrder
    <3>4. CASE /\ seqPage = returned[1] /\ seq > returned[2]
               /\ \A n \in Seqs : returned[2] < n /\ n <= seq => n \in UnknownSeqs
      <4>1. Follows(<<seqPage, seq>>, returned)
        BY <1>2, <2>1, <3>4 DEF Order!Follows, Seqs
      <4>2. QED
        BY <1>1, <2>2, <2>6, <3>1, <4>1 DEF StreamInOrder
    <3>5. CASE returned[2] = 1 /\ seqPage = returned[1] /\ seq > 1
      BY <1>1, <2>2, <2>6, <3>5 DEF StreamInOrder
    <3>6. QED
      BY <1>2, <2>1, <2>3, <3>2, <3>3, <3>4, <3>5
  <2>7. CASE ~announce' /\ seqPage = page /\ seq = 1 /\ next' > 1
    <3>1. CASE gapTold /\ Later(<<seqPage, seq>>, returned)
      <4>1. Later(position', returned)
        BY <1>2, <2>1, <2>2, <2>7, <3>1 DEF Order!Later
      <4>2. QED
        BY <1>1, <2>2, <2>7, <3>1, <4>1 DEF StreamInOrder
    <3>2. CASE seqPage = returned[1] /\ seq >= returned[2]
      <4>1. returned[2] = 1 /\ page' = returned[1] /\ next' > 1
        BY <1>1, <2>1, <2>7, <3>2
      <4>2. QED
        BY <1>1, <2>2, <2>7, <4>1 DEF StreamInOrder
    <3>3. QED
      BY <2>3, <2>7, <3>1, <3>2
  <2>8. QED
    BY <2>3, <2>5, <2>6, <2>7, ReconnectOpens
<1>5. ASSUME returned = None
      PROVE  Beginnings' /\ StreamAsAsked' /\ RemembersAsAsked'
  <2>1. CASE seq \in {0, 1}
    <3>1. start' = Beginning(seq, seqPage) /\ OpenAt(seq, seqPage)
      BY <1>5, <2>1 DEF Reconnect, ResumePoint, StartAgain
    <3>2. /\ start' # None /\ start'[1] <= page
          /\ FromStart(page, next)' /\ (announce' \/ NothingMissed(page, next)')
      BY <1>0, <1>1, <1>2, <3>1, OpenedAsAsked
    <3>3. Beginnings' /\ StreamAsAsked'
      BY <1>1, <1>5, <3>2 DEF Inv, Beginnings, StreamAsAsked
    <3>4. seq = 1 => start' = <<seqPage, 0>>
      BY <3>1 DEF Beginning
    <3>5. RemembersAsAsked'
      BY <1>1, <1>2, <2>1, <3>4 DEF RemembersAsAsked, FromStart, NothingMissed
    <3>6. QED
      BY <3>3, <3>5
  <2>2. CASE seq \notin {0, 1}
    <3>1. start' = start
      BY <1>5, <2>2 DEF Reconnect, StartAgain
    <3>2. /\ FromStart(seqPage, seq) /\ (gapTold \/ NothingMissed(seqPage, seq))
          /\ start # None /\ start[1] \in Nat /\ start[2] \in Nat /\ start[1] <= page
      BY <1>1, <1>5, <2>2, StartIsPlace DEF Inv, Beginnings, RemembersAsAsked
    <3>3. Beginnings' /\ RemembersAsAsked'
      BY <1>1, <1>5, <3>1, <3>2
      DEF Inv, Beginnings, RemembersAsAsked, FromStart, NothingMissed
    <3>4. \/ seqPage = page /\ next' = seq
          \/ announce' /\ (seqPage < page \/ (seqPage = page /\ seq < next'))
      BY <2>2, ReconnectOpens
    <3>5. /\ FromStart(page, next')
          /\ announce' \/ gapTold \/ NothingMissed(page, next')
      BY <1>2, <3>2, <3>4 DEF FromStart, NothingMissed
    <3>6. StreamAsAsked'
      BY <1>1, <3>1, <3>5 DEF StreamAsAsked, FromStart, NothingMissed
    <3>7. QED
      BY <3>3, <3>6
  <2>3. QED
    BY <2>1, <2>2
<1>6. ASSUME returned # None
      PROVE  Beginnings' /\ StreamAsAsked' /\ RemembersAsAsked'
  BY <1>1, <1>6 DEF Inv, Beginnings, StreamAsAsked, RemembersAsAsked
<1>7. QED
  BY <1>0, <1>1, <1>3, <1>4, <1>5, <1>6 DEF Inv, Order!Reopen

LEMMA SubscribeInv ==
  ASSUME Inv, Subscribe
  PROVE  Inv' /\ UNCHANGED Order!vars
<1>0. TypeOK /\ TypeOK'
  BY ClientTypeOK DEF Inv
<1>1. PICK seq \in 0 .. MaxSeq, seqPage \in 1 .. page :
         start' = Beginning(seq, seqPage) /\ OpenAt(seq, seqPage)
  BY DEF Subscribe
<1>2. /\ returned = None /\ lastKnownSequenceNumber = 0 /\ link' = "up"
      /\ UNCHANGED <<page, lastKnown, returned, gapTold, resumed>>
  BY <1>1 DEF Subscribe, OpenAt, Inv, Beginnings
<1>3. /\ start' # None /\ start'[1] <= page
      /\ FromStart(page, next)' /\ (announce' \/ NothingMissed(page, next)')
  <2>1. seqPage \in Nat /\ seqPage <= page
    BY <1>0 DEF TypeOK, Pages
  <2>2. QED
    BY <1>0, <1>1, <1>2, <2>1, OpenedAsAsked
<1>4. Beginnings' /\ Remembers' /\ StreamInOrder'
  BY <1>2, <1>3 DEF Inv, Beginnings, Remembers, StreamInOrder
<1>5. StreamAsAsked' /\ RemembersAsAsked'
  BY <1>2, <1>3 DEF StreamAsAsked, RemembersAsAsked
<1>6. QED
  BY <1>0, <1>2, <1>4, <1>5 DEF Inv, Order!vars

LEMMA ServiceHidden ==
  ASSUME Service
  PROVE  UNCHANGED Order!vars
  BY DEF Service, Publish, Expire, ResetTopic, LoseStream, Order!vars

LEMMA UnchangedInv ==
  ASSUME Inv, UNCHANGED vars
  PROVE  Inv' /\ UNCHANGED Order!vars
  BY MemoryKept
  DEF vars, Inv, TypeOK, Beginnings, StreamInOrder, StreamAsAsked, FromStart,
     NothingMissed, position, Order!vars

LEMMA NextInv ==
  ASSUME Inv, [Next]_vars
  PROVE  Inv' /\ [Order!Next]_(Order!vars)
<1>1. CASE Service
  BY <1>1, ServiceInv, ServiceHidden
<1>2. CASE Subscribe
  BY <1>2, SubscribeInv
<1>3. CASE EventItem
  BY <1>3, EventItemInv
<1>4. CASE EventUnknownValue
  BY <1>4, EventUnknownValueInv
<1>5. CASE EventDiscontinuity
  BY <1>5, EventDiscontinuityInv DEF Order!Next
<1>6. CASE Reconnect
  BY <1>6, ReconnectInv DEF Order!Next
<1>7. CASE UNCHANGED vars
  BY <1>7, UnchangedInv
<1>8. QED
  BY <1>1, <1>2, <1>3, <1>4, <1>5, <1>6, <1>7 DEF Next, Client

-----------------------------------------------------------------------------
(* The promise to the application *)

\* The position remembered and the one of the stream keep to the item returned.
THEOREM PositionsAgree == Spec => []Inv
  BY InitInv, NextInv, PTL DEF Spec

\* Over lost streams, inclusive resumption, expiry and topic resets, Event
\* returns the items in the order of the topic, as TopicOrder promises, its
\* exception for a reconnect after item number 1 included.
THEOREM DeliveryImplementsOrder == Spec => ImplementsTopicOrder
<1>1. Init => Order!Init
  BY DEF Init, Order!Init
<1>2. Inv /\ [Next]_vars => [Order!Next]_(Order!vars)
  BY NextInv
<1>3. QED
  BY <1>1, <1>2, PositionsAgree, PTL DEF Spec, ImplementsTopicOrder, Order!Spec

\* Only EventItem returns an item, and the position of its stream is right.
LEMMA FirstItem ==
  ASSUME Inv, [Next]_vars
  PROVE  [FirstItemIsAsAsked]_vars
<1> SUFFICES ASSUME returned = None, returned' # None
             PROVE  FirstItemIsAsAsked
  BY DEF FirstItemIsAsAsked
<1>1. EventItem
  BY DEF Next, Client, Service, Publish, Expire, ResetTopic, LoseStream, Subscribe,
     EventUnknownValue, EventDiscontinuity, Reconnect, vars
<1>2. link = "up" /\ ~announce /\ returned' = <<page, next>> /\ next \in Seqs
  BY <1>1, Bounds DEF EventItem, ReceiveItem, Inv, TypeOK, Seqs
<1>3. FromStart(page, next) /\ (gapTold \/ NothingMissed(page, next))
  BY <1>2 DEF Inv, StreamAsAsked
<1>4. start[2] \in Nat /\ next \in Nat /\ next <= MaxSeq
  BY <1>2, StartIsPlace, Bounds DEF Inv, Seqs
<1>5. NothingMissed(page, next) =>
        page = start[1] /\ (start[2] = 0 \/ start[2] .. (next - 1) \subseteq UnknownSeqs)
  BY <1>4, Bounds DEF NothingMissed, Seqs
<1> DEFINE first == returned'
           onPage == first[1] = start[1] /\ first[2] >= start[2]
           decodedFirst == start[2] .. (first[2] - 1) \subseteq UnknownSeqs
<1>6. first[1] = page /\ first[2] = next
  BY <1>2
<1>7. first[1] > start[1] \/ onPage
  BY <1>3, <1>6 DEF FromStart
<1>8. gapTold \/ (onPage /\ (start[2] = 0 \/ decodedFirst))
  <2>1. start[2] .. (first[2] - 1) = start[2] .. (next - 1)
    BY <1>6
  <2>2. NothingMissed(page, next) => onPage
    BY <1>3, <1>4, <1>5, <1>6, StartIsPlace, <1>2 DEF FromStart, Inv
  <2>3. QED
    BY <1>3, <1>5, <2>1, <2>2
<1>9. QED
  BY <1>7, <1>8 DEF FirstItemIsAsAsked

\* The first item is never before the place the subscription is to begin, and
\* without a discontinuity told it is the one there or the first after it that
\* can be decoded; that place moves to the newest message when a stream is
\* reopened with no position known, and is the whole page when opened at 1.
THEOREM BeginsAsAsked == Spec => BeginsWhereAsked
  BY FirstItem, PositionsAgree, PTL DEF Spec, BeginsWhereAsked

=============================================================================
