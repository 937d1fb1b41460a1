------------------------- MODULE TopicStreamsProofs -------------------------
(***************************************************************************)
(* Theorems about TopicStreams, for any number of goroutines and channels. *)
(***************************************************************************)
EXTENDS TopicStreams, FiniteSetTheorems, TLAPS

USE DEF Channels, Positions, client, GoTo

-----------------------------------------------------------------------------
(* Type correctness *)

LEMMA InitTypeOK == Init => TypeOK
  BY ChannelsAssumption DEF Init, TypeOK

LEMMA ClientStepTypeOK ==
  ASSUME NEW s \in Subs, TypeOK, ClientStep(s)
  PROVE  TypeOK'
<1> USE ChannelsAssumption DEF TypeOK
<1>1. CASE CheckNumConcurrentStreams(s)
  BY <1>1 DEF CheckNumConcurrentStreams
<1>2. CASE AddStream(s)
  <2>1. NextManager \in 0 .. NumChannels - 1
    BY DEF NextManager
  <2>2. QED
    BY <1>2, <2>1 DEF AddStream
<1>3. CASE AddStreamPanics(s)
  BY <1>3 DEF AddStreamPanics
<1>4. CASE OpenStream(s)
  BY <1>4 DEF OpenStream
<1>5. CASE OpenFails(s)
  BY <1>5 DEF OpenFails
<1>6. CASE FirstHeartbeat(s)
  BY <1>6 DEF FirstHeartbeat
<1>7. CASE FirstRecvFails(s)
  BY <1>7 DEF FirstRecvFails
<1>8. CASE FirstIsNotHeartbeat(s)
  BY <1>8 DEF FirstIsNotHeartbeat
<1>9. CASE EventEnds(s)
  BY <1>9 DEF EventEnds
<1>10. CASE EventReceives(s)
  BY <1>10 DEF EventReceives
<1>11. CASE RecvMessage(s)
  BY <1>11 DEF RecvMessage
<1>12. CASE RecvFailsAndEnds(s)
  BY <1>12 DEF RecvFailsAndEnds
<1>13. CASE Disconnected(s)
  BY <1>13 DEF Disconnected
<1>14. CASE Reconnect(s)
  BY <1>14 DEF Reconnect
<1>15. QED
  BY <1>1, <1>2, <1>3, <1>4, <1>5, <1>6, <1>7, <1>8, <1>9, <1>10, <1>11,
     <1>12, <1>13, <1>14 DEF ClientStep

LEMMA OutsideStepTypeOK ==
  ASSUME NEW s \in Subs, TypeOK, OutsideStep(s)
  PROVE  TypeOK'
<1> USE DEF TypeOK, CancelStream
<1>1. CASE Subscribe(s)
  BY <1>1 DEF Subscribe
<1>2. CASE EventCall(s)
  <2>1. PICK done \in {FALSE, ctxDone[s]} : ctxDone' = [ctxDone EXCEPT ![s] = done]
    BY <1>2 DEF EventCall
  <2>2. drift' \in Int
    BY <1>2 DEF EventCall
  <2>3. QED
    BY <1>2, <2>1, <2>2 DEF EventCall
<1>3. CASE Close(s)
  BY <1>3 DEF Close
<1>4. CASE CancelParentCtx(s)
  BY <1>4 DEF CancelParentCtx
<1>5. CASE CancelEventCtx(s)
  BY <1>5 DEF CancelEventCtx
<1>6. CASE Forget(s)
  BY <1>6 DEF Forget
<1>7. CASE StreamBreaks(s)
  BY <1>7 DEF StreamBreaks
<1>8. QED
  BY <1>1, <1>2, <1>3, <1>4, <1>5, <1>6, <1>7 DEF OutsideStep

LEMMA NextTypeOK == TypeOK /\ [Next]_vars => TypeOK'
<1> SUFFICES ASSUME TypeOK, [Next]_vars PROVE TypeOK'
  OBVIOUS
<1>1. CASE \E s \in Subs : ClientStep(s)
  BY <1>1, ClientStepTypeOK
<1>2. CASE \E s \in Subs : OutsideStep(s)
  BY <1>2, OutsideStepTypeOK
<1>3. CASE ClientClose
  BY <1>3 DEF ClientClose, TypeOK
<1>4. CASE UNCHANGED vars
  BY <1>4 DEF vars, TypeOK
<1>5. QED
  BY <1>1, <1>2, <1>3, <1>4 DEF Next

\* Every variable keeps its type, whatever the environment does.
THEOREM TypeCorrect == Spec => []TypeOK
  BY InitTypeOK, NextTypeOK, PTL DEF Spec

-----------------------------------------------------------------------------
(* Sets of goroutines, and what one goroutine's move does to their size *)

LEMMA FiniteSubsets ==
  ASSUME NEW T \in SUBSET Subs
  PROVE  /\ IsFiniteSet(T)
         /\ Cardinality(T) \in Nat
         /\ Cardinality(T) <= Cardinality(Subs)
         /\ Cardinality(Subs) \in Nat
  BY SubsAssumption, FS_Subset, FS_CardinalityType

LEMMA Joins ==
  ASSUME NEW T \in SUBSET Subs, NEW U, NEW s \in Subs, s \notin T, U = T \cup {s}
  PROVE  Cardinality(U) = Cardinality(T) + 1
  BY FiniteSubsets, FS_AddElement

LEMMA Leaves ==
  ASSUME NEW T \in SUBSET Subs, NEW U, NEW s \in Subs, s \in T, U = T \ {s}
  PROVE  Cardinality(U) = Cardinality(T) - 1
  BY FiniteSubsets, FS_RemoveElement

\* The limit is a natural number, and so is the product the check computes.
LEMMA LimitIsNat == StreamLimit \in Nat
  BY ChannelsAssumption DEF StreamLimit

LEMMA LimitInUse ==
  ASSUME TypeOK
  PROVE  numStreamChannels * PerChannel \in {0, StreamLimit}
  BY ChannelsAssumption DEF StreamLimit, TypeOK

-----------------------------------------------------------------------------
(* The counter never passes the limit by more than the goroutines in flight *)

LEMMA InitOvershoot == Init => OvershootBounded
<1> SUFFICES ASSUME Init PROVE OvershootBounded
  OBVIOUS
<1>1. At("add") = {}
  BY DEF Init, At
<1>2. Cardinality(Subs) \in Nat /\ Cardinality(Subs) # 0
  BY SubsAssumption, FS_CardinalityType, FS_EmptySet
<1>3. Cardinality(At("add")) = 0
  BY <1>1, FS_EmptySet
<1>4. QED
  BY <1>2, <1>3, LimitIsNat DEF Init, OvershootBounded

\* A step that moves nobody into "add" and does not raise the counter.
LEMMA QuietStepOvershoot ==
  ASSUME TypeOK, TypeOK', OvershootBounded,
         numGrpcStreams' <= numGrpcStreams,
         At("add")' \subseteq At("add")
  PROVE  OvershootBounded'
<1>1. /\ IsFiniteSet(At("add"))
      /\ Cardinality(At("add")) \in Nat /\ Cardinality(At("add")') \in Nat
      /\ Cardinality(Subs) \in Nat
  BY FiniteSubsets DEF At
<1>2. Cardinality(At("add")') <= Cardinality(At("add"))
  BY <1>1, FS_Subset
<1>3. QED
  BY <1>1, <1>2, LimitIsNat DEF OvershootBounded, TypeOK

LEMMA CheckOvershoot ==
  ASSUME NEW s \in Subs, TypeOK, TypeOK', OvershootBounded,
         CheckNumConcurrentStreams(s)
  PROVE  OvershootBounded'
<1>1. CASE AtStreamLimit
  <2>1. At("add")' \subseteq At("add") /\ numGrpcStreams' <= numGrpcStreams
    BY <1>1 DEF CheckNumConcurrentStreams, At, TypeOK
  <2>2. QED
    BY <2>1, QuietStepOvershoot
<1>2. CASE ~AtStreamLimit
  <2>1. numGrpcStreams' = numGrpcStreams
    BY DEF CheckNumConcurrentStreams
  <2>2. numGrpcStreams <= StreamLimit - 1
    <3>1. numGrpcStreams \in Int
      BY DEF TypeOK
    <3>2. ~(numGrpcStreams >= numStreamChannels * PerChannel)
      BY <1>2 DEF AtStreamLimit
    <3>3. QED
      BY <3>1, <3>2, LimitIsNat, LimitInUse
  <2>3. /\ Cardinality(At("add")') \in Nat
        /\ Cardinality(At("add")') <= Cardinality(Subs)
        /\ Cardinality(Subs) \in Nat
    BY FiniteSubsets DEF At
  <2>4. QED
    BY <2>1, <2>2, <2>3, LimitIsNat DEF OvershootBounded, TypeOK
<1>3. QED
  BY <1>1, <1>2

LEMMA AddOvershoot ==
  ASSUME NEW s \in Subs, TypeOK, TypeOK', OvershootBounded, AddStream(s)
  PROVE  OvershootBounded'
<1>1. At("add") \in SUBSET Subs /\ s \in At("add") /\ At("add")' = At("add") \ {s}
  BY DEF AddStream, At, TypeOK
<1>2. Cardinality(At("add")') = Cardinality(At("add")) - 1
  BY <1>1, Leaves
<1>3. Cardinality(At("add")) \in Nat /\ Cardinality(Subs) \in Nat
  BY <1>1, FiniteSubsets
<1>4. QED
  BY <1>2, <1>3, LimitIsNat DEF AddStream, OvershootBounded, TypeOK

LEMMA AddPanicsOvershoot ==
  ASSUME NEW s \in Subs, TypeOK, TypeOK', OvershootBounded, AddStreamPanics(s)
  PROVE  OvershootBounded'
<1>1. At("add") \in SUBSET Subs /\ s \in At("add") /\ At("add")' = {}
  BY DEF AddStreamPanics, At, TypeOK
<1>2. Cardinality(At("add")') = 0
  BY <1>1, FS_EmptySet
<1>3. Cardinality(At("add")) \in Nat \ {0} /\ Cardinality(Subs) \in Nat
  BY <1>1, FiniteSubsets, FS_EmptySet
<1>4. QED
  BY <1>2, <1>3, LimitIsNat DEF AddStreamPanics, OvershootBounded, TypeOK

LEMMA NextOvershoot ==
  TypeOK /\ TypeOK' /\ OvershootBounded /\ [Next]_vars => OvershootBounded'
<1> SUFFICES ASSUME TypeOK, TypeOK', OvershootBounded, [Next]_vars
             PROVE  OvershootBounded'
  OBVIOUS
<1>1. ASSUME NEW s \in Subs, ClientStep(s)
      PROVE  OvershootBounded'
  <2>1. CASE \/ OpenStream(s) \/ OpenFails(s) \/ FirstHeartbeat(s)
             \/ FirstRecvFails(s) \/ FirstIsNotHeartbeat(s) \/ EventEnds(s)
             \/ EventReceives(s) \/ RecvMessage(s) \/ RecvFailsAndEnds(s)
             \/ Disconnected(s) \/ Reconnect(s)
    <3>1. At("add")' \subseteq At("add") /\ numGrpcStreams' <= numGrpcStreams
      BY <2>1 DEF OpenStream, OpenFails, FirstHeartbeat, FirstRecvFails,
         FirstIsNotHeartbeat, EventEnds, EventReceives, RecvMessage,
         RecvFailsAndEnds, Disconnected, Reconnect, At, TypeOK
    <3>2. QED
      BY <3>1, QuietStepOvershoot
  <2>2. QED
    BY <1>1, <2>1, CheckOvershoot, AddOvershoot, AddPanicsOvershoot DEF ClientStep
<1>2. ASSUME NEW s \in Subs, OutsideStep(s)
      PROVE  OvershootBounded'
  <2>1. \/ pc' = pc
        \/ \E position \in {"check", "event", "idle"} : GoTo(s, position)
    BY <1>2 DEF OutsideStep, Subscribe, EventCall, Close, CancelParentCtx,
       CancelEventCtx, Forget, StreamBreaks
  <2>2. At("add")' \subseteq At("add")
    BY <2>1 DEF At, TypeOK
  <2>3. numGrpcStreams' <= numGrpcStreams
    BY <1>2 DEF OutsideStep, Subscribe, EventCall, Close, CancelParentCtx,
       CancelEventCtx, Forget, StreamBreaks, TypeOK
  <2>4. QED
    BY <2>2, <2>3, QuietStepOvershoot
<1>3. CASE ClientClose \/ UNCHANGED vars
  <2>1. At("add")' \subseteq At("add") /\ numGrpcStreams' <= numGrpcStreams
    BY <1>3 DEF ClientClose, vars, At, TypeOK
  <2>2. QED
    BY <2>1, QuietStepOvershoot
<1>4. QED
  BY <1>1, <1>2, <1>3 DEF Next

(***************************************************************************)
(* checkNumConcurrentStreams and Add(1) are two steps, yet with any number *)
(* of goroutines, any number of channels and any environment the counter   *)
(* passes the stream limit by less than the number of goroutines.          *)
(***************************************************************************)
THEOREM Overshoot == Spec => []OvershootBounded
  BY InitOvershoot, NextOvershoot, TypeCorrect, PTL DEF Spec

-----------------------------------------------------------------------------
(* The counter is the number of slots held plus the drift *)

Holders == {s \in Subs : HoldsSlot(s)}

LEMMA InitDrift == Init => CounterIsHeldPlusDrift
<1> SUFFICES ASSUME Init PROVE numGrpcStreams = Cardinality(Holders) + drift
  BY DEF CounterIsHeldPlusDrift, Holders
<1>1. Holders = {}
  BY DEF Init, Holders, HoldsSlot
<1>2. QED
  BY <1>1, FS_EmptySet DEF Init

\* A step of s that moves counter minus drift as it moves s: s joins the
\* holders, leaves them, or stays where it was.
LEMMA MovesSlot ==
  ASSUME NEW s \in Subs, TypeOK, TypeOK', CounterIsHeldPlusDrift,
         At("crashed")' = At("crashed"),
         \/ /\ numGrpcStreams' - drift' = numGrpcStreams - drift
            /\ Holders' = Holders
         \/ /\ numGrpcStreams' - drift' = numGrpcStreams - drift + 1
            /\ s \notin Holders /\ Holders' = Holders \cup {s}
         \/ /\ numGrpcStreams' - drift' = numGrpcStreams - drift - 1
            /\ s \in Holders /\ Holders' = Holders \ {s}
  PROVE  CounterIsHeldPlusDrift'
<1>1. Holders \in SUBSET Subs /\ Cardinality(Holders) \in Nat
  BY FiniteSubsets DEF Holders
<1>2. Cardinality(Holders')
        = Cardinality(Holders) + (numGrpcStreams' - drift') - (numGrpcStreams - drift)
  <2>1. numGrpcStreams \in Int /\ drift \in Int
    BY DEF TypeOK
  <2>2. CASE s \notin Holders /\ Holders' = Holders \cup {s}
    <3>1. Cardinality(Holders') = Cardinality(Holders) + 1
      BY <1>1, <2>2, Joins
    <3>2. numGrpcStreams' - drift' = numGrpcStreams - drift + 1
      BY <2>2
    <3>3. QED
      BY <1>1, <2>1, <3>1, <3>2
  <2>3. CASE s \in Holders /\ Holders' = Holders \ {s}
    <3>1. Cardinality(Holders') = Cardinality(Holders) - 1
      BY <1>1, <2>3, Leaves
    <3>2. numGrpcStreams' - drift' = numGrpcStreams - drift - 1
      BY <2>3
    <3>3. QED
      BY <1>1, <2>1, <3>1, <3>2
  <2>4. CASE Holders' = Holders /\ numGrpcStreams' - drift' = numGrpcStreams - drift
    BY <1>1, <2>1, <2>4
  <2>5. QED
    BY <2>2, <2>3, <2>4
<1>3. /\ numGrpcStreams \in Int /\ drift \in Int
      /\ numGrpcStreams' \in Int /\ drift' \in Int
  BY DEF TypeOK
<1>4. At("crashed") = {} => numGrpcStreams = Cardinality(Holders) + drift
  BY DEF CounterIsHeldPlusDrift, Holders
<1>5. At("crashed")' = {} => numGrpcStreams' = Cardinality(Holders') + drift'
  BY <1>1, <1>2, <1>3, <1>4
<1>6. QED
  BY <1>5 DEF CounterIsHeldPlusDrift, Holders

\* Which goroutines hold a slot after s has gone to a position.
LEMMA GoesTo ==
  ASSUME NEW s \in Subs, TypeOK, NEW position \in Positions \ {"crashed"},
         GoTo(s, position), pc[s] # "crashed"
  PROVE  /\ At("crashed")' = At("crashed")
         /\ HoldsSlot(s)' <=> position \in {"open", "first", "ready", "event", "recv"}
         /\ HoldsSlot(s)' /\ ~HoldsSlot(s) => s \notin Holders /\ Holders' = Holders \cup {s}
         /\ ~HoldsSlot(s)' /\ HoldsSlot(s) => s \in Holders /\ Holders' = Holders \ {s}
         /\ (HoldsSlot(s)' <=> HoldsSlot(s)) => Holders' = Holders
<1>1. pc \in [Subs -> Positions] /\ pc' = [pc EXCEPT ![s] = position]
  BY DEF TypeOK
<1>2. \A t \in Subs : pc'[t] = IF t = s THEN position ELSE pc[t]
  BY <1>1
<1>3. \A t \in Subs \ {s} : pc'[t] = pc[t]
  BY <1>2
<1>4. pc'[s] = position
  BY <1>2
<1>5. At("crashed")' = At("crashed")
  BY <1>3, <1>4 DEF At
<1>6. HoldsSlot(s)' <=> position \in {"open", "first", "ready", "event", "recv"}
  BY <1>4 DEF HoldsSlot
<1>7. \A t \in Subs \ {s} : HoldsSlot(t)' <=> HoldsSlot(t)
  BY <1>3 DEF HoldsSlot
<1>8. /\ Holders' \subseteq Subs /\ Holders \subseteq Subs
      /\ \A t \in Subs : (t \in Holders <=> HoldsSlot(t)) /\ (t \in Holders' <=> HoldsSlot(t)')
  BY DEF Holders
<1>9. QED
  BY <1>5, <1>6, <1>7, <1>8

LEMMA ClientStepDrift ==
  ASSUME NEW s \in Subs, TypeOK, TypeOK', CounterIsHeldPlusDrift, ClientStep(s)
  PROVE  CounterIsHeldPlusDrift'
<1>1. CASE CheckNumConcurrentStreams(s)
  <2>1. pc[s] = "check" /\ \E position \in {"add", "backoff", "idle"} : GoTo(s, position)
    BY <1>1 DEF CheckNumConcurrentStreams
  <2>2. numGrpcStreams' - drift' = numGrpcStreams - drift
    BY <1>1 DEF CheckNumConcurrentStreams, TypeOK
  <2>3. QED
    BY <2>1, <2>2, MovesSlot, GoesTo DEF HoldsSlot
<1>2. CASE AddStream(s)
  <2>1. pc[s] = "add" /\ \E position \in {"open"} : GoTo(s, position)
    BY <1>2 DEF AddStream
  <2>2. numGrpcStreams' - drift' = numGrpcStreams - drift + 1
    BY <1>2 DEF AddStream, TypeOK
  <2>3. QED
    BY <2>1, <2>2, MovesSlot, GoesTo DEF HoldsSlot
<1>3. CASE OpenStream(s)
  <2>1. pc[s] = "open" /\ \E position \in {"event", "first"} : GoTo(s, position)
    BY <1>3 DEF OpenStream
  <2>2. numGrpcStreams' - drift' = numGrpcStreams - drift
    BY <1>3 DEF OpenStream, TypeOK
  <2>3. QED
    BY <2>1, <2>2, MovesSlot, GoesTo DEF HoldsSlot
<1>4. CASE OpenFails(s)
  <2>1. pc[s] = "open" /\ \E position \in {"backoff", "idle"} : GoTo(s, position)
    BY <1>4 DEF OpenFails
  <2>2. numGrpcStreams' - drift' = numGrpcStreams - drift - 1
    BY <1>4 DEF OpenFails, TypeOK
  <2>3. QED
    BY <2>1, <2>2, MovesSlot, GoesTo DEF HoldsSlot
<1>5. CASE FirstHeartbeat(s)
  <2>1. pc[s] = "first" /\ \E position \in {"ready"} : GoTo(s, position)
    BY <1>5 DEF FirstHeartbeat
  <2>2. numGrpcStreams' - drift' = numGrpcStreams - drift
    BY <1>5 DEF FirstHeartbeat, TypeOK
  <2>3. QED
    BY <2>1, <2>2, MovesSlot, GoesTo DEF HoldsSlot
<1>6. CASE FirstRecvFails(s)
  <2>1. pc[s] = "first" /\ \E position \in {"check", "idle"} : GoTo(s, position)
    BY <1>6 DEF FirstRecvFails
  <2>2. numGrpcStreams' - drift' = numGrpcStreams - drift - 1
    BY <1>6 DEF FirstRecvFails, TypeOK
  <2>3. QED
    BY <2>1, <2>2, MovesSlot, GoesTo DEF HoldsSlot
<1>7. CASE FirstIsNotHeartbeat(s)
  <2>1. pc[s] = "first" /\ \E position \in {"idle"} : GoTo(s, position)
    BY <1>7 DEF FirstIsNotHeartbeat
  <2>2. numGrpcStreams' - drift' = numGrpcStreams - drift - 1
    BY <1>7 DEF FirstIsNotHeartbeat, TypeOK
  <2>3. QED
    BY <2>1, <2>2, MovesSlot, GoesTo DEF HoldsSlot
<1>8. CASE EventEnds(s)
  <2>1. pc[s] = "event" /\ \E position \in {"ended"} : GoTo(s, position)
    BY <1>8 DEF EventEnds
  <2>2. numGrpcStreams' - drift' = numGrpcStreams - drift - 1
    BY <1>8 DEF EventEnds, TypeOK
  <2>3. QED
    BY <2>1, <2>2, MovesSlot, GoesTo DEF HoldsSlot
<1>9. CASE EventReceives(s)
  <2>1. pc[s] = "event" /\ \E position \in {"recv"} : GoTo(s, position)
    BY <1>9 DEF EventReceives
  <2>2. numGrpcStreams' - drift' = numGrpcStreams - drift
    BY <1>9 DEF EventReceives, TypeOK
  <2>3. QED
    BY <2>1, <2>2, MovesSlot, GoesTo DEF HoldsSlot
<1>10. CASE RecvMessage(s)
  <2>1. pc[s] = "recv" /\ \E position \in {"ready", "event"} : GoTo(s, position)
    BY <1>10 DEF RecvMessage
  <2>2. numGrpcStreams' - drift' = numGrpcStreams - drift
    BY <1>10 DEF RecvMessage, TypeOK
  <2>3. QED
    BY <2>1, <2>2, MovesSlot, GoesTo DEF HoldsSlot
<1>11. CASE RecvFailsAndEnds(s)
  <2>1. pc[s] = "recv" /\ \E position \in {"ended"} : GoTo(s, position)
    BY <1>11 DEF RecvFailsAndEnds
  <2>2. numGrpcStreams' - drift' = numGrpcStreams - drift - 1
    BY <1>11 DEF RecvFailsAndEnds, TypeOK
  <2>3. QED
    BY <2>1, <2>2, MovesSlot, GoesTo DEF HoldsSlot
<1>12. CASE Disconnected(s)
  <2>1. pc[s] = "recv" /\ \E position \in {"backoff"} : GoTo(s, position)
    BY <1>12 DEF Disconnected
  <2>2. numGrpcStreams' - drift' = numGrpcStreams - drift - 1
    BY <1>12 DEF Disconnected, TypeOK
  <2>3. QED
    BY <2>1, <2>2, MovesSlot, GoesTo DEF HoldsSlot
<1>13. CASE Reconnect(s)
  <2>1. pc[s] = "backoff" /\ \E position \in {"check"} : GoTo(s, position)
    BY <1>13 DEF Reconnect
  <2>2. numGrpcStreams' - drift' = numGrpcStreams - drift
    BY <1>13 DEF Reconnect, TypeOK
  <2>3. QED
    BY <2>1, <2>2, MovesSlot, GoesTo DEF HoldsSlot
<1>14. CASE AddStreamPanics(s)
  <2>1. At("crashed")' # {}
    BY <1>14 DEF AddStreamPanics, At, TypeOK
  <2>2. QED
    BY <2>1 DEF CounterIsHeldPlusDrift
<1>15. QED
  BY <1>1, <1>2, <1>3, <1>4, <1>5, <1>6, <1>7, <1>8, <1>9, <1>10, <1>11, <1>12, <1>13, <1>14 DEF ClientStep

LEMMA OutsideStepDrift ==
  ASSUME NEW s \in Subs, TypeOK, TypeOK', CounterIsHeldPlusDrift, OutsideStep(s)
  PROVE  CounterIsHeldPlusDrift'
<1>1. CASE EventCall(s) /\ pc[s] = "ended"
  <2>1. pc[s] = "ended" /\ \E position \in {"event"} : GoTo(s, position)
    BY <1>1 DEF EventCall
  <2>2. numGrpcStreams' - drift' = numGrpcStreams - drift + 1
    BY <1>1 DEF EventCall, TypeOK
  <2>3. QED
    BY <2>1, <2>2, MovesSlot, GoesTo DEF HoldsSlot
<1>2. CASE EventCall(s) /\ pc[s] # "ended"
  <2>1. pc[s] = "ready" /\ \E position \in {"event"} : GoTo(s, position)
    BY <1>2 DEF EventCall
  <2>2. numGrpcStreams' - drift' = numGrpcStreams - drift
    BY <1>2 DEF EventCall, TypeOK
  <2>3. QED
    BY <2>1, <2>2, MovesSlot, GoesTo DEF HoldsSlot
<1>3. CASE Forget(s) /\ pc[s] = "ready"
  <2>1. pc[s] = "ready" /\ \E position \in {"idle"} : GoTo(s, position)
    BY <1>3 DEF Forget
  <2>2. numGrpcStreams' - drift' = numGrpcStreams - drift - 1
    BY <1>3 DEF Forget, TypeOK
  <2>3. QED
    BY <2>1, <2>2, MovesSlot, GoesTo DEF HoldsSlot
<1>4. CASE Forget(s) /\ pc[s] # "ready"
  <2>1. pc[s] = "ended" /\ \E position \in {"idle"} : GoTo(s, position)
    BY <1>4 DEF Forget
  <2>2. numGrpcStreams' - drift' = numGrpcStreams - drift
    BY <1>4 DEF Forget, TypeOK
  <2>3. QED
    BY <2>1, <2>2, MovesSlot, GoesTo DEF HoldsSlot
<1>5. CASE Subscribe(s)
  <2>1. pc[s] = "idle" /\ \E position \in {"check"} : GoTo(s, position)
    BY <1>5 DEF Subscribe
  <2>2. numGrpcStreams' - drift' = numGrpcStreams - drift
    BY <1>5 DEF Subscribe, TypeOK
  <2>3. QED
    BY <2>1, <2>2, MovesSlot, GoesTo DEF HoldsSlot
<1>6. CASE \/ Close(s) \/ CancelParentCtx(s) \/ CancelEventCtx(s) \/ StreamBreaks(s)
  <2>1. pc' = pc /\ numGrpcStreams' = numGrpcStreams /\ drift' = drift
    BY <1>6 DEF Close, CancelParentCtx, CancelEventCtx, StreamBreaks
  <2>2. QED
    BY <2>1 DEF CounterIsHeldPlusDrift, At, HoldsSlot
<1>7. QED
  BY <1>1, <1>2, <1>3, <1>4, <1>5, <1>6 DEF OutsideStep

LEMMA NextDrift ==
  TypeOK /\ TypeOK' /\ CounterIsHeldPlusDrift /\ [Next]_vars => CounterIsHeldPlusDrift'
<1> SUFFICES ASSUME TypeOK, TypeOK', CounterIsHeldPlusDrift, [Next]_vars
             PROVE  CounterIsHeldPlusDrift'
  OBVIOUS
<1>1. ASSUME NEW s \in Subs, ClientStep(s) \/ OutsideStep(s)
      PROVE  CounterIsHeldPlusDrift'
  BY <1>1, ClientStepDrift, OutsideStepDrift
<1>2. CASE ClientClose \/ UNCHANGED vars
  <2>1. /\ numGrpcStreams' = numGrpcStreams /\ drift' = drift /\ pc' = pc
    BY <1>2 DEF ClientClose, vars
  <2>2. QED
    BY <2>1 DEF CounterIsHeldPlusDrift, At, HoldsSlot
<1>3. QED
  BY <1>1, <1>2 DEF Next

(***************************************************************************)
(* In every environment the counter is the number of slots held plus the   *)
(* drift: the pairing of Add(1) and Add(-1) over Subscribe, Event and      *)
(* attemptReconnect is exact but for the four steps that move the drift,   *)
(* for every number of goroutines and channels.                            *)
(***************************************************************************)
THEOREM DriftAccountsForAll == Spec => []CounterIsHeldPlusDrift
  BY InitDrift, NextDrift, TypeCorrect, PTL DEF Spec

-----------------------------------------------------------------------------
(* The well-behaved environment *)

WellBehaved == Environment \subseteq {"clientClose"}

(***************************************************************************)
(* CounterTracksStreams is not inductive: it must be known where an open   *)
(* stream can be, that a stream in its first RecvMsg is open unless the    *)
(* client is closed, which positions belong to attemptReconnect, that no   *)
(* Event ctx is ever done, and that nothing moves the drift.               *)
(***************************************************************************)
Shape ==
    /\ \A s \in Subs : ~ctxDone[s]
    /\ \A s \in Subs : stream[s] = "open" =>
                         pc[s] \in {"first", "ready", "event", "recv"}
    /\ \A s \in Subs : pc[s] = "first" /\ numStreamChannels # 0 => stream[s] = "open"
    /\ \A s \in Subs : reconnecting[s] => pc[s] \in {"backoff", "check", "add", "open"}
    /\ numStreamChannels # 0 =>
         /\ \A c \in Channels : orphans[c] = 0
         /\ \A s \in Subs : pc[s] # "crashed"
         /\ drift = 0

WellBehavedInv == TypeOK /\ Shape /\ CounterIsHeldPlusDrift

LEMMA InitWellBehaved == Init => WellBehavedInv
  BY InitTypeOK, InitDrift DEF Init, WellBehavedInv, Shape

LEMMA ClientStepShape ==
  ASSUME WellBehaved, NEW s \in Subs, TypeOK, Shape, ClientStep(s)
  PROVE  Shape'
<1> USE DEF TypeOK, Shape
<1>1. CASE CheckNumConcurrentStreams(s)
  BY <1>1 DEF CheckNumConcurrentStreams
<1>2. CASE AddStream(s)
  BY <1>2 DEF AddStream
<1>3. CASE AddStreamPanics(s)
  BY <1>3 DEF AddStreamPanics
<1>4. CASE OpenStream(s)
  BY <1>4 DEF OpenStream
<1>5. CASE OpenFails(s)
  BY <1>5 DEF OpenFails
<1>6. CASE FirstHeartbeat(s)
  BY <1>6 DEF FirstHeartbeat
<1>7. CASE FirstRecvFails(s)
  BY <1>7 DEF FirstRecvFails, WellBehaved
<1>8. CASE FirstIsNotHeartbeat(s)
  BY <1>8 DEF FirstIsNotHeartbeat, WellBehaved
<1>9. CASE EventEnds(s)
  BY <1>9 DEF EventEnds, ContextIsDone
<1>10. CASE EventReceives(s)
  BY <1>10 DEF EventReceives
<1>11. CASE RecvMessage(s)
  BY <1>11 DEF RecvMessage
<1>12. CASE RecvFailsAndEnds(s)
  BY <1>12 DEF RecvFailsAndEnds
<1>13. CASE Disconnected(s)
  BY <1>13 DEF Disconnected
<1>14. CASE Reconnect(s)
  BY <1>14 DEF Reconnect
<1>15. QED
  BY <1>1, <1>2, <1>3, <1>4, <1>5, <1>6, <1>7, <1>8, <1>9, <1>10, <1>11,
     <1>12, <1>13, <1>14 DEF ClientStep

LEMMA OutsideStepShape ==
  ASSUME WellBehaved, NEW s \in Subs, TypeOK, Shape, OutsideStep(s)
  PROVE  Shape'
<1> USE DEF TypeOK, Shape, WellBehaved
<1>1. CASE Subscribe(s)
  BY <1>1 DEF Subscribe
<1>2. CASE EventCall(s)
  BY <1>2 DEF EventCall
<1>3. CASE Close(s)
  BY <1>3 DEF Close, CancelStream, HoldsSubscription, InEvent
<1>4. CASE CancelParentCtx(s)
  BY <1>4 DEF CancelParentCtx, CancelStream, HoldsSubscription, InEvent
<1>5. CASE CancelEventCtx(s)
  BY <1>5 DEF CancelEventCtx
<1>6. CASE Forget(s)
  BY <1>6 DEF Forget
<1>7. CASE StreamBreaks(s)
  BY <1>7 DEF StreamBreaks
<1>8. QED
  BY <1>1, <1>2, <1>3, <1>4, <1>5, <1>6, <1>7 DEF OutsideStep

LEMMA NextWellBehaved ==
  ASSUME WellBehaved
  PROVE  WellBehavedInv /\ [Next]_vars => WellBehavedInv'
<1> SUFFICES ASSUME TypeOK, Shape, CounterIsHeldPlusDrift, [Next]_vars
             PROVE  TypeOK' /\ Shape' /\ CounterIsHeldPlusDrift'
  BY DEF WellBehavedInv
<1>1. TypeOK' /\ CounterIsHeldPlusDrift'
  BY NextTypeOK, NextDrift
<1>2. ASSUME NEW s \in Subs, ClientStep(s) \/ OutsideStep(s)
      PROVE  Shape'
  BY <1>2, ClientStepShape, OutsideStepShape
<1>3. CASE ClientClose
  <2>1. /\ numStreamChannels' = 0
        /\ ctxDone' = ctxDone /\ pc' = pc /\ reconnecting' = reconnecting
        /\ \A s \in Subs : stream'[s] # "open"
    BY <1>3 DEF ClientClose, TypeOK
  <2>2. Shape'
    BY <2>1 DEF Shape, TypeOK
  <2>3. QED
    BY <1>1, <2>2
<1>4. CASE UNCHANGED vars
  <2>1. /\ numStreamChannels' = numStreamChannels
        /\ ctxDone' = ctxDone /\ pc' = pc /\ reconnecting' = reconnecting
        /\ stream' = stream /\ orphans' = orphans /\ drift' = drift
    BY <1>4 DEF vars
  <2>2. Shape'
    BY <2>1 DEF Shape, TypeOK
  <2>3. QED
    BY <1>1, <2>2
<1>5. QED
  BY <1>1, <1>2, <1>3, <1>4 DEF Next

LEMMA WellBehavedTracks == WellBehavedInv => CounterTracksStreams
<1> SUFFICES ASSUME TypeOK, Shape, CounterIsHeldPlusDrift, numStreamChannels # 0
             PROVE  /\ numGrpcStreams = Cardinality({s \in Subs : HoldsSlot(s)})
                    /\ \A s \in OpenStreams : HoldsSlot(s)
                    /\ \A c \in Channels : orphans[c] = 0
  BY DEF WellBehavedInv, CounterTracksStreams
<1>1. At("crashed") = {} /\ drift = 0
  BY DEF Shape, At
<1>2. Cardinality({s \in Subs : HoldsSlot(s)}) \in Nat
  BY FiniteSubsets
<1>3. numGrpcStreams = Cardinality({s \in Subs : HoldsSlot(s)})
  BY <1>1, <1>2 DEF CounterIsHeldPlusDrift
<1>4. QED
  BY <1>3 DEF Shape, OpenStreams, HoldsSlot

(***************************************************************************)
(* With no other trouble than lost streams, failed attempts to open one,   *)
(* Close at any moment and a client Close, the counter equals the number   *)
(* of slots held until the client is closed, and every open stream is      *)
(* counted: the pairing of Add(1) and Add(-1) over Subscribe, Event and    *)
(* attemptReconnect is exact for every number of goroutines.               *)
(***************************************************************************)
THEOREM CounterIsExact ==
  ASSUME WellBehaved
  PROVE  Spec => []CounterTracksStreams
<1>1. Init => WellBehavedInv
  BY InitWellBehaved
<1>2. WellBehavedInv /\ [Next]_vars => WellBehavedInv'
  BY NextWellBehaved
<1>3. QED
  BY <1>1, <1>2, WellBehavedTracks, PTL DEF Spec
=============================================================================
