---------------------------- MODULE TopicStreams ----------------------------
(***************************************************************************)
(* Stream accounting and subscription life cycle of the topic client:      *)
(* momento/pubsub_client.go, momento/topic_client.go (Subscribe, Close)    *)
(* and momento/topic_subscription.go (Event, attemptReconnect, Close).     *)
(*                                                                         *)
(* Each element of Subs is one application goroutine: it calls Subscribe,  *)
(* then Event again and again on the subscription it got.  Close may come  *)
(* from any other goroutine at any moment.  All of them share one          *)
(* pubSubClient, whose counter numGrpcStreams is atomic but is checked and *)
(* incremented in two separate steps.                                      *)
(***************************************************************************)
EXTENDS Integers, FiniteSets

CONSTANTS
    Subs,          \* subscriber goroutines
    NumChannels,   \* stream gRPC channels the client is configured with
    PerChannel,    \* streams one channel can multiplex (100 in the code)
    Environment,   \* which of the EnvEvents below may happen
    MaxUndercount  \* BOUND: Event is not called again on an ended
                   \* subscription once numGrpcStreams is below -MaxUndercount

(***************************************************************************)
(* What the application, the service or the network may do beyond the      *)
(* well-behaved case:                                                      *)
(*   firstRecvFails  the first RecvMsg of a new stream fails, or yields    *)
(*                   something that is not a heartbeat                     *)
(*   eventAfterEnd   Event is called again after it returned an error      *)
(*   eventCtxDone    the ctx of an Event call is cancelled or times out    *)
(*   abandon         a subscription is dropped without a last Event call   *)
(*   clientClose     TopicClient.Close runs while subscriptions are live   *)
(***************************************************************************)
EnvEvents ==
    {"firstRecvFails", "eventAfterEnd", "eventCtxDone", "abandon", "clientClose"}

ASSUME SubsAssumption == IsFiniteSet(Subs) /\ Subs # {}
ASSUME ChannelsAssumption == NumChannels \in Nat \ {0} /\ PerChannel \in Nat \ {0}
ASSUME EnvironmentAssumption == Environment \subseteq EnvEvents /\ MaxUndercount \in Nat

VARIABLES
    numGrpcStreams,     \* the client's atomic Int64 counter
    numStreamChannels,  \* NumChannels until close() sets it to 0
    nextManager,        \* streamTopicManagerCount, modulo NumChannels
    pc,                 \* where each goroutine is
    reconnecting,       \* topicSubscribe was called by attemptReconnect
    stream,             \* the subscription's current grpcClient stream
    chan,               \* the channel that stream was opened on
    parentIsEvent,      \* the stream's context derives from an Event ctx
    ctxDone,            \* the ctx of the current Event call is done
    closed,             \* the application called Close on the subscription
    orphans,            \* open streams on a channel that nobody holds
    drift               \* history: slots leaked minus slots given back twice

vars == <<numGrpcStreams, numStreamChannels, nextManager, pc, reconnecting,
          stream, chan, parentIsEvent, ctxDone, closed, orphans, drift>>

client == <<numStreamChannels, nextManager>>

Channels == 0 .. NumChannels - 1

\* The limit of concurrent streams while the client is not closed.
StreamLimit == NumChannels * PerChannel

(***************************************************************************)
(* Positions of a goroutine.                                               *)
(*   idle     holds no subscription                                        *)
(*   check    about to run checkNumConcurrentStreams                       *)
(*   add      passed it, numGrpcStreams.Add(1) not yet executed            *)
(*   open     counted; inside StreamClient.Subscribe                       *)
(*   first    in Subscribe's first RecvMsg                                 *)
(*   ready    holds a subscription, not inside Event                       *)
(*   event    at the top of Event's loop                                   *)
(*   recv     in Event's RecvMsg                                           *)
(*   backoff  in attemptReconnect's sleep                                  *)
(*   ended    Event returned an error                                      *)
(*   crashed  a goroutine panicked and the process is gone                 *)
(***************************************************************************)
Positions == {"idle", "check", "add", "open", "first", "ready", "event", "recv",
              "backoff", "ended", "crashed"}

TypeOK ==
    /\ numGrpcStreams \in Int
    /\ numStreamChannels \in {0, NumChannels}
    /\ nextManager \in Channels
    /\ pc \in [Subs -> Positions]
    /\ reconnecting \in [Subs -> BOOLEAN]
    /\ stream \in [Subs -> {"none", "open", "broken", "cancelled"}]
    /\ chan \in [Subs -> Channels]
    /\ parentIsEvent \in [Subs -> BOOLEAN]
    /\ ctxDone \in [Subs -> BOOLEAN]
    /\ closed \in [Subs -> BOOLEAN]
    /\ orphans \in [Channels -> Nat]
    /\ drift \in Int

Init ==
    /\ numGrpcStreams = 0
    /\ numStreamChannels = NumChannels
    /\ nextManager = 0
    /\ pc = [s \in Subs |-> "idle"]
    /\ reconnecting = [s \in Subs |-> FALSE]
    /\ stream = [s \in Subs |-> "none"]
    /\ chan = [s \in Subs |-> 0]
    /\ parentIsEvent = [s \in Subs |-> FALSE]
    /\ ctxDone = [s \in Subs |-> FALSE]
    /\ closed = [s \in Subs |-> FALSE]
    /\ orphans = [c \in Channels |-> 0]
    /\ drift = 0

-----------------------------------------------------------------------------
(* Who holds what *)

At(position) == {s \in Subs : pc[s] = position}

OpenStreams == {s \in Subs : stream[s] = "open"}

\* Streams the transport carries on channel c.
OpenOn(c) == orphans[c] + Cardinality({s \in OpenStreams : chan[s] = c})

\* The goroutine is inside Event, attemptReconnect included.
InEvent(s) == pc[s] \in {"event", "recv", "backoff"} \/ reconnecting[s]

HoldsSubscription(s) == pc[s] \in {"ready", "ended"} \/ InEvent(s)

GoTo(s, position) == pc' = [pc EXCEPT ![s] = position]

-----------------------------------------------------------------------------
(* topicSubscribe, called by Subscribe and by attemptReconnect *)

\* The application calls TopicClient.Subscribe (names already validated).
Subscribe(s) ==
    /\ pc[s] = "idle"
    /\ GoTo(s, "check")
    /\ UNCHANGED <<numGrpcStreams, client, reconnecting, stream, chan,
                   parentIsEvent, ctxDone, closed, orphans, drift>>

\* A check that admits one request too many.
AtStreamLimitMutant == numGrpcStreams > numStreamChannels * PerChannel

\* checkNumConcurrentStreams' condition, computed when it is called.
AtStreamLimit == numGrpcStreams >= numStreamChannels * PerChannel

\* checkNumConcurrentStreams: a refused Subscribe returns the error, a refused
\* attemptReconnect sleeps and tries again.
CheckNumConcurrentStreams(s) ==
    /\ pc[s] = "check"
    /\ GoTo(s, IF ~AtStreamLimit THEN "add"
               ELSE IF reconnecting[s] THEN "backoff" ELSE "idle")
    /\ UNCHANGED <<numGrpcStreams, client, reconnecting, stream, chan,
                   parentIsEvent, ctxDone, closed, orphans, drift>>

\* The round robin without its modulo.
NextManagerMutant == nextManager + 1

\* getNextStreamTopicManager: the round robin over the stream channels.
NextManager == (nextManager + 1) % NumChannels

\* numGrpcStreams.Add(1), then the manager is chosen.
AddStream(s) ==
    /\ pc[s] = "add"
    /\ numStreamChannels # 0
    /\ numGrpcStreams' = numGrpcStreams + 1
    /\ nextManager' = NextManager
    /\ chan' = [chan EXCEPT ![s] = NextManager]
    /\ GoTo(s, "open")
    /\ UNCHANGED <<numStreamChannels, reconnecting, stream, parentIsEvent,
                   ctxDone, closed, orphans, drift>>

\* The same after close(): the index is taken modulo numStreamChannels, which
\* is 0, and the integer division panics.  No goroutine of the process survives.
AddStreamPanics(s) ==
    /\ pc[s] = "add"
    /\ numStreamChannels = 0
    /\ numGrpcStreams' = numGrpcStreams + 1
    /\ pc' = [t \in Subs |-> "crashed"]
    /\ stream' = [t \in Subs |-> "none"]
    /\ reconnecting' = [t \in Subs |-> FALSE]
    /\ UNCHANGED <<client, chan, parentIsEvent, ctxDone, closed, orphans, drift>>

\* StreamClient.Subscribe yields a stream.  A channel with PerChannel streams
\* makes it wait, a context that is already done makes it fail.  Subscribe goes
\* on to the first RecvMsg; attemptReconnect installs the new stream.
OpenStream(s) ==
    /\ pc[s] = "open"
    /\ numStreamChannels # 0
    /\ OpenOn(chan[s]) < PerChannel
    /\ ~(reconnecting[s] /\ ctxDone[s])
    /\ stream' = [stream EXCEPT ![s] = "open"]
    /\ parentIsEvent' = [parentIsEvent EXCEPT ![s] = reconnecting[s]]
    /\ reconnecting' = [reconnecting EXCEPT ![s] = FALSE]
    /\ GoTo(s, IF reconnecting[s] THEN "event" ELSE "first")
    /\ UNCHANGED <<numGrpcStreams, client, chan, ctxDone, closed, orphans, drift>>

\* The error path of topicSubscribe without its Add(-1).
OpenFailsMutant(s) ==
    /\ pc[s] = "open"
    /\ GoTo(s, IF reconnecting[s] THEN "backoff" ELSE "idle")
    /\ UNCHANGED <<numGrpcStreams, client, reconnecting, stream, chan,
                   parentIsEvent, ctxDone, closed, orphans, drift>>

\* StreamClient.Subscribe returns an error: the slot is given back.
OpenFails(s) ==
    /\ pc[s] = "open"
    /\ numGrpcStreams' = numGrpcStreams - 1
    /\ GoTo(s, IF reconnecting[s] THEN "backoff" ELSE "idle")
    /\ UNCHANGED <<client, reconnecting, stream, chan, parentIsEvent, ctxDone,
                   closed, orphans, drift>>

-----------------------------------------------------------------------------
(* The rest of Subscribe: the first message of the new stream *)

FirstHeartbeat(s) ==
    /\ pc[s] = "first"
    /\ stream[s] = "open"
    /\ GoTo(s, "ready")
    /\ UNCHANGED <<numGrpcStreams, client, reconnecting, stream, chan,
                   parentIsEvent, ctxDone, closed, orphans, drift>>

\* RecvMsg fails, which ends the stream: ResourceExhausted is retried, any
\* other error is returned.  Neither path touches numGrpcStreams.
FirstRecvFails(s) ==
    /\ pc[s] = "first"
    /\ stream' = [stream EXCEPT ![s] = "none"]
    /\ \E position \in {"check", "idle"} : GoTo(s, position)
    /\ "firstRecvFails" \in Environment \/ stream[s] = "broken"
    /\ drift' = drift + 1
    /\ UNCHANGED <<numGrpcStreams, client, reconnecting, chan, parentIsEvent,
                   ctxDone, closed, orphans>>

\* The first message is not a heartbeat: an error is returned, and the open
\* stream, still counted, is left behind without its cancel function.
FirstIsNotHeartbeat(s) ==
    /\ pc[s] = "first"
    /\ stream[s] = "open"
    /\ "firstRecvFails" \in Environment
    /\ stream' = [stream EXCEPT ![s] = "none"]
    /\ orphans' = [orphans EXCEPT ![chan[s]] = @ + 1]
    /\ drift' = drift + 1
    /\ GoTo(s, "idle")
    /\ UNCHANGED <<numGrpcStreams, client, reconnecting, chan, parentIsEvent,
                   ctxDone, closed>>

-----------------------------------------------------------------------------
(* topicSubscription.Event *)

\* The caller passes a live ctx, or the one it used before.
EventCall(s) ==
    /\ \/ pc[s] = "ready"
       \/ /\ pc[s] = "ended"
          /\ "eventAfterEnd" \in Environment
          /\ numGrpcStreams >= -MaxUndercount
    /\ \E done \in {FALSE, ctxDone[s]} : ctxDone' = [ctxDone EXCEPT ![s] = done]
    /\ drift' = IF pc[s] = "ended" THEN drift - 1 ELSE drift
    /\ GoTo(s, "event")
    /\ UNCHANGED <<numGrpcStreams, client, reconnecting, stream, chan,
                   parentIsEvent, closed, orphans>>

\* Event's two contexts: its own ctx and the stream's cancelContext.
ContextIsDone(s) == ctxDone[s] \/ stream[s] = "cancelled"

\* A done context at the top of the loop: decrement and return its error.
EventEnds(s) ==
    /\ pc[s] = "event"
    /\ ContextIsDone(s)
    /\ numGrpcStreams' = numGrpcStreams - 1
    /\ GoTo(s, "ended")
    /\ UNCHANGED <<client, reconnecting, stream, chan, parentIsEvent, ctxDone,
                   closed, orphans, drift>>

EventReceives(s) ==
    /\ pc[s] = "event"
    /\ ~ContextIsDone(s)
    /\ GoTo(s, "recv")
    /\ UNCHANGED <<numGrpcStreams, client, reconnecting, stream, chan,
                   parentIsEvent, ctxDone, closed, orphans, drift>>

\* RecvMsg yields a message: Event returns it, or loops if it does not know it.
RecvMessage(s) ==
    /\ pc[s] = "recv"
    /\ stream[s] = "open"
    /\ \E position \in {"ready", "event"} : GoTo(s, position)
    /\ UNCHANGED <<numGrpcStreams, client, reconnecting, stream, chan,
                   parentIsEvent, ctxDone, closed, orphans, drift>>

\* RecvMsg fails and a context is done: decrement and return the error.
RecvFailsAndEnds(s) ==
    /\ pc[s] = "recv"
    /\ stream[s] \in {"broken", "cancelled"}
    /\ ContextIsDone(s)
    /\ numGrpcStreams' = numGrpcStreams - 1
    /\ GoTo(s, "ended")
    /\ UNCHANGED <<client, reconnecting, stream, chan, parentIsEvent, ctxDone,
                   closed, orphans, drift>>

\* The disconnect path without its Add(-1).
DisconnectedMutant(s) ==
    /\ pc[s] = "recv"
    /\ stream[s] = "broken"
    /\ ~ContextIsDone(s)
    /\ stream' = [stream EXCEPT ![s] = "cancelled"]
    /\ reconnecting' = [reconnecting EXCEPT ![s] = TRUE]
    /\ GoTo(s, "backoff")
    /\ UNCHANGED <<numGrpcStreams, client, chan, parentIsEvent, ctxDone, closed, orphans, drift>>

\* RecvMsg fails otherwise: cancel the stream, give the slot back, reconnect.
Disconnected(s) ==
    /\ pc[s] = "recv"
    /\ stream[s] = "broken"
    /\ ~ContextIsDone(s)
    /\ stream' = [stream EXCEPT ![s] = "cancelled"]
    /\ numGrpcStreams' = numGrpcStreams - 1
    /\ reconnecting' = [reconnecting EXCEPT ![s] = TRUE]
    /\ GoTo(s, "backoff")
    /\ UNCHANGED <<client, chan, parentIsEvent, ctxDone, closed, orphans, drift>>

\* attemptReconnect wakes up; it looks at no context.
Reconnect(s) ==
    /\ pc[s] = "backoff"
    /\ GoTo(s, "check")
    /\ UNCHANGED <<numGrpcStreams, client, reconnecting, stream, chan,
                   parentIsEvent, ctxDone, closed, orphans, drift>>

-----------------------------------------------------------------------------
(* The application, the contexts, the network *)

CancelStream(s) ==
    stream' = [stream EXCEPT ![s] = IF @ = "none" THEN @ ELSE "cancelled"]

\* topicSubscription.Close: cancelFunction of the current stream.  During
\* attemptReconnect that is the old stream's function, already called.
Close(s) ==
    /\ HoldsSubscription(s)
    /\ CancelStream(s)
    /\ closed' = [closed EXCEPT ![s] = TRUE]
    /\ UNCHANGED <<numGrpcStreams, client, pc, reconnecting, chan,
                   parentIsEvent, ctxDone, orphans, drift>>

\* The ctx the stream was opened with is cancelled from outside.
CancelParentCtx(s) ==
    /\ HoldsSubscription(s)
    /\ parentIsEvent[s] => "eventCtxDone" \in Environment
    /\ CancelStream(s)
    /\ UNCHANGED <<numGrpcStreams, client, pc, reconnecting, chan,
                   parentIsEvent, ctxDone, closed, orphans, drift>>

\* The ctx of the running Event call is cancelled or times out; a stream that
\* attemptReconnect opened under it is cancelled with it.
CancelEventCtx(s) ==
    /\ "eventCtxDone" \in Environment
    /\ InEvent(s)
    /\ ctxDone' = [ctxDone EXCEPT ![s] = TRUE]
    /\ IF parentIsEvent[s] THEN CancelStream(s) ELSE UNCHANGED stream
    /\ UNCHANGED <<numGrpcStreams, client, pc, reconnecting, chan,
                   parentIsEvent, closed, orphans, drift>>

\* The application forgets a subscription; an open stream stays open.
Forget(s) ==
    /\ \/ pc[s] = "ended"
       \/ pc[s] = "ready" /\ "abandon" \in Environment
    /\ orphans' = IF stream[s] = "open"
                  THEN [orphans EXCEPT ![chan[s]] = @ + 1] ELSE orphans
    /\ stream' = [stream EXCEPT ![s] = "none"]
    /\ parentIsEvent' = [parentIsEvent EXCEPT ![s] = FALSE]
    /\ ctxDone' = [ctxDone EXCEPT ![s] = FALSE]
    /\ closed' = [closed EXCEPT ![s] = FALSE]
    /\ drift' = IF pc[s] = "ready" THEN drift + 1 ELSE drift
    /\ GoTo(s, "idle")
    /\ UNCHANGED <<numGrpcStreams, client, reconnecting, chan>>

\* The service or the network ends the stream.
StreamBreaks(s) ==
    /\ stream[s] = "open"
    /\ pc[s] = "first" => "firstRecvFails" \in Environment
    /\ stream' = [stream EXCEPT ![s] = "broken"]
    /\ UNCHANGED <<numGrpcStreams, client, pc, reconnecting, chan,
                   parentIsEvent, ctxDone, closed, orphans, drift>>

\* pubSubClient.close: every stream connection goes away.
ClientClose ==
    /\ "clientClose" \in Environment
    /\ numStreamChannels # 0
    /\ numStreamChannels' = 0
    /\ stream' = [s \in Subs |-> IF stream[s] = "open" THEN "broken" ELSE stream[s]]
    /\ orphans' = [c \in Channels |-> 0]
    /\ UNCHANGED <<numGrpcStreams, nextManager, pc, reconnecting, chan,
                   parentIsEvent, ctxDone, closed, drift>>

-----------------------------------------------------------------------------
(* Steps a goroutine takes on its own once it is in the client's code *)
ClientStep(s) ==
    \/ CheckNumConcurrentStreams(s) \/ AddStream(s) \/ AddStreamPanics(s)
    \/ OpenStream(s) \/ OpenFails(s)
    \/ FirstHeartbeat(s) \/ FirstRecvFails(s) \/ FirstIsNotHeartbeat(s)
    \/ EventEnds(s) \/ EventReceives(s) \/ RecvMessage(s) \/ RecvFailsAndEnds(s)
    \/ Disconnected(s) \/ Reconnect(s)

\* Steps of the application, of its contexts and of the network.
OutsideStep(s) ==
    \/ Subscribe(s) \/ EventCall(s) \/ Close(s) \/ CancelParentCtx(s)
    \/ CancelEventCtx(s) \/ Forget(s) \/ StreamBreaks(s)

Next ==
    \/ \E s \in Subs : ClientStep(s) \/ OutsideStep(s)
    \/ ClientClose

Spec == Init /\ [][Next]_vars

(***************************************************************************)
(* Fairness: the Go scheduler runs a goroutine that can take a step of the *)
(* client's code, so those steps are weakly fair, sleeps included.  The    *)
(* network is not always down: an attempt to open a stream that is         *)
(* possible again and again succeeds once, and an open stream keeps        *)
(* delivering (the service sends heartbeats).  Nothing the application     *)
(* does is fair.                                                           *)
(***************************************************************************)
Fairness ==
    \A s \in Subs :
        /\ WF_vars(ClientStep(s))
        /\ SF_vars(OpenStream(s))

FairSpec == Spec /\ Fairness

-----------------------------------------------------------------------------
(* Properties *)

\* A goroutine between the Add(1) of topicSubscribe and the Add(-1) of Event.
HoldsSlot(s) == pc[s] \in {"open", "first", "ready", "event", "recv"}

(***************************************************************************)
(* The gap between checkNumConcurrentStreams and Add(1) lets several       *)
(* goroutines pass one check, but never more than there are goroutines:    *)
(* whatever the application, the service and the network do, leaked slots  *)
(* included, the counter passes the limit by at most Cardinality(Subs)-1.  *)
(***************************************************************************)
OvershootBounded ==
    numGrpcStreams + Cardinality(At("add"))
        <= StreamLimit + Cardinality(Subs) - 1

(***************************************************************************)
(* Whatever happens, the counter is the number of slots held plus the      *)
(* drift, and only four steps of a whole subscription's life move the      *)
(* drift: a first RecvMsg that fails and a first message that is no        *)
(* heartbeat (both in Subscribe) and a dropped subscription leak a slot;   *)
(* Event called on an ended subscription gives one back that is not held.  *)
(* Every other path pairs its Add(1) and Add(-1), reconnection and Close   *)
(* at any moment included.  (A panic ends the process.)                    *)
(***************************************************************************)
CounterIsHeldPlusDrift ==
    At("crashed") = {} =>
        numGrpcStreams = Cardinality({s \in Subs : HoldsSlot(s)}) + drift

(***************************************************************************)
(* In the well-behaved environment, and until the client is closed, every  *)
(* path through Subscribe, Event, attemptReconnect and Close keeps the     *)
(* counter equal to the number of goroutines that hold a slot, and a       *)
(* stream on the wire always has a holder that is counted.                 *)
(***************************************************************************)
CounterTracksStreams ==
    numStreamChannels # 0 =>
        /\ numGrpcStreams = Cardinality({s \in Subs : HoldsSlot(s)})
        /\ \A s \in OpenStreams : HoldsSlot(s)
        /\ \A c \in Channels : orphans[c] = 0

(***************************************************************************)
(* A subscription that lost its stream gets a new one: attemptReconnect    *)
(* gave its slot away before it asks for another, and still the limit      *)
(* never locks it out while there are no more goroutines than slots (only  *)
(* the closing of the client does).                                        *)
(***************************************************************************)
ReconnectsEventually ==
    \A s \in Subs : reconnecting[s] ~> (~reconnecting[s] \/ numStreamChannels = 0)

\* Interface comment: "Close closes the subscription stream."
CloseIsFinal == \A s \in Subs : closed[s] => stream[s] # "open"

=============================================================================
