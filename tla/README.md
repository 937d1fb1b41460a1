# Verification of the Momento Go SDK

TLA+ models of the Momento client SDK for Go (`src/`), TLC configurations that
check them on small instances, and TLAPS proofs of their main properties for all
instances. The SDK is mostly wrappers around gRPC calls. Two kinds of mistakes
hide in it: in the places where goroutines, streams, retries and other clients
meet, and in the dozens of nearly equal operations, each with its own
checks, message and reading of the reply. There are modules for both.

## 1. Inventory

### Parts of the system and the state they keep

| Part | Source | State | Operations |
|---|---|---|---|
| Topic client | `momento/topic_client.go`, `momento/pubsub_client.go` | atomic `numGrpcStreams`, `numStreamChannels`, `streamTopicManagerCount`, the gRPC managers | `Subscribe`, `Publish`, `Close`, `topicSubscribe` |
| Topic subscription | `momento/topic_subscription.go` | current stream and its context, last known sequence number and page | `Event`, `Item`, `attemptReconnect`, `Close` |
| Batch utilities | `batchutils/*` | per call: key channel, result channel, workers | `BatchGet`, `BatchSet`, `BatchDelete`, `BatchSetIfNotExists` |
| Retry | `internal/retry/*`, `internal/interceptor/retry_interceptor.go` | per call: the attempt counter | the interceptor's loop, `DetermineWhenToRetry`, `IsEligibleForRetry` |
| Cache client | `momento/cache_client.go`, `momento/scs_data_client.go`, `internal/grpcmanagers/*` | data, control and ping clients, the process-wide round-robin counter | construction with eager connections, routing, `Close` |
| Requests | `momento/requester.go`, one file per operation in `momento/` | gRPC request and response, kept in the caller's request object | validate, build, call, interpret |
| Storage, leaderboard, auth, token clients | `momento/storage_*.go`, `momento/leaderboard*.go`, `momento/*auth_client.go`, `momento/token_client.go` | connections | one remote call per operation |
| Errors, headers, TTL, expiry | `internal/momentoerrors`, `internal/metadata.go`, `utils/*` | the "first-time headers" flags | pure functions, one shared flag |
| Configuration, responses, credentials | `config`, `responses`, `auth` | immutable records | constructors |

### How they interact

An application's goroutines call a client. A unary request goes through
`makeRequest` (timeout context, metadata), the unary retry interceptor and gRPC
to the service. A batch operation starts workers that send such requests and
talks to them over two channels and a wait group. `Subscribe` and the reconnect
loop of `Event` share `topicSubscribe`, and with it the counter
of streams and the round robin over the stream channels, with all other
goroutines. `Close` of a subscription or of the client may come from any goroutine at
any time. Two things are outside: the service, and other clients of the same cache.

### What is hard, and what correct means

* **Stream accounting.** gRPC queues the 101st stream of a connection without an
  error, so the SDK counts streams and refuses requests past the limit. The
  count must be exact on all paths through `Subscribe`, `Event`, reconnection and
  `Close`; the check and the increment are separate steps; the round robin
  must agree with the limit.
* **Subscription life cycle.** A lost stream must be replaced, a closed
  subscription must stay closed, an `Event` call must end when its context does.
* **Delivery.** Resumption is inclusive, messages expire, topics are reset. Items
  must come in order, and anything missing must be announced.
* **Worker pools.** Keys and termination signals go through one bounded channel.
  No key may be lost or requested twice, and the call must return.
* **Check then act.** `BatchSetIfNotExists` is two requests while others write.
* **Retries.** A failed attempt may have been executed, or be executed later.
  Only methods for which that cannot be noticed may be retried.
* **Requests.** Each operation has its own checks, message and reading of the
  reply. What is sent must be what was asked, what is returned must be what the
  service said. Request objects keep what earlier calls wrote into them, and the first-time
  headers are a process-wide record read and written in two steps.
* **Arithmetic and errors.** TTLs are cut to milliseconds and cast to unsigned numbers, token
  lifetimes to unsigned seconds; errors are converted, some twice, and compared with codes.
* **Permissions.** Two translations turn scopes into what a key or token may do.
* **Client life cycle.** Constructors open several connections and may fail in the middle,
  wait for some of them to come up, and share counters with other clients of the process.
  Close must be told what was opened.

`PROJECT.json` lists each hazard at its line with the properties that cover it.

## 2. Modules

| Module | Models | Composed with |
|---|---|---|
| `TopicStreams` | stream accounting and the life cycle of subscriptions | |
| `TopicDelivery` | delivery of items to one subscription | implements `TopicOrder` |
| `TopicOrder` | abstract: the order of the items a subscription returns | |
| `BatchWorkers` | the worker pool of `BatchGet`, `BatchSet`, `BatchDelete` | implements `BatchOperation` |
| `BatchOperation` | abstract: every key settles once, then the call returns what settled | |
| `SetIfNotExists` | `BatchSetIfNotExists` among other clients, with `BatchSet` reduced to what `BatchOperation` promises | |
| `UnaryRetry` | one call through the retry interceptor, the strategies and the method table | |
| `Requests` | one call of any operation: default cache, checks, headers, deadline, reply or error | extends `CacheOperations`; implements `FirstTimeHeaders` |
| `CacheOperations` | what each of the 78 operations checks, sends, can be answered and makes of it; TTLs, errors | extends `Protocol`, `PermissionScopes` |
| `Protocol` | the messages of the service the client writes and reads | |
| `PermissionScopes` | the two translations of scopes, and what the result allows | |
| `FirstTimeHeaders` | abstract: a service is told once who calls | |
| `Connections` | constructors, eager connecting, the spreading of calls, `Close`, of all kinds of clients | implements `ClientLife` |
| `ClientLife` | abstract: a closed client holds no connection | |
| `*Proofs` | theorems about the module they are named after; `OperationsProofs` is about `CacheOperations` and `PermissionScopes` | `RequestsProofs` extends `OperationsProofs` |
| `MCTopicStreams`, `MCBatchWorkers`, `MCRequests`, `MCConnections` | definitions the configurations need (symmetry, arguments, settings) | |

Operators named `...Mutant` stand before the definition they are a faulty
version of. Nothing uses them: `PROJECT.json` says which property fails when one
takes the place of the definition, so that each property is known to depend on
the code.

### TopicStreams

Each element of `Subs` is an application goroutine: it subscribes, calls `Event`
repeatedly, and may drop the subscription and start over. `pc` is its place in
the code; a step ends wherever another goroutine could see the difference:

| Code | Actions |
|---|---|
| `topicSubscribe`: the check / `Add(1)` and round robin / `StreamClient.Subscribe` | `CheckNumConcurrentStreams` / `AddStream`, `AddStreamPanics` / `OpenStream`, `OpenFails` |
| `Subscribe`: first `RecvMsg` | `FirstHeartbeat`, `FirstRecvFails`, `FirstIsNotHeartbeat` |
| `Event`: contexts, `RecvMsg` | `EventCall`, `EventEnds`, `EventReceives`, `RecvMessage`, `RecvFailsAndEnds`, `Disconnected` |
| `attemptReconnect` | `Disconnected` to `Reconnect`, then `topicSubscribe` with `reconnecting` set |
| `topicSubscription.Close`, `pubSubClient.close` | `Close`, `ClientClose` |

Contexts appear as the facts that the code asks for: `ctxDone` for the `Event`
call's, `stream = "cancelled"` for the stream's own, and `parentIsEvent`, since a
reconnected stream derives from the `Event` call that was running. A channel
carries at most `PerChannel` streams and `OpenStream` waits for room, as gRPC
does; `orphans` are streams that are open with nobody holding them. `Environment`
switches on what goes beyond the well-behaved case.

### TopicDelivery and TopicOrder

`TopicDelivery` is one subscription over a service that behaves as the comments of
`internal/protos/cachepubsub.proto` say: messages are numbered within a page, expire, and
start over on a new page when the topic is reset; a request names a position, and one that is
gone is replaced by the oldest, after a discontinuity. Two positions are not exact: 0 is the latest message, and from 1
the service replays "some messages leading up to whatever the newest message is", so `OpenAt` begins anywhere on the page, unannounced.
`EventItem`, `EventUnknownValue`, `EventDiscontinuity` and `Reconnect`
are the client's; `Remember` is the assignment of the last known position, which only
items make. `start` (history) is where the first item is to come from: `Beginning` of the request, and of a
reconnect's where the subscription no longer asks for that place (`StartAgain`). `TopicOrder` says what the application may rely on; the refinement
mapping is the identity on `returned`, `gapTold`, `resumed`. What position 1 leaves open is its action `FromTheFirst`.

### BatchWorkers and BatchOperation

The key channel is first in, first out and fed in a fixed order, so
two counters (`sent`, `taken`) describe it: the k-th message is the k-th key, or
a nil once k passes the number of keys. The result channel is `Results \ collected`.
The three functions differ in the capacity of the key channel and in what they
return (`IsDelete`). A nil key (`Nil`) is not told apart from the
caller's nils, and a key of type `Bytes` (`Unhashable`) cannot index the result
map. The refinement mapping to `BatchOperation` is the identity on `outcome` and
`returned`.

### SetIfNotExists

`KeysExist`, the check, and one Set per item in any order, each of which may fail
before or after it was executed; between any two steps another client
sets (`OthersSet`) or removes a key. `written` and `newcomers` record what
happened in the service.

### UnaryRetry

One call of any method of the table in `eligibility_strategy.go` (44), or
of three it does not list. An invocation is sent, and may be executed now, after
the sender gave up, or never; a failure reported to the interceptor says nothing of
which. Methods are grouped by what an execution does to an item (`Effect`) and
answers (`Answer`), so that a second execution shows. `attempt`, `Retry`, `GiveUp` and
`DetermineWhenToRetry` are the interceptor's loop and the strategy.

### Protocol, PermissionScopes, CacheOperations and Requests

`CacheOperations` is a table. A row says, for one operation, which prepare and
validate functions it calls (`prepare`), which fields its request message has (`request`, from
`Protocol`) and which its literal sets (`sets`), which alternatives a reply has and with
which fields (`replies`), what `interpretGrpcResponse` makes of each and which fields it
passes on (`interpret`), and which error codes it turns into answers or other errors
(`onError`, `errorAs`). The operations whose files differ in a line share a row's maker
(`ListPush`, `ComparingRow`, ...). `Refuses`, `Panics` and `Message` run
the checks of a row on the arguments and build the message.

`Requests` runs a row. `Call` uses a new request object, `CallAgain` the last one, perhaps on another client;
before that, the application may have given the keys of a `GetBatch` object other values (`Rewritten`; what is kept
of the others is only their cache, so that a rewritten one is as good as a new one that names that cache). An object remembers the
clients it was used on (`used`, history), as the first default cache among them is the one it keeps. `ArgumentsAssumption`
is what Go's types guarantee of an argument (`LegalArguments`), which the theorems rely on: a lifetime is a `Duration`, whose milliseconds
fit an unsigned number, a scope holds permissions of the types its field admits, and the constructor refuses a default TTL of zero.

| Code | Actions |
|---|---|
| the client's method, `getCacheNameForRequest`, `initGrpcRequest` | `Call`, `CallAgain` (through `Begin`) |
| `CreateMetadata`: `Load` / `Store` of the flag | `LoadFlag` / `StoreFlag` |
| `permissionsFromTokenScope` refuses, after `CreateMetadata` | `ScopeRefused` |
| a permission's nil topic selector is dereferenced, after `CreateMetadata` (`PanicsLate`) | `ScopePanics` |
| `makeGrpcRequest` and `interpretGrpcResponse` | `Answered` |
| `ConvertSvcErr` and what the client makes of it | `Failed`, `DeadlineExceeded` |

The order of a row's checks is not modelled, as all of them end in the same error. Data is what
the checks tell apart: an empty, a nil or a good key; a blank, an empty or a good name; a time in half
milliseconds. Unsigned numbers wrap at `Modulus`.
The service is truthful about the conditions it was sent (`CanReply`), and
otherwise answers with any alternative.

### Connections and ClientLife

`Plan` is the order in which a constructor opens connections; `Make` opens the
next, `CannotMake` is an error of `grpc.NewClient`, and a refused setting fails where the code looks at it.
`CheckConnection`, `StateChanged`, `WaitExpires` and `Expire` are `DataGrpcManager.Connect`
with its context, beside a gRPC connection that changes state by
itself (`LinkChanges`). `Call` takes a channel by `Pick`, from a counter
that cache clients (and storage clients) share, and `Close` closes what `Closing` says.
`open` is what is left open, `picks` and `drawn` (history) how often a channel was taken and
how many tickets a client drew from its counter. The refinement mapping to `ClientLife` shows the storage and
leaderboard clients only; the others do not keep its promise (`LeaksAreAccounted` says how).

## 3. What is checked

| Run | Shows |
|---|---|
| `TopicStreamsAny` | whatever happens, the race between the check and the increment passes the limit by at most the goroutines less one (`OvershootBounded`), and the counter is the slots held plus a drift that four named mistakes move (`CounterIsHeldPlusDrift`) |
| `TopicStreamsWellBehaved` | in the well-behaved environment the counter is exact and no stream is unaccounted for (`CounterTracksStreams`); a lost stream is replaced unless the client is closed (`ReconnectsEventually`) |
| `TopicDelivery` | `ImplementsTopicOrder`; the first item is from where the stream was asked to begin, which a stream lost before it may change (`BeginsWhereAsked`); the subscription catches up with the topic (`CatchesUp`) |
| `BatchWorkers` | `NoKeyLost`, `NoKeyTwice`, `NeverBlocks`, `ImplementsBatchOperation` |
| `SetIfNotExists` | the result tells what was written (`ResultTellsWrites`); only values set after `KeysExist` answered are ever replaced (`ReplacesOnlyNewcomers`) |
| `UnaryRetry` | retries cannot be noticed (`AsIfExecutedOnce`), are bounded (`InvocationsBounded`), and the call returns (`Returns`) |
| `Requests` | what is sent is well formed and complete (`OnlyWellFormedMessages`), goes to the right cache (`RequestsStayInTheirCache`) with the right lifetime (`TtlArrives`) and permissions (`TokensAllowWhatWasAsked`); what is returned is about this call (`AnswerIsOwn`), tells what the service said (`AnswersTellWhatCame`, `FailuresAreErrors`) and keeps the conditions of its operation (`ConditionsAreKept`); the headers are sent first (`HeadersAreSentFirst`); a call with a deadline returns (`Returns`) |
| `Connections` | what is left open (`LeaksAreAccounted`), that storage and leaderboard clients leave nothing (`TidyClientsKeepThePromise`); eager clients were connected (`EagerClientsWereConnected`) and constructors return (`ConstructorsReturn`); calls are spread (`SpreadUpToOthers`) and cut off by their own client's `Close` only (`CallsAfterClose`) |

Where the code does not do what its name suggests, a property states the exact
account, with the exception the code makes. A change that
adds an exception, or removes one, breaks the property.

The runs that TLC ends with a counterexample each show a disagreement between the code and a
statement in the repository:

| Run | Disagreement |
|---|---|
| `TopicStreamsCloseLost` | "Close closes the subscription stream"; during a reconnect it cancels the previous stream, and the new one stays open |
| `RequestsCreateStore` | that a store exists is an answer of `CreateStore`; when the trailer names the cause the code of the error is another one, and the call fails |
| `RequestsTokenLifetime` | "disposable tokens must expire within 1 hour"; a negative lifetime passes the check and wraps to a long one |
| `RequestsCollectionTtl` | `Of` makes a TTL that "will be refreshed any time the collection is modified"; the request it ends in says no refresh |

Met while modelling and not the subject of a run:

* Topics: `Event` decrements again on an ended subscription; a failed first `RecvMsg`
  leaves its slot taken; both are parts of the drift. `attemptReconnect` never looks at the
  context of its call. The round robin can put a stream on a full channel while another has room.
  `close()` during a subscription makes it divide by zero (`AddStreamPanics`). A
  discontinuity's new page is not remembered, nor is the position given to `Subscribe`. A stream lost after
  item number 1 is reopened at 1, the one position the service does not promise to resume at exactly, so that items may be left
  out without a discontinuity (`FromTheFirst`).
* Batches: a nil among the keys blocks `BatchGet`; keys of type `Bytes` panic (`CollectPanics`).
  `BatchSetIfNotExists` does not hand `RequestTimeout` and
  `MaxConcurrentSets` on to `BatchSet`, panics on an empty list (`EmptyBatchPanics`), and
  replaces what other clients set after its check.
* Requests: `Increment` has no collection TTL to refresh; `ListRemoveValue` and `SetRemoveElements`
  succeed where there is no collection; a pop drops the list's length; `GetBatch` keeps
  the keys of earlier calls of its object; `GenerateDisposableToken` loses the code of every error
  by converting it twice; a refused API key scope has used up the first-time headers.
  `ListCaches` and `ListStores` always ask for the first page (`cache_client.go:377`, `storage_client.go:151`), so no other can be had.
  A nil value in `SetBatch` and a nil topic selector in a permission panic, where a nil key or value of most operations is refused.
  `cache_client.go:50` says that `SetIfAbsentOrEqual` sets "if key is present and its value is equal", and `:52` that `SetIfNotEqual` sets "if key is
  present and its value is not equal"; what both send also sets where there is no item, as their names say. `ConditionsAreKept` is about what is sent.
* Clients: `Close` of the cache, topic and auth clients leaves connections open.
* `retry_test.go` lists `Canceled` as retryable in a table whose body checks nothing.

### Bounds and why they are enough

* `TopicStreamsAny`: two goroutines, two channels of one stream. Two are enough for
  each race (check against increment, close against subscribe), and two channels for
  the round robin. `MaxUndercount = 1` bounds how far repeated `Event` calls push the
  counter down; without it the counter has no lower bound. Goroutines are symmetric.
* `TopicStreamsWellBehaved`: as many slots as goroutines, which is what
  `ReconnectsEventually` needs: with fewer, a goroutine can wait for ever for others that
  rightly hold their streams. One channel, as a stream on a full channel waits without end. No symmetry,
  because of liveness. Contention for slots is covered by
  `TopicStreamsAny` and by the theorem `CounterIsExact`.
* `TopicDelivery`: three pages of five messages and three lost streams, so that a reset and an
  expiry fall before, between and after two losses; the second message of each page cannot be decoded.
* `BatchWorkers`: four keys, one of them repeated and one of type `Bytes`, two workers
  and a key channel of two: the caller blocks on the channel, the workers on each other.
* `SetIfNotExists`: every list over three keys, among which the first, a middle and the last may fail.
* `UnaryRetry`: three retries, the default.
* `Requests`: one goroutine makes two calls with one request object, of any operation
  with any argument that one of its checks tells apart (one argument departs from the good
  ones at a time), on either of two clients that differ in default cache and default TTL. Another goroutine pings, which is
  enough for the race on the headers: a third would only repeat it. Two calls are enough for
  what an object keeps. `Modulus = 16`, with `OneHour = 3` and lifetimes up to 7, so that negative numbers wrap
  to large ones and no valid one wraps; `Never = 1000` stands for the number that means "does not expire".
  All statuses and causes are given to the operations that read errors in a way of their own.
* `Connections`: two clients of any kinds, two channels each, one caller with two calls, two
  `Close` calls each: two clients share a counter, and a cache client has a channel that its first
  `Close` leaves and its second may take.

### Fairness

* `TopicStreams`: a goroutine inside the client's code keeps running
  (weak fairness of `ClientStep`; the scheduler, and sleeps that end). A stream that
  can be opened again and again is opened in the end (strong fairness of `OpenStream`;
  the network is not down for ever). Nothing the application does is fair.
* `TopicDelivery`: weak fairness of `Client`: the application keeps calling
  `Event`, and `attemptReconnect` retries for ever. Losses are bounded.
* `BatchWorkers`: weak fairness of the caller and of each worker; a request ends
  since it runs under `context.WithTimeout`.
* `UnaryRetry`: weak fairness of the interceptor; an invocation ends by its deadline.
  That the deadline passes before the attempts are used up is not assumed.
* `Requests`: weak fairness of the client's own steps, and of the deadline where the code
  sets one. The service need not reply.
* `Connections`: weak fairness of the constructors' steps and of the timer. Connections need not come
  up, and an application need not call.
* `SetIfNotExists` states no liveness: it inherits the pool's.

Deadlock is not checked where the system may stop: a call that has returned, a
topic whose messages and losses are used up, a client that was closed or whose process panicked.
`Requests` and `Connections` say where they may stop (`Terminating`), and deadlock is checked.

## 4. What is proved

For every value of the constants that satisfies the modules' named assumptions:

| Theorem | Statement |
|---|---|
| `TopicStreamsProofs!TypeCorrect` | `Spec => []TypeOK` |
| `TopicStreamsProofs!Overshoot` | `Spec => []OvershootBounded`, in every environment |
| `TopicStreamsProofs!DriftAccountsForAll` | `Spec => []CounterIsHeldPlusDrift`, in every environment |
| `TopicStreamsProofs!CounterIsExact` | `Spec => []CounterTracksStreams` in an environment with at most `clientClose` |
| `BatchWorkersProofs!TypeCorrect`, `WaitLosesNoKey`, `KeysRequestedOnce` | `TypeOK`, `NoKeyLost`, `NoKeyTwice`, for lists without a nil |
| `BatchWorkersProofs!PoolImplementsBatch` | `Spec => Batch!Spec`, for lists without a nil |
| `SetIfNotExistsProofs!TypeCorrect`, `ResultIsTruthful`, `NewcomersOnly` | `TypeOK`, `ResultTellsWrites`, `ReplacesOnlyNewcomers`, with any other clients |
| `SetIfNotExistsProofs!AloneOnlyIfNoneExist` | the comment's promise holds for a client that has the keys to itself |
| `UnaryRetryProofs!TypeCorrect`, `RetriesAreInvisible`, `AttemptsAreBounded` | `TypeOK`, `AsIfExecutedOnce`, `InvocationsBounded`, for any number of attempts and both strategies |
| `TopicDeliveryProofs!TypeCorrect`, `BeginsAsAsked` | `TypeOK`, `BeginsWhereAsked`, for any number of messages, pages and losses |
| `TopicDeliveryProofs!DeliveryImplementsOrder` | `Spec => Order!Spec`; `PositionsAgree` is its inductive invariant |
| `OperationsProofs!ScopeKeepsRights` | a translation that does not panic grants the rights of the permissions it takes up, whatever they are |
| `RequestsProofs!HeadersImplemented` | `Spec => Headers!Spec`, for any goroutines, clients and operations |
| `RequestsProofs!TypeCorrect`, `MessagesAreWellFormed`, `LifetimesArrive`, `AnswersAreOwn`, `AnswersTell`, `RequestsStay`, `ConditionsKept`, `FailuresReported`, `TokensAsAsked` | `TypeOK`, `OnlyWellFormedMessages`, `TtlArrives`, `AnswerIsOwn`, `AnswersTellWhatCame`, `RequestsStayInTheirCache`, `ConditionsAreKept`, `FailuresAreErrors`, `TokensAllowWhatWasAsked`, for any legal arguments, any number of calls, goroutines and clients |
| `ConnectionsProofs!StaysWithinPlan` | the inductive invariant of the constructors |
| `ConnectionsProofs!TypeCorrect`, `EagerlyConnected`, `LeaksAccounted`, `CallsWhenClosed`, `SpreadEvenly` | `TypeOK`, `EagerClientsWereConnected`, `LeaksAreAccounted`, `CallsAfterClose`, `SpreadUpToOthers`, for any clients, settings, channels and callers |
| `ConnectionsProofs!TidyClients` | `Spec => Life!Spec`, for any clients, settings, channels and callers |

The arguments:

* **Overshoot.** `OvershootBounded` is inductive given `TypeOK`: a check that succeeds finds the
  counter below the limit, and at most all goroutines are then between check and
  increment; `AddStream` moves one goroutine from there into the counter; every other step raises
  neither. Nothing is assumed about the counter's exactness, so leaked slots do not matter.
* **CounterIsExact, DriftAccountsForAll.** The counter equals the cardinality of the goroutines at a place that holds a
  slot, plus the drift. In the well-behaved environment that is not inductive alone: the decrement of
  `RecvFailsAndEnds` needs the goroutine to be counted,
  a stream that is open needs a holder, and a reconnecting goroutine must hold none. The
  invariant adds where each state of `stream` and `reconnecting` can occur.
* **BatchWorkers.** The invariant partitions the keys taken so far into those
  held by a worker and those settled, and counts nils taken as workers that exited. From
  it, when all workers have exited, all nils and hence, by the channel's order, all keys were taken.
  `PoolImplementsBatch` uses it to show that `Return` finds every position settled.
* **SetIfNotExists.** Nothing is written before the check, nothing after one that saw a key, and after a check that
  saw none another client's value under a key of the list is new.
* **UnaryRetry.** A second invocation exists only for a method in the table, and those are the ones
  whose `Effect`, applied to its own result, changes nothing, and whose answer is the same.
* **TopicDelivery.** The item last returned says nothing of where the stream stands, so `ImplementsTopicOrder` is not inductive.
  `Remembers` ties the item to the position remembered (equal, or ahead of it only by items that could not be decoded, or
  on another page after a gap was told), and `StreamInOrder` ties it to the position of the stream: next in order, later after an announced gap, or the item
  itself after a reconnect, which resumes inclusively, or anything later on the page when that item had number 1. `StreamAsAsked` says the
  same of `start` while no item has come: the stream stands at it or past what cannot be decoded, or a gap was told or is about to be.
* **Requests.** One invariant (`CallsInv`) says of each call under way how its message came from its arguments by the row of its operation, and of
  each result how it came from the message and the reply. Each property follows from it and a few facts that hold of every row
  (`Checks`, `Reads` and their like in `OperationsProofs`, proved by going through the table): which checks guard which fields, which
  condition is asked with, which fields of a reply are dropped, which statuses an error code stands for (`CodeFitsStatus`). `PanicInv` ties a panic to
  the nils of its arguments. Then nothing is left of the table but those facts, and arguments, TTLs and scopes may be any.
  For `RequestsStayInTheirCache`, the name in an object that was given none is the first default among the clients it was used on.
* **HeadersImplemented.** The flag of a service is set only when someone has taken the headers on, and a goroutine
  that has done so, and is again between load and store, does not exist: it would
  have found the flag set. So `LoadFlag` that finds it set is `GoBare`, and `StoreFlag` is `Introduce` by a goroutine that is new.
* **TidyClients.** A constructor holds only connections of its plan, made in order, and waits only in the last one
  (`WithinPlan`). All a storage or leaderboard client holds is covered by what its `Close` closes
  (`Covered`), so after it nothing is left; each other step is `Start`, `Open`, `Return`, `GiveUp` or a stutter.
* **Connections.** Everything rests on the fact that a plan holds every channel of every pool of its client's kind, exactly once (`PlanIsWhole`).
  From there: `Standing` says that a constructor has opened its plan up to `made`, and connected all of that which its
  client asked to connect, so `EagerlyConnected` reads off the end of the plan. `Closed` gives the connections left after `n` calls of
  `Close`, which for a cache client takes away at most one data channel each time; `LeaksAccounted` compares that with the plan.
  `Called` says that a call has a connection of its client and is cut off only after a `Close`. `Sharing` bounds how often a channel was picked from
  below and above by the turns a counter gave it, less those that other clients drew; two channels' turns differ by at most one, which gives `SpreadEvenly`.

Only model-checked is liveness (`ReconnectsEventually`, `CatchesUp`, `NeverBlocks`, `Returns` of `UnaryRetry` and of `Requests`,
`ConstructorsReturn`): it depends on fairness and on `ENABLED`, which are outside what the prover
does. Where a property names an exception, its theorem is about the property with the exception. The runs that end with a counterexample are no theorems.

## 5. Files

`X.tla` is a component, `MCX.tla` its instance for TLC where it needs definitions, `XProofs.tla` its theorems,
and each `.cfg` the run of the same name. For example:

    tlc -config TopicStreamsAny.cfg MCTopicStreams.tla
    tlc -config Requests.cfg MCRequests.tla
    tlapm TopicStreamsProofs.tla

## 6. Not modelled

* Logging, middleware, wording of messages, and the contents of values: no property is about them.
* The stream retry interceptor: no gRPC manager of this version installs it.
* Credential providers: parsing of tokens, without state.
* Dial options, the interceptors that add headers, configuration records, accessors of responses:
  immutable records handed on. Which headers a call carries is modelled only as far as the first-time ones.
* The wire encoding of generated code, the gRPC stubs, the messages of services this client does
  not call (vector index, global administration), and the examples. The comments of
  `cachepubsub.proto` are used as the description of the topic service.
* The order and the limits of leaderboard and sorted set fetches: the service's.
* A negative `MaxConcurrent` in batch requests: it starts no worker, and the call blocks. The
  code changes `MaxConcurrentGets` in the caller's request, which is left out too.
* Two goroutines that use one request object at the same time: its fields are not synchronised, and that is the
  application's mistake.
* The order of the Sets of several callers on one item in `UnaryRetry`: the service promises none.
* The topic client's separate numbers of stream and unary channels: `Connections` gives both pools one number, as no
  property compares them.
* Real time: a sleep or a timeout is a step that may come at any moment.

## 7. What is left

1. As theorems, with the liveness properties left to TLC: what can be said of a step that makes progress (that the measure a liveness property
   relies on never goes back), for `UnaryRetry` and the constructors of `Connections`.
2. `WaitLosesNoKey` and its like for lists that hold a nil, with the blocking that follows as the exception.
3. Two callers of one item in `UnaryRetry`, with a service that orders them.
