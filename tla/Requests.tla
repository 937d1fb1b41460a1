------------------------------ MODULE Requests ------------------------------
(***************************************************************************)
(* A call of a cache, topic, storage, leaderboard or auth client from      *)
(* beginning to end: the application passes a request object, the client   *)
(* writes its default cache into it, prepares the message (or refuses, or  *)
(* panics), takes on the first-time headers or not, sends, and reads the   *)
(* reply or the error.  CacheOperations.tla has the operations.            *)
(*                                                                         *)
(* Several goroutines call.  What they share is the process-wide record of *)
(* the first-time headers, read and written in two steps.  A goroutine may *)
(* use a request object again, also on another client: the object keeps    *)
(* what earlier calls wrote into it.  Two goroutines never use one object  *)
(* at the same time (its fields are not synchronised).                     *)
(***************************************************************************)
EXTENDS CacheOperations

CONSTANTS Callers, Clients,
          Ops,              \* the operations each caller uses
          Arguments,        \* for each operation, the arguments an application gives
          Faults,           \* for each operation, the statuses and causes the service fails with
          DefaultCache,     \* of each client, "" for none
          DefaultTtl,       \* of each client, in half milliseconds
          MaxCalls          \* bound: calls of each caller, all with one request object

ASSUME CallsAssumption ==
    /\ MaxCalls \in [Callers -> Nat]
    /\ \A op \in DOMAIN Operations : Faults[op] \subseteq StatusCodes \X Causes

\* Lifetimes in half milliseconds: the milliseconds of a Go Duration fit a uint64.
Lifetimes == (1 - 2 * Modulus)..(2 * Modulus - 1)

ArgumentTypes ==
    [cache : STRING, name : STRING, item : STRING, items : Seq(STRING), listIsNil : BOOLEAN,
     value : STRING, other : STRING, ttl : Lifetimes, collection : STRING, amount : Int,
     start : Seq(Int), end : Seq(Int), expires : Int,
     scope : [kind : STRING,
              permissions : SUBSET (CachePermission \cup TopicPermission \cup DisposableTokenCachePermission)]]

\* What Go's types leave to an application: the ids of a leaderboard are numbers,
\* two of the functions that make a CollectionTtl take no lifetime, and a scope
\* is of a type that the request's field admits.
LegalArguments(op) == {a \in ArgumentTypes :
    /\ "ids" \in Operations[op].prepare => "nil" \notin ElementsOf(a.items)
    /\ "collectionTtl" \in Operations[op].prepare =>
          (a.collection \in {"FromCacheTtl", "RefreshTtlIfProvided()"} => a.ttl = 0)
    /\ "keyScope" \in Operations[op].prepare => a.scope.kind \in {"none", "SuperUser", "Permissions"}
    /\ "tokenScope" \in Operations[op].prepare =>
          a.scope.kind \in {"none", "Permissions", "DisposableTokenCachePermissions"}}

\* The constructor refuses a default TTL of zero.
ASSUME ArgumentsAssumption ==
    /\ Ops \in [Callers -> SUBSET DOMAIN Operations]
    /\ \A op \in DOMAIN Operations : Arguments[op] \subseteq LegalArguments(op)
    /\ \A k \in Clients : DefaultCache[k] \in STRING /\ DefaultTtl[k] \in Lifetimes \ {0}

Services == {"cache", "ping", "store", "leaderboard", "topic", "auth"}

Nothing == [op |-> "none"]

VARIABLES pc,           \* of each caller: "idle", "load", "store", "await", "panicked"
          object,       \* the request object last used, with what calls left in it
          wire,         \* the message of the call that is under way
          result,       \* what the last call returned
          calls,        \* how many calls were made (history, for the bound)
          headersSent,  \* metadata.go's FirstTimeHeadersSent
          introduced,   \* history: the callers whose call to a service took the headers on
          bare          \* history: whether a call to a service went without

vars == <<pc, object, wire, result, calls, headersSent, introduced, bare>>

row(c) == Operations[object[c].op]

TypeOK ==
    /\ pc \in [Callers -> {"idle", "load", "store", "await", "panicked"}]
    /\ \A c \in Callers :
        /\ object[c] = Nothing \/ object[c].op \in Ops[c]
        /\ wire[c] # Nothing =>
            /\ wire[c].asks \in {""} \cup isXSetIfRequest_Condition \cup isXUpdateTtlRequest_UpdateTtl
            /\ wire[c].ttl \in 0..(Modulus - 1)
        /\ result[c].kind \in {"none", "answer", "error"}
        /\ calls[c] \in 0..MaxCalls[c]
    /\ headersSent \in [Services -> BOOLEAN]
    /\ introduced \in [Services -> SUBSET Callers]
    /\ bare \in [Services -> BOOLEAN]

NoResult == [kind |-> "none"]

\* "reply" is the alternative that was read, "" when an error became the answer.
Answer(what, reply, parts, fault, item) ==
    [kind |-> "answer", what |-> what, reply |-> reply, parts |-> parts, fault |-> fault, item |-> item]

Error(code, fault) == [kind |-> "error", what |-> code, fault |-> fault]

Init ==
    /\ pc = [c \in Callers |-> "idle"]
    /\ object = [c \in Callers |-> Nothing]
    /\ wire = [c \in Callers |-> Nothing]
    /\ result = [c \in Callers |-> NoResult]
    /\ calls = [c \in Callers |-> 0]
    /\ headersSent = [s \in Services |-> FALSE]
    /\ introduced = [s \in Services |-> {}]
    /\ bare = [s \in Services |-> FALSE]

-----------------------------------------------------------------------------
(* The beginning of a call.                                                *)

\* Mutant: the default cache comes before the name the request has.
getCacheNameForRequestMutant(op, args, k) ==
    IF op \in DOMAIN CacheClientOperations /\ DefaultCache[k] # "" THEN DefaultCache[k] ELSE args.cache

\* The client writes the cache's name into the request that comes without.
getCacheNameForRequest(op, args, k) ==
    IF op \in DOMAIN CacheClientOperations /\ "cacheName" \in Operations[op].prepare /\ args.cache = ""
    THEN DefaultCache[k] ELSE args.cache

\* GetBatch appends its keys to those of the object's earlier calls.
KeysKept(op, args, keys) == IF op = "GetBatch" THEN keys \o args.items ELSE <<>>

\* "given" is the cache's name the application wrote, "used" the clients of the
\* object's earlier calls (history), "keys" GetBatch's byteKeys.
Begin(c, op, asked, given, used, keys, k) ==
    LET args == [asked EXCEPT !.cache = getCacheNameForRequest(op, asked, k)]
        r == Operations[op]
        refused == Refuses(r, args, DefaultTtl[k])
        panics == ~refused /\ Panics(r, args)
        late == RefusesLate(r, args) \/ PanicsLate(r, args)
    IN /\ pc[c] = "idle" /\ calls[c] < MaxCalls[c]
       /\ calls' = [calls EXCEPT ![c] = @ + 1]
       /\ object' = [object EXCEPT ![c] =
            [op |-> op, args |-> args, given |-> given, used |-> Append(used, k), client |-> k,
             keys |-> IF refused THEN keys ELSE KeysKept(op, args, keys)]]
       /\ result' = [result EXCEPT ![c] = IF refused THEN Error("InvalidArgumentError", <<>>) ELSE NoResult]
       /\ wire' = [wire EXCEPT ![c] =
            IF refused \/ panics \/ late THEN Nothing ELSE Message(op, r, args, DefaultTtl[k])]
       /\ pc' = [pc EXCEPT ![c] = CASE refused -> "idle"
                                    [] panics -> "panicked"
                                    [] r.service \in Services -> "load"
                                    [] OTHER -> "await"]
       /\ UNCHANGED <<headersSent, introduced, bare>>

\* A call with a new request object.
Call(c) == object[c] = Nothing /\ \E op \in Ops[c], k \in Clients : \E args \in Arguments[op] :
    Begin(c, op, args, args.cache, <<>>, <<>>, k)

\* The fields of an object that the application may have rewritten: the keys of
\* GetBatch, which is the one that keeps more than its cache from call to call.
Rewritten(o) == {o.args} \cup
    (IF o.op = "GetBatch" THEN {[o.args EXCEPT !.items = args.items] : args \in Arguments[o.op]} ELSE {})

\* A call with the object of the last call.
CallAgain(c) == object[c] # Nothing /\ \E k \in Clients, args \in Rewritten(object[c]) :
    LET o == object[c]
    IN Begin(c, o.op, args, o.given, o.used, o.keys, k)

-----------------------------------------------------------------------------
(* CreateMetadata: the flag is loaded and stored in two steps.             *)

\* Mutant: the test is the wrong way round.
LoadFlagMutant(c) ==
    LET s == row(c).service
    IN /\ pc[c] = "load"
       /\ pc' = [pc EXCEPT ![c] = IF headersSent[s] THEN "store" ELSE "await"]
       /\ bare' = [bare EXCEPT ![s] = @ \/ ~headersSent[s]]
       /\ UNCHANGED <<object, wire, result, calls, headersSent, introduced>>

LoadFlag(c) ==
    LET s == row(c).service
    IN /\ pc[c] = "load"
       /\ pc' = [pc EXCEPT ![c] = IF headersSent[s] THEN "await" ELSE "store"]
       /\ bare' = [bare EXCEPT ![s] = @ \/ headersSent[s]]
       /\ UNCHANGED <<object, wire, result, calls, headersSent, introduced>>

StoreFlag(c) ==
    LET s == row(c).service
    IN /\ pc[c] = "store"
       /\ pc' = [pc EXCEPT ![c] = "await"]
       /\ headersSent' = [headersSent EXCEPT ![s] = TRUE]
       /\ introduced' = [introduced EXCEPT ![s] = @ \cup {c}]
       /\ UNCHANGED <<object, wire, result, calls, bare>>

-----------------------------------------------------------------------------
(* The end of a call.                                                      *)

Return(c, r) ==
    /\ pc[c] = "await"
    /\ pc' = [pc EXCEPT ![c] = "idle"]
    /\ result' = [result EXCEPT ![c] = r]
    /\ UNCHANGED <<object, wire, calls, headersSent, introduced, bare>>

\* The scope of an API key is refused after the headers were taken on: a first
\* call that is refused has used them up.
ScopeRefused(c) ==
    /\ pc[c] = "await" /\ wire[c] = Nothing /\ RefusesLate(row(c), object[c].args)
    /\ Return(c, Error("InvalidArgumentError", <<>>))

\* So does a first call that panics on a scope.
ScopePanics(c) ==
    /\ pc[c] = "await" /\ wire[c] = Nothing /\ PanicsLate(row(c), object[c].args)
    /\ pc' = [pc EXCEPT ![c] = "panicked"]
    /\ UNCHANGED <<object, wire, result, calls, headersSent, introduced, bare>>

\* The item a conditional operation is about, as the service finds it: against
\* the value a condition names, or against the lifetime an update gives.
ItemStates(asks) ==
    CASE asks \in isXSetIfRequest_Condition -> {"missing", "equal", "other"}
      [] asks \in isXUpdateTtlRequest_UpdateTtl -> {"missing", "shorter", "longer"}
      [] OTHER -> {"missing"}

\* What the service does on each alternative of the two oneofs.
Holds(asks, item) ==
    CASE asks \in {"Present", "OverwriteToMilliseconds"} -> item # "missing"
      [] asks = "Absent" -> item = "missing"
      [] asks = "Equal" -> item = "equal"
      [] asks = "NotEqual" -> item # "equal"
      [] asks = "PresentAndNotEqual" -> item = "other"
      [] asks = "AbsentOrEqual" -> item # "other"
      [] asks = "IncreaseToMilliseconds" -> item = "shorter"
      [] asks = "DecreaseToMilliseconds" -> item = "longer"

\* A reply the service can give: it is truthful about conditions.
CanReply(asks, reply, item) ==
    asks # "" => /\ reply \in {"Stored", "Set"} => Holds(asks, item)
                 /\ reply \in {"NotStored", "NotSet", "Missing"} => ~Holds(asks, item)
                 /\ reply = "Missing" => item = "missing"
                 /\ reply = "NotSet" => item # "missing"

\* The replies for the items of a batch, a list of fields or of values.
PartsOf(c, reply) ==
    IF row(c).parts # <<>> /\ reply \in {"Found", "stream"}
    THEN [1..Len(wire[c].items) -> ECacheResult]
    ELSE {<<>>}

\* Mutant: the labels are read from the end.
LabelsMutant(c) ==
    LET keys == IF object[c].op = "GetBatch" THEN object[c].keys ELSE wire[c].items
    IN [i \in DOMAIN keys |-> keys[Len(keys) + 1 - i]]

\* The labels an answer pairs its parts with.
Labels(c) == IF object[c].op = "GetBatch" THEN object[c].keys ELSE wire[c].items

Interpreted(c, reply, parts, item) ==
    LET r == row(c)
        read == [i \in DOMAIN parts |-> <<Labels(c)[i], r.parts[parts[i]]>>]
    IN IF reply \notin DOMAIN r.interpret THEN Error(r.unexpected, <<>>)
       ELSE IF \E i \in DOMAIN read : read[i][2] = "fails" THEN Error(r.partError, <<>>)
       ELSE Answer(r.interpret[reply].what, reply, read, <<>>, item)

Answered(c) ==
    /\ pc[c] = "await" /\ wire[c] # Nothing
    /\ \E reply \in DOMAIN row(c).replies, item \in ItemStates(wire[c].asks) :
        /\ CanReply(wire[c].asks, reply, item)
        /\ \E parts \in PartsOf(c, reply) : Return(c, Interpreted(c, reply, parts, item))

ErrorOf(r, status, cause) ==
    LET code == ConvertSvcErr(status, IF r.metadata THEN cause ELSE "none")
    IN IF code \in DOMAIN r.onError THEN Answer(r.onError[code], "", <<>>, <<status, cause>>, "missing")
       ELSE Error(IF code \in DOMAIN r.errorAs THEN r.errorAs[code] ELSE code, <<status, cause>>)

Failed(c) ==
    /\ pc[c] = "await" /\ wire[c] # Nothing
    /\ \E fault \in Faults[object[c].op] : Return(c, ErrorOf(row(c), fault[1], fault[2]))

\* Mutant: only the calls of the cache service get the request timeout.
DeadlineExceededMutant(c) ==
    /\ pc[c] = "await" /\ wire[c] # Nothing /\ row(c).timeout /\ row(c).service = "cache"
    /\ Return(c, ErrorOf(row(c), "DeadlineExceeded", "none"))

\* The deadline the client put on the call passes.
DeadlineExceeded(c) ==
    /\ pc[c] = "await" /\ wire[c] # Nothing /\ row(c).timeout
    /\ Return(c, ErrorOf(row(c), "DeadlineExceeded", "none"))

-----------------------------------------------------------------------------

Finished == \A c \in Callers : pc[c] = "panicked" \/ (pc[c] = "idle" /\ calls[c] = MaxCalls[c])

Terminating == Finished /\ UNCHANGED vars

Next ==
    \/ \E c \in Callers : \/ Call(c) \/ CallAgain(c) \/ LoadFlag(c) \/ StoreFlag(c) \/ ScopeRefused(c)
                          \/ ScopePanics(c) \/ Answered(c) \/ Failed(c) \/ DeadlineExceeded(c)
    \/ Terminating

\* The client's own steps are taken, and a deadline that was set passes; the
\* service need not reply, and the application need not call.
Fairness == \A c \in Callers :
    /\ WF_vars(LoadFlag(c)) /\ WF_vars(StoreFlag(c))
    /\ WF_vars(ScopeRefused(c)) /\ WF_vars(ScopePanics(c)) /\ WF_vars(DeadlineExceeded(c))

Spec == Init /\ [][Next]_vars /\ Fairness

-----------------------------------------------------------------------------
(* Properties.                                                             *)

OnTheWire(c) == pc[c] \in {"load", "store", "await"} /\ wire[c] # Nothing

\* A permission for the topics of a cache says which.
NoNilTopic(scope) == scope.kind = "Permissions" =>
    \A p \in scope.permissions : p.type = "topic" => p.cache = "nil" \/ p.part # "nil"

\* Nothing malformed reaches the service: no nil, no blank name, no topic that a
\* permission leaves nil, and no empty key or field, except that the batch operations do not check their keys; and
\* no field of the request message is left at Go's zero because an operation's
\* literal forgot it, except the two of a new API key this client does not know
\* and the page token of the two lists, of which only the first page can be had
\* (cache_client.go:377, storage_client.go:151).  A call panics only on the nil
\* values no check stands before: a key or element of the three operations that
\* do not look (get_batch.go:40, set_batch.go:45, set_contains_elements.go), a
\* value of SetBatch, and the topic selector of a permission (token_client.go:111
\* and 141).
OnlyWellFormedMessages == \A c \in Callers :
    /\ OnTheWire(c) =>
        LET m == wire[c]
            keyed == row(c).prepare \cap {"key", "storeKey", "keys", "field", "fields", "element", "elements"} # {}
        IN /\ "nil" \notin m.values \cup ElementsOf(m.items)
           /\ "blank" \notin {m.cache, m.name}
           /\ row(c).service = "cache" => m.cache # ""
           /\ keyed => "empty" \notin ElementsOf(m.items)
           /\ m.op \in {"GenerateApiKey", "GenerateDisposableToken"} => NoNilTopic(object[c].args.scope)
           /\ row(c).request \ row(c).sets =
                CASE m.op = "GenerateApiKey" -> {"TokenId", "Description"}
                  [] m.op \in {"ListCaches", "ListStores"} -> {"NextToken"}
                  [] OTHER -> {}
    /\ pc[c] = "panicked" =>
        LET op == object[c].op
            a == object[c].args
        IN \/ op \in {"GetBatch", "SetBatch", "SetContainsElements"} /\ "nil" \in ElementsOf(a.items)
           \/ op = "SetBatch" /\ a.items # <<>> /\ a.value = "nil"
           \/ op \in {"GenerateApiKey", "GenerateDisposableToken"} /\ ~NoNilTopic(a.scope)

\* The lifetime an item gets is the one the application gave, or the client's
\* default, cut to whole milliseconds, and never 0 for a single item: a 0 is
\* answered with an internal error.  The account is exact about the two cases
\* the code lets through: a collection's (or an update's) TTL below a
\* millisecond arrives as 0, and a negative default TTL, which the constructor
\* accepts, wraps around for a collection.  A collection is refreshed when no
\* CollectionTtl is given, and when it was made by FromCacheTtl, by
\* WithRefreshTtlOnUpdates or by RefreshTtlIfProvided with a TTL, 0 being one; a
\* scalar's Increment has no refresh to ask for.
TtlArrives == \A c \in Callers : OnTheWire(c) =>
    LET p == row(c).prepare
        ms == wire[c].ttl
        a == object[c].args
        default == a.ttl = 0 \/ ("collectionTtl" \in p /\ a.collection = "none")
        asked == IF default THEN DefaultTtl[object[c].client] ELSE a.ttl
        sendsTtl == p \cap {"ttl", "collectionTtl", "updateTtl"} # {}
    IN /\ sendsTtl /\ asked > 0 => (2 * ms <= asked /\ asked < 2 * (ms + 1))
       /\ "ttl" \in p => ms > 0
       /\ sendsTtl /\ asked < 0 => ("collectionTtl" \in p /\ default)
       /\ "RefreshTtl" \in row(c).request =>
            (wire[c].refresh <=> a.collection \in {"none", "FromCacheTtl", "WithRefreshTtlOnUpdates",
                                                    "RefreshTtlIfProvided(ttl)"})

\* An answer is about what this call asked: its parts are as many as the
\* elements sent, each under its own element.  A GetBatch object that is used
\* again is the exception the code makes: its keys pile up (get_batch.go:40),
\* and the values of a later call stand under the keys of the first.
AnswerIsOwn == \A c \in Callers : result[c].kind = "answer" /\ result[c].parts # <<>> =>
    LET parts == result[c].parts
        labels == [i \in DOMAIN parts |-> parts[i][1]]
    IN /\ Len(parts) = Len(wire[c].items)
       /\ \/ labels = wire[c].items
          \/ /\ object[c].op = "GetBatch" /\ calls[c] > 1
             /\ labels = SubSeq(object[c].keys, 1, Len(parts))

\* The default cache of the first of these clients that has one.
FirstDefault(cache, used) ==
    \E i \in DOMAIN used : /\ cache = DefaultCache[used[i]]
                          /\ \A j \in 1..(i - 1) : DefaultCache[used[j]] = ""

\* A request goes to the cache its application named; one that came without a
\* name goes to the default cache of the first client it was used on that has
\* one, because that client wrote its name into it (cache_client.go:321), and
\* stays there whichever client it is used on later.
RequestsStayInTheirCache == \A c \in Callers : OnTheWire(c) /\ wire[c].cache # "" =>
    IF object[c].given # "" THEN wire[c].cache = object[c].given
    ELSE FirstDefault(wire[c].cache, object[c].used)

\* What a reply says reaches the application: every field that came with the
\* alternative is passed on, and "missing" is a miss.  The account is exact
\* about what interpretGrpcResponse functions drop: the service's message to
\* a Get or Set and the body of a miss, the length left by a pop or a removal,
\* the limits of a listed cache, the rank of an element that has none; and about
\* those that never look at the reply: a Set, and a removal from a list or a set,
\* which is a success even where there is none (list_remove_value.go,
\* set_remove_elements.go).
AnswersTellWhatCame == \A c \in Callers : result[c].kind = "answer" /\ result[c].reply # "" =>
    LET op == object[c].op
        reply == result[c].reply
        dropped == row(c).replies[reply] \ row(c).interpret[reply].tells
        blind == {"Set", "ListRemoveValue", "SetRemoveElements", "SetRemoveElement"}
    IN /\ dropped =
            CASE op \in {"Get", "GetBatch"} -> {"Message"} \cup (IF reply = "Miss" THEN {"CacheBody"} ELSE {})
              [] op \in {"Set", "SetBatch"} -> {"Message"}
              [] op \in {"ListPopFront", "ListPopBack", "ListRemoveValue"} /\ reply = "Found" -> {"ListLength"}
              [] op = "ListCaches" -> {"CacheLimits", "TopicLimits"}
              [] op = "SortedSetGetRank" /\ reply = "Miss" -> {"Result", "Rank"}
              [] OTHER -> {}
       /\ reply \in {"Missing", "Miss"} =>
            result[c].what = IF op \in blind THEN "Success" ELSE "Miss"

\* A conditional operation stores, or sets a lifetime, only on an item that is
\* as its name says: six nearly equal files choose the condition.  Two lines of
\* the CacheClient interface say less: SetIfAbsentOrEqual "if key is present and
\* its value is equal to the given value" (cache_client.go:50), SetIfNotEqual "if
\* key is present and its value is not equal to the given value" (:52).  What the
\* files send, AbsentOrEqual and NotEqual, also stores where there is no item, and
\* that is what is stated here.
ConditionsAreKept == \A c \in Callers : result[c].kind = "answer" /\ result[c].what \in {"Stored", "Set"} =>
    result[c].item \in
        CASE object[c].op \in {"SetIfNotExists", "SetIfAbsent"} -> {"missing"}
          [] object[c].op = "SetIfPresent" -> {"equal", "other"}
          [] object[c].op = "SetIfEqual" -> {"equal"}
          [] object[c].op = "SetIfNotEqual" -> {"missing", "other"}
          [] object[c].op = "SetIfPresentAndNotEqual" -> {"other"}
          [] object[c].op = "SetIfAbsentOrEqual" -> {"missing", "equal"}
          [] object[c].op = "UpdateTtl" -> {"shorter", "longer"}
          [] object[c].op = "IncreaseTtl" -> {"shorter"}
          [] object[c].op = "DecreaseTtl" -> {"longer"}

\* The statuses that each error code stands for, read from the error's side.
StatusesOf ==
    [InvalidArgumentError |-> {"InvalidArgument"}, BadRequestError |-> {"Unimplemented", "OutOfRange"},
     FailedPreconditionError |-> {"FailedPrecondition"}, CanceledError |-> {"Canceled"},
     TimeoutError |-> {"DeadlineExceeded"}, PermissionError |-> {"PermissionDenied"},
     AuthenticationError |-> {"Unauthenticated"}, LimitExceededError |-> {"ResourceExhausted"},
     NotFoundError |-> {"NotFound"}, ItemNotFoundError |-> {"NotFound"}, StoreNotFoundError |-> {"NotFound"},
     AlreadyExistsError |-> {"AlreadyExists"}, StoreAlreadyExistsError |-> {"AlreadyExists"},
     UnknownServiceError |-> {"Unknown"}, InternalServerError |-> {"Aborted", "Internal", "DataLoss"},
     ServerUnavailableError |-> {"Unavailable"}]

\* A failed call is an error, but for four: creating a cache or a store that
\* exists, deleting a cache that does not, and reading an item a store does not
\* have.  A store that exists is the odd one: it is an answer only when the
\* trailer does not say that it is a store (storage_client.go:116).  Every error
\* has the code of its status and tells a missing item, a missing store and an
\* existing store apart, with two exceptions: GenerateDisposableToken's code is
\* always the same (auth_client.go:72), and whatever DeleteStore does not find is
\* a store, unless it is an item (storage_client.go:142).  The cause is lost on the
\* five operations that do not have the trailer at hand.
FailuresAreErrors == \A c \in Callers : result[c].kind # "none" /\ result[c].fault # <<>> =>
    LET op == object[c].op
        what == result[c].what
        status == result[c].fault[1]
        causeUnread == {"GetBatch", "SetBatch", "Ping", "GenerateApiKey", "RefreshApiKey"}
        cause == IF op \in causeUnread THEN "none" ELSE result[c].fault[2]
        noItem == status = "NotFound" /\ cause = "item_not_found"
        noStore == status = "NotFound" /\ cause = "store_not_found"
        storeExists == status = "AlreadyExists" /\ cause = "store_already_exists"
    IN /\ result[c].kind = "answer" <=>
            \/ op \in {"CreateCache", "CreateStore"} /\ status = "AlreadyExists" /\ ~storeExists
            \/ op = "DeleteCache" /\ status = "NotFound" /\ ~noItem /\ ~noStore
            \/ op = "StorageGet" /\ noItem
       /\ result[c].kind = "error" =>
            IF op = "GenerateDisposableToken" THEN what = "ClientSdkError"
            ELSE /\ what \in DOMAIN StatusesOf /\ status \in StatusesOf[what]
                 /\ what = "ItemNotFoundError" <=> noItem
                 /\ what = "StoreNotFoundError" <=>
                        noStore \/ (op = "DeleteStore" /\ status = "NotFound" /\ ~noItem)
                 /\ what = "StoreAlreadyExistsError" <=> storeExists

\* A key or token allows what was asked for, and nothing else, for as long as
\* was asked.  The account is exact about two requests that get less than they
\* ask for, without an error (a key with a disposable permission, and a token
\* whose scope is a DisposableTokenCachePermissions list), and about lifetimes
\* that an unsigned number of seconds cannot hold.
TokensAllowWhatWasAsked == \A c \in Callers :
    OnTheWire(c) /\ row(c).service = "auth" /\ wire[c].op # "RefreshApiKey" =>
        LET a == object[c].args
            counted == IF wire[c].op = "GenerateApiKey"
                       THEN {p \in a.scope.permissions : p.type # "disposable"}
                       ELSE IF a.scope.kind = "Permissions" THEN a.scope.permissions ELSE {}
        IN /\ a.scope.kind = "SuperUser" =>
                wire[c].op = "GenerateApiKey" /\ wire[c].permissions = SuperUserPermissions
           /\ a.scope.kind # "SuperUser" =>
                UNION {RightsGranted(g) : g \in wire[c].permissions} = UNION {RightsAsked(p) : p \in counted}
           /\ a.expires \in 0..(Modulus - 1) \cup {Never} => wire[c].seconds = a.expires

\* The first-time headers keep their promise: a record read and written in two
\* steps still introduces the process to every service it talks to, at most
\* once for each goroutine.
Headers == INSTANCE FirstTimeHeaders
    WITH Services <- Services, Goroutines <- Callers, introduced <- introduced, bare <- bare

HeadersAreSentFirst == Headers!Spec

\* A call on which the client puts a deadline returns, whatever the service
\* does.  Publishing and the auth operations have none.
Returns == \A c \in Callers :
    (OnTheWire(c) /\ row(c).timeout) ~> ~OnTheWire(c)

\* What a comment and a test say of CreateStore: that the store already exists
\* is an answer and not an error (responses/create_store.go:13).
CreateStoreIsIdempotent == \A c \in Callers :
    object[c] # Nothing /\ result[c].kind = "error" /\ object[c].op = "CreateStore" =>
        \/ result[c].fault = <<>>
        \/ result[c].fault[1] # "AlreadyExists"

\* What the comment of utils.Of says: the TTL of a collection it makes "will be
\* refreshed any time the collection is modified" (utils/collection_ttl.go:29).
CollectionTtlOfRefreshes == \A c \in Callers :
    OnTheWire(c) /\ "RefreshTtl" \in row(c).sets /\ object[c].args.collection = "Of" => wire[c].refresh

\* What the message of the check says: disposable tokens expire within 1 hour
\* (utils/validators.go:21).
DisposableTokensExpireWithinOneHour == \A c \in Callers :
    OnTheWire(c) /\ wire[c].op = "GenerateDisposableToken" => wire[c].seconds <= OneHour

=============================================================================
