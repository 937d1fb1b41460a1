-------------------------- MODULE CacheOperations --------------------------
(***************************************************************************)
(* The operations of the cache client, of leaderboards and of the storage  *)
(* client as data: one row for each, saying what it checks before it sends *)
(* anything, which reply messages can come back, how it reads them and     *)
(* which errors of the service it turns into an answer.  Requests.tla runs *)
(* the rows.                                                               *)
(*                                                                         *)
(* Arguments are abstracted to what the code tells apart.  A name is good, *)
(* blank, or "" (not given); a key, field or value is "k1", "k2", "empty"  *)
(* (no bytes) or "nil".  Durations are in half milliseconds, so that 1 is  *)
(* a duration shorter than the millisecond the protocol counts in; 0 is a  *)
(* duration the application did not give.                                  *)
(***************************************************************************)
EXTENDS Integers, Sequences, Protocol, PermissionScopes

CONSTANTS Modulus,      \* stands for the 2^64 and 2^32 that unsigned integers wrap at
          OneHour,      \* the longest lifetime of a disposable token, in seconds
          Never         \* the MaxInt64 seconds of a lifetime that does not end

ASSUME WidthAssumption ==
    /\ Modulus \in Nat \ {0} /\ OneHour \in Nat /\ Never \in Nat
    /\ OneHour < Modulus /\ Modulus < Never

\* Mutant: nothing wraps.
uint64Mutant(n) == n

uint64(n) == n % Modulus

uint32(n) == n % Modulus

\* Go's Duration.Milliseconds truncates towards zero.
Milliseconds(d) == IF d >= 0 THEN d \div 2 ELSE -((-d) \div 2)

-----------------------------------------------------------------------------
(* The checks of requester.go.  "a" is the record of a call's arguments,   *)
(* "d" the default TTL of the client it is made on.                        *)

validateNotNil(v) == v # "nil"

validateNotEmpty(v) == validateNotNil(v) /\ v # "empty"

prepareName(n) == n \notin {"", "blank"}

ElementsOf(s) == {s[i] : i \in DOMAIN s}

\* Mutant: the elements are checked for nil only.
prepareKeysMutant(a) == \A k \in ElementsOf(a.items) : validateNotNil(k)

prepareKeys(a) == \A k \in ElementsOf(a.items) : validateNotEmpty(k)

prepareFields(a) == ~a.listIsNil /\ \A f \in ElementsOf(a.items) : validateNotEmpty(f)

momentoValuesToPrimitiveByteList(a) ==
    ~a.listIsNil /\ \A v \in ElementsOf(a.items) : validateNotNil(v)

prepareDictionaryElements(a) ==
    \A f \in ElementsOf(a.items) : validateNotNil(a.value) /\ validateNotEmpty(f)

GivenTtl(a, d) == IF a.ttl = 0 THEN d ELSE a.ttl

\* Mutant: the check is made before the cut to milliseconds.
prepareTtlMutant(a, d) == GivenTtl(a, d) > 0

prepareTtl(a, d) == GivenTtl(a, d) > 0 /\ uint64(Milliseconds(GivenTtl(a, d))) # 0

\* How the functions that make a CollectionTtl set RefreshTtl.  "none" is a nil
\* pointer; Of and WithNoRefreshTtlOnUpdates leave it false, and so does
\* RefreshTtlIfProvided without an argument.
RefreshTtl(a) == a.collection \in {"FromCacheTtl", "WithRefreshTtlOnUpdates", "RefreshTtlIfProvided(ttl)"}

\* A collection TTL may be nil, and is then the default with a refresh.
prepareCollectionTtl(a) == a.collection = "none" \/ a.ttl >= 0

CollectionTtl(a, d) == IF a.collection = "none" THEN d ELSE GivenTtl(a, d)

prepareUpdateTtl(a) == a.ttl > 0

validateSortedSetRanks(start, end) ==
    ~(start >= 0 /\ end >= 0 /\ start >= end) /\ ~(start < 0 /\ end < 0 /\ start >= end)

\* The start defaults to 0; nothing is checked unless an end is given.
ranks(a) == a.end # <<>> =>
    validateSortedSetRanks(IF a.start = <<>> THEN 0 ELSE a.start[1], a.end[1])

Given(option) == IF option = <<>> THEN 0 ELSE option[1]

scoreRange(a) == a.start # <<>> /\ a.end # <<>> => a.start[1] < a.end[1]

\* A negative lifetime passes.
ValidateDisposableTokenExpiry(a) == a.expires # Never /\ a.expires <= OneHour

ValidateApiKeyExpiry(a) == a.expires = Never \/ a.expires >= 0

\* Which checks a call passes.
Accepts(a, d) ==
    [cacheName |-> prepareName(a.cache),
     name |-> prepareName(a.name),
     key |-> validateNotEmpty(a.item),
     keys |-> prepareKeys(a),
     field |-> validateNotEmpty(a.item),
     fields |-> prepareFields(a),
     value |-> validateNotNil(a.value),
     values |-> momentoValuesToPrimitiveByteList(a),
     other |-> validateNotNil(a.other),
     element |-> validateNotEmpty(a.item) /\ validateNotNil(a.value),
     elements |-> prepareDictionaryElements(a),
     ttl |-> prepareTtl(a, d),
     collectionTtl |-> prepareCollectionTtl(a),
     updateTtl |-> prepareUpdateTtl(a),
     amount |-> a.amount # 0,
     ranks |-> ranks(a),
     storeKey |-> a.item \notin {"empty", "nil"},
     rankRange |-> Given(a.start) < Given(a.end),
     scoreRange |-> scoreRange(a),
     ids |-> a.items # <<>>,
     unchecked |-> TRUE,
     uncheckedValue |-> TRUE,
     keyExpiry |-> ValidateApiKeyExpiry(a),
     tokenExpiry |-> ValidateDisposableTokenExpiry(a),
     tokenScope |-> TRUE]

Refuses(row, a, d) == \E s \in row.prepare \ {"keyScope"} : ~Accepts(a, d)[s]

\* The scope of an API key is read last, when the headers have been made.
RefusesLate(row, a) == "keyScope" \in row.prepare /\ RefusesScope(a.scope)

\* Calling asBytes on a nil interface panics: three operations do not check
\* their keys or elements, and SetBatch its values neither.
Panics(row, a) ==
    \/ "unchecked" \in row.prepare /\ "nil" \in ElementsOf(a.items)
    \/ "uncheckedValue" \in row.prepare /\ a.items # <<>> /\ ~validateNotNil(a.value)

\* The scope of a key or token is converted when the headers have been made.
PanicsLate(row, a) == row.prepare \cap {"keyScope", "tokenScope"} # {} /\ PanicsOnScope(a.scope)

Lists == {"keys", "fields", "values", "elements", "unchecked", "ids"}

\* What goes over the wire when nothing is refused.
Message(op, row, a, d) ==
    [op |-> op,
     cache |-> IF "cacheName" \in row.prepare THEN a.cache ELSE "",
     name |-> IF "name" \in row.prepare THEN a.name ELSE "",
     items |-> IF row.prepare \cap Lists # {} THEN a.items
               ELSE IF row.prepare \cap {"key", "storeKey", "field", "element"} # {} THEN <<a.item>> ELSE <<>>,
     values |-> (IF row.prepare \cap {"value", "element"} # {} THEN {a.value} ELSE {})
                \cup (IF row.prepare \cap {"elements", "uncheckedValue"} # {}
                      THEN {a.value : f \in ElementsOf(a.items)} ELSE {})
                \cup (IF "other" \in row.prepare THEN {a.other} ELSE {}),
     ttl |-> CASE "ttl" \in row.prepare -> uint64(Milliseconds(GivenTtl(a, d)))
               [] "collectionTtl" \in row.prepare -> uint64(Milliseconds(CollectionTtl(a, d)))
               [] "updateTtl" \in row.prepare -> uint64(Milliseconds(a.ttl))
               [] OTHER -> 0,
     refresh |-> "RefreshTtl" \in row.sets /\ (a.collection = "none" \/ RefreshTtl(a)),
     permissions |-> CASE "keyScope" \in row.prepare -> permissionsFromTokenScope(a.scope)
                       [] "tokenScope" \in row.prepare -> disposablePermissions(a.scope)
                       [] OTHER -> {},
     seconds |-> IF "keyExpiry" \in row.prepare /\ a.expires = Never THEN Never
                 ELSE IF row.prepare \cap {"keyExpiry", "tokenExpiry"} # {} THEN uint32(a.expires) ELSE 0,
     asks |-> row.asks]

-----------------------------------------------------------------------------
(* How an error of the service is read.  "cause" is the err entry of the   *)
(* trailer, "none" when there is none or no metadata is at hand.           *)

CodeOf ==
    [InvalidArgument |-> "InvalidArgumentError", Unimplemented |-> "BadRequestError",
     OutOfRange |-> "BadRequestError", FailedPrecondition |-> "FailedPreconditionError",
     Canceled |-> "CanceledError", DeadlineExceeded |-> "TimeoutError",
     PermissionDenied |-> "PermissionError", Unauthenticated |-> "AuthenticationError",
     ResourceExhausted |-> "LimitExceededError", NotFound |-> "NotFoundError",
     AlreadyExists |-> "AlreadyExistsError", Unknown |-> "UnknownServiceError",
     Aborted |-> "InternalServerError", Internal |-> "InternalServerError",
     DataLoss |-> "InternalServerError", Unavailable |-> "ServerUnavailableError"]

StatusCodes == DOMAIN CodeOf

Causes == {"none", "item_not_found", "store_not_found", "store_already_exists"}

ConvertSvcErr(status, cause) ==
    CASE status = "NotFound" /\ cause = "item_not_found" -> "ItemNotFoundError"
      [] status = "NotFound" /\ cause = "store_not_found" -> "StoreNotFoundError"
      [] status = "AlreadyExists" /\ cause = "store_already_exists" -> "StoreAlreadyExistsError"
      [] OTHER -> CodeOf[status]

ErrorCodes ==
    {ConvertSvcErr(status, cause) : status \in StatusCodes, cause \in Causes} \cup {"ClientSdkError"}

-----------------------------------------------------------------------------
(* How a reply is read: from an alternative of the reply message to the    *)
(* answer, and to the fields that the answer passes on.  An alternative    *)
(* outside the domain is an unexpected response, and an error.             *)

Tells(what, fields) == [what |-> what, tells |-> fields]

Says(what) == Tells(what, {})

HitMiss == [Hit |-> Tells("Hit", {"CacheBody"}), Miss |-> Says("Miss")]

FoundMiss(fields) == [Found |-> Tells("Hit", fields), Missing |-> Says("Miss")]

StoredOrNot == [Stored |-> Says("Stored"), NotStored |-> Says("NotStored")]

Success(replies, fields) == [r \in DOMAIN replies |-> Tells("Success", fields)]

Row(service, prepare, request, sets, replies, interpret) ==
    [service |-> service, prepare |-> prepare,
     request |-> request,   \* the request message
     sets |-> sets,         \* the fields of it that the code sets
     replies |-> replies, interpret |-> interpret,
     asks |-> "",           \* the alternative of the request message, where there is one
     parts |-> <<>>,        \* how the ECacheResult of each item is read, where there is one
     partError |-> "",      \* the error when an item's part is "fails"
     unexpected |-> "InternalServerError", \* the error for a reply it does not know
     onError |-> <<>>,      \* the errors that are turned into an answer
     errorAs |-> <<>>,      \* the errors whose code is changed once more
     metadata |-> TRUE,     \* whether the reply's trailer is there to tell causes apart
     timeout |-> TRUE]      \* whether the client puts a deadline on the call

CacheRow(prepare, request, sets, replies, interpret) ==
    Row("cache", prepare \cup {"cacheName"}, request, sets, replies, interpret)

NameRow(prepare, request, sets, replies, interpret) ==
    CacheRow(prepare \cup {"name"}, request, sets, replies, interpret)

TtlFields == {"TtlMilliseconds", "RefreshTtl"}

-----------------------------------------------------------------------------
(* Scalars *)

Get == CacheRow({"key"}, XGetRequest, {"CacheKey"}, XGetResponse, HitMiss)
Set ==
    CacheRow({"key", "value", "ttl"}, XSetRequest, {"CacheKey", "CacheBody", "TtlMilliseconds"},
             XSetResponse, Success(XSetResponse, {}))
Delete == CacheRow({"key"}, XDeleteRequest, {"CacheKey"}, XDeleteResponse, Success(XDeleteResponse, {}))
KeysExist ==
    CacheRow({"keys"}, XKeysExistRequest, {"CacheKeys"},
             XKeysExistResponse, Success(XKeysExistResponse, {"Exists"}))
Increment ==
    CacheRow({"field", "collectionTtl"}, XIncrementRequest, {"CacheKey", "Amount", "TtlMilliseconds"},
             XIncrementResponse, Success(XIncrementResponse, {"Value"}))
ItemGetType == CacheRow({"key"}, XItemGetTypeRequest, {"CacheKey"}, XItemGetTypeResponse, FoundMiss({"ItemType"}))
ItemGetTtl == CacheRow({"key"}, XItemGetTtlRequest, {"CacheKey"}, XItemGetTtlResponse, FoundMiss({"RemainingTtlMillis"}))

TtlRow(asks, interpret) ==
    [CacheRow({"key", "updateTtl"}, XUpdateTtlRequest, {"CacheKey", "UpdateTtl"},
              XUpdateTtlResponse, interpret) EXCEPT !.asks = asks]

UpdateTtl == TtlRow("OverwriteToMilliseconds", [Set |-> Says("Set"), Missing |-> Says("Miss")])
IncreaseTtl == TtlRow("IncreaseToMilliseconds", [Set |-> Says("Set"), NotSet |-> Says("NotSet"), Missing |-> Says("Miss")])
DecreaseTtl == TtlRow("DecreaseToMilliseconds", [Set |-> Says("Set"), NotSet |-> Says("NotSet"), Missing |-> Says("Miss")])

SetIfRow(asks, others) ==
    [CacheRow({"key", "value", "ttl"} \cup others, XSetIfRequest,
              {"CacheKey", "CacheBody", "TtlMilliseconds", "Condition"},
              XSetIfResponse, StoredOrNot) EXCEPT !.asks = asks]

SetIfNotExists == SetIfRow("Absent", {})
SetIfAbsent == SetIfRow("Absent", {})
SetIfPresent == SetIfRow("Present", {})

\* The conditions that compare with a value.
ComparingRow(asks, condition) ==
    [SetIfRow(asks, {"other"}) EXCEPT !.request = @ \cup condition, !.sets = @ \cup {"ValueToCheck"}]

SetIfEqual == ComparingRow("Equal", Equal)
SetIfNotEqual == ComparingRow("NotEqual", NotEqual)
\* Mutant: the condition of the file it was copied from.
SetIfPresentAndNotEqualMutant == ComparingRow("NotEqual", NotEqual)

SetIfPresentAndNotEqual == ComparingRow("PresentAndNotEqual", PresentAndNotEqual)
SetIfAbsentOrEqual == ComparingRow("AbsentOrEqual", AbsentOrEqual)

\* The batch calls are streams of one reply for each item; the headers and
\* trailers are not at hand when an item fails, nor when the stream does not open.
BatchRow(prepare, request, sets, reply, fields, parts) ==
    [CacheRow(prepare \cup {"unchecked"}, request, {"Items"} \cup sets,
              [stream |-> reply], [stream |-> Tells("Success", fields)])
        EXCEPT !.parts = parts, !.partError = "UnknownServiceError", !.metadata = FALSE]

GetBatch ==
    BatchRow({}, XGetBatchRequest \cup XGetRequest, {"CacheKey"}, XGetResponse["Hit"], {"CacheBody"},
             [Hit |-> "Hit", Miss |-> "Miss", Ok |-> "fails", Invalid |-> "fails"])
SetBatch ==
    BatchRow({"ttl", "uncheckedValue"}, XSetBatchRequest \cup XSetRequest, {"CacheKey", "CacheBody", "TtlMilliseconds"},
             XSetResponse["Ok"], {},
             [Ok |-> "Success", Hit |-> "fails", Miss |-> "fails", Invalid |-> "fails"])

-----------------------------------------------------------------------------
(* Dictionaries, lists, sets, sorted sets.  A singular operation is its    *)
(* plural on one element, through a request of its own.                    *)

DictionaryFetch ==
    NameRow({}, XDictionaryFetchRequest, {"DictionaryName"}, XDictionaryFetchResponse, FoundMiss({"Items", "Field", "Value"}))
DictionaryLength ==
    NameRow({}, XDictionaryLengthRequest, {"DictionaryName"}, XDictionaryLengthResponse, FoundMiss({"Length"}))
DictionaryGetFields ==
    [NameRow({"fields"}, XDictionaryGetRequest, {"DictionaryName", "Fields"},
             XDictionaryGetResponse, FoundMiss({"Items", "Result", "CacheBody"}))
        EXCEPT !.parts = [Hit |-> "Hit", Miss |-> "Miss", Ok |-> "nil", Invalid |-> "nil"]]
DictionarySetFields ==
    NameRow({"elements", "collectionTtl"}, XDictionarySetRequest \cup XDictionaryFieldValuePair,
            {"DictionaryName", "Items", "Field", "Value"} \cup TtlFields,
            XDictionarySetResponse, Success(XDictionarySetResponse, {}))
DictionaryIncrement ==
    NameRow({"field", "collectionTtl", "amount"}, XDictionaryIncrementRequest,
            {"DictionaryName", "Field", "Amount"} \cup TtlFields,
            XDictionaryIncrementResponse, Success(XDictionaryIncrementResponse, {"Value"}))
DictionaryRemoveFields ==
    NameRow({"fields"}, XDictionaryDeleteRequest \cup XDictionaryDeleteRequest_Some,
            {"DictionaryName", "Delete", "Fields"},
            XDictionaryDeleteResponse, Success(XDictionaryDeleteResponse, {}))

\* The singular of an operation on the list step "plural".
OneOf(row, plural, singular) == [row EXCEPT !.prepare = (@ \ {plural}) \cup {singular}]

DictionarySetField == OneOf(DictionarySetFields, "elements", "element")
DictionaryGetField ==
    [OneOf(DictionaryGetFields, "fields", "field")
        EXCEPT !.parts = [Hit |-> "Hit", Miss |-> "Miss", Ok |-> "fails", Invalid |-> "fails"],
               !.partError = "InternalServerError"]
DictionaryRemoveField == OneOf(DictionaryRemoveFields, "fields", "field")

ListPush(request, truncate, replies) ==
    NameRow({"value", "collectionTtl"}, request, {"ListName", "Value", truncate} \cup TtlFields,
            replies, Success(replies, {"ListLength"}))
ListConcatenate(request, truncate, replies) ==
    NameRow({"values", "collectionTtl"}, request, {"ListName", "Values", truncate} \cup TtlFields,
            replies, Success(replies, {"ListLength"}))

ListPushFront == ListPush(XListPushFrontRequest, "TruncateBackToSize", XListPushFrontResponse)
ListPushBack == ListPush(XListPushBackRequest, "TruncateFrontToSize", XListPushBackResponse)
ListConcatenateFront ==
    ListConcatenate(XListConcatenateFrontRequest, "TruncateBackToSize",
                    XListConcatenateFrontResponse)
ListConcatenateBack ==
    ListConcatenate(XListConcatenateBackRequest, "TruncateFrontToSize",
                    XListConcatenateBackResponse)
ListPopFront == NameRow({}, XListPopFrontRequest, {"ListName"}, XListPopFrontResponse, FoundMiss({"Front"}))
\* Mutant: a found list is answered without its item.
ListPopBackMutant == NameRow({}, XListPopBackRequest, {"ListName"}, XListPopBackResponse, FoundMiss({}))

ListPopBack == NameRow({}, XListPopBackRequest, {"ListName"}, XListPopBackResponse, FoundMiss({"Back"}))
ListFetch ==
    NameRow({}, XListFetchRequest, {"ListName", "StartIndex", "EndIndex"},
            XListFetchResponse, FoundMiss({"Values"}))
ListLength == NameRow({}, XListLengthRequest, {"ListName"}, XListLengthResponse, FoundMiss({"Length"}))
ListRemoveValue ==
    NameRow({"value"}, XListRemoveRequest, {"ListName", "Remove"},
            XListRemoveResponse, Success(XListRemoveResponse, {}))

SetAddElements ==
    NameRow({"values", "collectionTtl"}, XSetUnionRequest, {"SetName", "Elements"} \cup TtlFields,
            XSetUnionResponse, Success(XSetUnionResponse, {}))
SetAddElement == OneOf(SetAddElements, "values", "value")
SetRemoveElements ==
    NameRow({"values"}, XSetDifferenceRequest \cup XSetDifferenceRequest_XSubtrahend
                            \cup XSetDifferenceRequest_XSubtrahend_XSet,
            {"SetName", "Difference", "SubtrahendSet", "Elements"},
            XSetDifferenceResponse, Success(XSetDifferenceResponse, {}))
SetRemoveElement == OneOf(SetRemoveElements, "values", "value")
SetContainsElements ==
    NameRow({"unchecked"}, XSetContainsRequest, {"SetName", "Elements"},
            XSetContainsResponse, FoundMiss({"Contains"}))
SetFetch == NameRow({}, XSetFetchRequest, {"SetName"}, XSetFetchResponse, FoundMiss({"Elements"}))
SetLength == NameRow({}, XSetLengthRequest, {"SetName"}, XSetLengthResponse, FoundMiss({"Length"}))
SetPop == NameRow({}, XSetPopRequest, {"SetName", "Count"}, XSetPopResponse, FoundMiss({"Elements"}))

SortedSetFetchByRank ==
    NameRow({"ranks"}, XSortedSetFetchRequest \cup XSortedSetFetchRequest_XByIndex,
            {"SetName", "Order", "WithScores", "Range", "Start", "End"},
            XSortedSetFetchResponse, FoundMiss({"Elements", "Value", "Score"}))
SortedSetFetchByScore ==
    NameRow({}, XSortedSetFetchRequest \cup XSortedSetFetchRequest_XByScore
                    \cup XSortedSetFetchRequest_XByScore_XScore,
            {"SetName", "Order", "WithScores", "Range", "Min", "Max", "Offset", "Count", "Score", "Exclusive"},
            XSortedSetFetchResponse, FoundMiss({"Elements", "Value", "Score"}))
SortedSetGetRank ==
    NameRow({"value"}, XSortedSetGetRankRequest, {"SetName", "Value", "Order"},
            XSortedSetGetRankResponse, [Hit |-> Tells("Hit", {"Result", "Rank"}), Miss |-> Says("Miss"), Missing |-> Says("Miss")])
SortedSetGetScores ==
    [NameRow({"values"}, XSortedSetGetScoreRequest, {"SetName", "Values"},
             XSortedSetGetScoreResponse, FoundMiss({"Elements", "Result", "Score"}))
        EXCEPT !.parts = [Hit |-> "Hit", Miss |-> "Miss", Ok |-> "Invalid", Invalid |-> "Invalid"]]
SortedSetGetScore == OneOf(SortedSetGetScores, "values", "value")
SortedSetLength == NameRow({}, XSortedSetLengthRequest, {"SetName"},
                           XSortedSetLengthResponse, FoundMiss({"Length"}))
SortedSetLengthByScore ==
    NameRow({}, XSortedSetLengthByScoreRequest, {"SetName", "Min", "Max"},
            XSortedSetLengthByScoreResponse, FoundMiss({"Length"}))
SortedSetPutElements ==
    NameRow({"values", "collectionTtl"}, XSortedSetPutRequest \cup XSortedSetElement,
            {"SetName", "Elements", "Value", "Score"} \cup TtlFields,
            XSortedSetPutResponse, Success(XSortedSetPutResponse, {}))
SortedSetPutElement == OneOf(SortedSetPutElements, "values", "value")
SortedSetRemoveElements ==
    NameRow({"values"}, XSortedSetRemoveRequest \cup XSortedSetRemoveRequest_XSome,
            {"SetName", "RemoveElements", "Values"},
            XSortedSetRemoveResponse, Success(XSortedSetRemoveResponse, {}))
SortedSetRemoveElement == OneOf(SortedSetRemoveElements, "values", "value")
SortedSetIncrementScore ==
    NameRow({"value", "collectionTtl", "amount"}, XSortedSetIncrementRequest,
            {"SetName", "Value", "Amount"} \cup TtlFields,
            XSortedSetIncrementResponse, Success(XSortedSetIncrementResponse, {"Score"}))

-----------------------------------------------------------------------------
(* The control and ping services *)

ControlRow(prepare, request, sets, replies, fields) ==
    Row("control", prepare, request, sets, replies, Success(replies, fields))

CreateCache ==
    [ControlRow({"cacheName"}, XCreateCacheRequest, {"CacheName"},
                XCreateCacheResponse, {})
        EXCEPT !.onError = [AlreadyExistsError |-> "AlreadyExists"]]
DeleteCache ==
    [ControlRow({"cacheName"}, XDeleteCacheRequest, {"CacheName"},
                XDeleteCacheResponse, {}) EXCEPT !.onError = [NotFoundError |-> "Success"]]
\* A list is asked for from its beginning: the request given to the service is
\* empty, whatever page token the last reply came with.
ListCaches ==
    ControlRow({}, XListCachesRequest, {},
               XListCachesResponse, {"Cache", "NextToken", "CacheName"})
Ping == [Row("ping", {}, XPingRequest, {},
             XPingResponse, Success(XPingResponse, {})) EXCEPT !.metadata = FALSE]

-----------------------------------------------------------------------------
(* Topics (publishing; subscriptions are in TopicStreams.tla), leaderboards *)

Publish ==
    [Row("topic", {"cacheName", "name", "value"}, XPublishRequest \cup XTopicValue,
         {"CacheName", "Topic", "Value", "Kind"}, XEmpty, Success(XEmpty, {})) EXCEPT !.timeout = FALSE]

LeaderboardRow(prepare, request, sets, replies, fields) ==
    Row("leaderboard", prepare \cup {"cacheName", "name"}, request, sets \cup {"CacheName", "Leaderboard"},
        replies, Success(replies, fields))

Ranked == {"Elements", "Id", "Rank", "Score"}

LeaderboardDelete == LeaderboardRow({}, XDeleteLeaderboardRequest, {}, XEmpty, {})
LeaderboardFetchByRank ==
    LeaderboardRow({"rankRange"}, XGetByRankRequest \cup XRankRange,
                   {"RankRange", "StartInclusive", "EndExclusive", "Order"}, XGetByRankResponse, Ranked)
LeaderboardFetchByScore ==
    LeaderboardRow({"scoreRange"}, XGetByScoreRequest \cup XScoreRange,
                   {"ScoreRange", "Min", "Max", "Offset", "LimitElements", "Order"},
                   XGetByScoreResponse, Ranked)
LeaderboardGetRank == LeaderboardRow({}, XGetRankRequest, {"Ids", "Order"}, XGetRankResponse, Ranked)
LeaderboardLength ==
    LeaderboardRow({}, XGetLeaderboardLengthRequest, {}, XGetLeaderboardLengthResponse, {"Count"})
LeaderboardRemoveElements == LeaderboardRow({"ids"}, XRemoveElementsRequest, {"Ids"}, XEmpty, {})
LeaderboardUpsert ==
    LeaderboardRow({"ids"}, XUpsertElementsRequest \cup XElement, {"Elements", "Id", "Score"}, XEmpty, {})

-----------------------------------------------------------------------------
(* The storage client.  "name" is the store's name.                        *)

\* As written, the code looks for the cache's code among a store's errors.
CreateStore ==
    [ControlRow({"name"}, XCreateStoreRequest, {"StoreName"},
                XCreateStoreResponse, {})
        EXCEPT !.onError = [AlreadyExistsError |-> "AlreadyExists"]]
DeleteStore ==
    [ControlRow({"name"}, XDeleteStoreRequest, {"StoreName"},
                XDeleteStoreResponse, {})
        EXCEPT !.errorAs = [NotFoundError |-> "StoreNotFoundError"]]
ListStores ==
    ControlRow({}, XListStoresRequest, {},
               XListStoresResponse, {"Store", "NextToken", "StoreName"})

StorageRow(prepare, request, sets, replies, interpret) ==
    Row("store", prepare \cup {"name", "storeKey"}, request, sets, replies, interpret)

\* An alternative, which comes in the field Value, becomes the kind of value it is.
StoredValue(case, kind) == Tells(kind, {"Value", case})

StorageGetRow(onError) ==
    [StorageRow({}, XStoreGetRequest, {"Key"}, XStoreGetResponse,
        [BytesValue |-> StoredValue("BytesValue", "Bytes"), StringValue |-> StoredValue("StringValue", "String"),
         IntegerValue |-> StoredValue("IntegerValue", "Integer"), DoubleValue |-> StoredValue("DoubleValue", "Float")])
        EXCEPT !.onError = onError, !.unexpected = "UnknownServiceError"]

\* Mutant: any NotFound is read as a missing item.
StorageGetMutant == StorageGetRow([ItemNotFoundError |-> "Nil", StoreNotFoundError |-> "Nil"])

StorageGet == StorageGetRow([ItemNotFoundError |-> "Nil"])
StoragePut ==
    StorageRow({"value"}, XStorePutRequest, {"Key", "Value"},
               XStorePutResponse, Success(XStorePutResponse, {}))
StorageDelete ==
    StorageRow({}, XStoreDeleteRequest, {"Key"},
               XStoreDeleteResponse, Success(XStoreDeleteResponse, {}))

-----------------------------------------------------------------------------
(* The auth client *)

AuthRow(prepare, request, sets, replies, fields) ==
    [Row("auth", prepare, request, sets, replies, Success(replies, fields))
        EXCEPT !.metadata = FALSE, !.timeout = FALSE]

\* The permissions come in two messages more.
GenerateApiKey ==
    AuthRow({"keyExpiry", "keyScope"},
            XGenerateApiTokenRequest \cup XGenerateApiTokenRequest_Expires \cup Permissions \cup ExplicitPermissions,
            {"Permissions", "AuthToken", "Expiry", "ValidForSeconds", "Kind"},
            XGenerateApiTokenResponse, {"ApiKey", "RefreshToken", "Endpoint", "ValidUntil"})
RefreshApiKey ==
    AuthRow({}, XRefreshApiTokenRequest, {"ApiKey", "RefreshToken"},
            XRefreshApiTokenResponse, {"ApiKey", "RefreshToken", "Endpoint", "ValidUntil"})
\* The token client converts the error and the auth client converts it again:
\* a converted error is not a status, and every code becomes ClientSdkError.
GenerateDisposableToken ==
    [AuthRow({"tokenExpiry", "tokenScope"},
             XGenerateDisposableTokenRequest \cup XGenerateDisposableTokenRequest_Expires
                \cup Permissions \cup ExplicitPermissions,
             {"Expires", "AuthToken", "Permissions", "TokenId", "ValidForSeconds", "Kind"},
             XGenerateDisposableTokenResponse, {"ApiKey", "Endpoint", "ValidUntil"})
        EXCEPT !.metadata = TRUE, !.errorAs = [code \in ErrorCodes |-> "ClientSdkError"]]

-----------------------------------------------------------------------------
\* The operations of the CacheClient interface, and those of the other clients.
CacheClientOperations ==
    [Get |-> Get, Set |-> Set, Delete |-> Delete, KeysExist |-> KeysExist,
     Increment |-> Increment, ItemGetType |-> ItemGetType, ItemGetTtl |-> ItemGetTtl,
     UpdateTtl |-> UpdateTtl, IncreaseTtl |-> IncreaseTtl, DecreaseTtl |-> DecreaseTtl,
     SetIfNotExists |-> SetIfNotExists, SetIfAbsent |-> SetIfAbsent,
     SetIfPresent |-> SetIfPresent, SetIfEqual |-> SetIfEqual, SetIfNotEqual |-> SetIfNotEqual,
     SetIfPresentAndNotEqual |-> SetIfPresentAndNotEqual,
     SetIfAbsentOrEqual |-> SetIfAbsentOrEqual, GetBatch |-> GetBatch, SetBatch |-> SetBatch,
     DictionaryFetch |-> DictionaryFetch, DictionaryLength |-> DictionaryLength,
     DictionaryGetFields |-> DictionaryGetFields, DictionarySetFields |-> DictionarySetFields,
     DictionaryIncrement |-> DictionaryIncrement,
     DictionaryRemoveFields |-> DictionaryRemoveFields,
     DictionarySetField |-> DictionarySetField, DictionaryGetField |-> DictionaryGetField,
     DictionaryRemoveField |-> DictionaryRemoveField, ListPushFront |-> ListPushFront,
     ListPushBack |-> ListPushBack, ListConcatenateFront |-> ListConcatenateFront,
     ListConcatenateBack |-> ListConcatenateBack, ListPopFront |-> ListPopFront,
     ListPopBack |-> ListPopBack, ListFetch |-> ListFetch, ListLength |-> ListLength,
     ListRemoveValue |-> ListRemoveValue, SetAddElements |-> SetAddElements,
     SetAddElement |-> SetAddElement, SetRemoveElements |-> SetRemoveElements,
     SetRemoveElement |-> SetRemoveElement, SetContainsElements |-> SetContainsElements,
     SetFetch |-> SetFetch, SetLength |-> SetLength, SetPop |-> SetPop,
     SortedSetFetchByRank |-> SortedSetFetchByRank,
     SortedSetFetchByScore |-> SortedSetFetchByScore, SortedSetGetRank |-> SortedSetGetRank,
     SortedSetGetScores |-> SortedSetGetScores, SortedSetGetScore |-> SortedSetGetScore,
     SortedSetLength |-> SortedSetLength, SortedSetLengthByScore |-> SortedSetLengthByScore,
     SortedSetPutElements |-> SortedSetPutElements, SortedSetPutElement |-> SortedSetPutElement,
     SortedSetRemoveElements |-> SortedSetRemoveElements,
     SortedSetRemoveElement |-> SortedSetRemoveElement,
     SortedSetIncrementScore |-> SortedSetIncrementScore, CreateCache |-> CreateCache,
     DeleteCache |-> DeleteCache, ListCaches |-> ListCaches, Ping |-> Ping]

OtherOperations ==
    [Publish |-> Publish, LeaderboardDelete |-> LeaderboardDelete,
     LeaderboardFetchByRank |-> LeaderboardFetchByRank,
     LeaderboardFetchByScore |-> LeaderboardFetchByScore,
     LeaderboardGetRank |-> LeaderboardGetRank, LeaderboardLength |-> LeaderboardLength,
     LeaderboardRemoveElements |-> LeaderboardRemoveElements,
     LeaderboardUpsert |-> LeaderboardUpsert, CreateStore |-> CreateStore,
     DeleteStore |-> DeleteStore, ListStores |-> ListStores, StorageGet |-> StorageGet,
     StoragePut |-> StoragePut, StorageDelete |-> StorageDelete,
     GenerateApiKey |-> GenerateApiKey, RefreshApiKey |-> RefreshApiKey,
     GenerateDisposableToken |-> GenerateDisposableToken]

Operations ==
    [op \in DOMAIN CacheClientOperations \cup DOMAIN OtherOperations |->
        IF op \in DOMAIN CacheClientOperations THEN CacheClientOperations[op] ELSE OtherOperations[op]]

=============================================================================
