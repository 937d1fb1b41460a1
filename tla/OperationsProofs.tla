-------------------------- MODULE OperationsProofs --------------------------
(***************************************************************************)
(* Facts about the operations: what every row of the table has in common,  *)
(* and what the operators that prepare a message and read an error return. *)
(* RequestsProofs draws on them and on nothing else of the table.          *)
(***************************************************************************)
EXTENDS CacheOperations, TLAPS

\* The checks of an operation fit what it sends.
Checks(op, r) ==
    /\ r.service = "cache" => "cacheName" \in r.prepare
    /\ r.service = "auth" => op \in {"GenerateApiKey", "GenerateDisposableToken", "RefreshApiKey"}
    /\ op = "GenerateApiKey" => r.prepare = {"keyExpiry", "keyScope"}
    /\ op = "GenerateDisposableToken" => r.prepare = {"tokenExpiry", "tokenScope"}
    /\ op = "GetBatch" => r.prepare = {"cacheName", "unchecked"}
    /\ "unchecked" \in r.prepare => op \in {"GetBatch", "SetBatch", "SetContainsElements"}
    /\ "uncheckedValue" \in r.prepare => op = "SetBatch"
    /\ r.prepare \cap {"keyScope", "tokenScope"} # {} => op \in {"GenerateApiKey", "GenerateDisposableToken"}
    /\ r.prepare \cap {"key", "storeKey", "field", "element"} # {} => r.prepare \cap Lists = {}
    /\ "ttl" \in r.prepare => r.prepare \cap {"collectionTtl", "updateTtl"} = {}
    /\ "collectionTtl" \in r.prepare => "updateTtl" \notin r.prepare
    /\ "RefreshTtl" \in r.request => "collectionTtl" \in r.prepare /\ "RefreshTtl" \in r.sets
    /\ op = "GenerateApiKey" => r.request \ r.sets = {"TokenId", "Description"}
    /\ op \in {"ListCaches", "ListStores"} => r.request \ r.sets = {"NextToken"}
    /\ op \notin {"GenerateApiKey", "ListCaches", "ListStores"} => r.request \ r.sets = {}
    /\ r.asks \in {""} \cup isXSetIfRequest_Condition \cup isXUpdateTtlRequest_UpdateTtl

\* The alternative that each conditional operation asks with.
Asked ==
    [SetIfNotExists |-> "Absent", SetIfAbsent |-> "Absent", SetIfPresent |-> "Present", SetIfEqual |-> "Equal",
     SetIfNotEqual |-> "NotEqual", SetIfPresentAndNotEqual |-> "PresentAndNotEqual",
     SetIfAbsentOrEqual |-> "AbsentOrEqual", UpdateTtl |-> "OverwriteToMilliseconds",
     IncreaseTtl |-> "IncreaseToMilliseconds", DecreaseTtl |-> "DecreaseToMilliseconds"]

\* What an operation passes on of a reply, and what it makes of it.
Reads(op, r) == \A reply \in DOMAIN r.replies \cap DOMAIN r.interpret :
    LET what == r.interpret[reply].what
        dropped == r.replies[reply] \ r.interpret[reply].tells
    IN /\ op \in {"Get", "GetBatch"} =>
              dropped = {"Message"} \cup (IF reply = "Miss" THEN {"CacheBody"} ELSE {})
       /\ op \in {"Set", "SetBatch"} => dropped = {"Message"}
       /\ op \in {"ListPopFront", "ListPopBack", "ListRemoveValue"} =>
              dropped = IF reply = "Found" THEN {"ListLength"} ELSE {}
       /\ op = "ListCaches" => dropped = {"CacheLimits", "TopicLimits"}
       /\ op = "SortedSetGetRank" => dropped = IF reply = "Miss" THEN {"Result", "Rank"} ELSE {}
       /\ op \notin {"Get", "GetBatch", "Set", "SetBatch", "ListPopFront", "ListPopBack", "ListRemoveValue",
                     "ListCaches", "SortedSetGetRank"} => dropped = {}
       /\ reply \in {"Missing", "Miss"} =>
              what = IF op \in {"Set", "ListRemoveValue", "SetRemoveElements", "SetRemoveElement"}
                     THEN "Success" ELSE "Miss"
       /\ what \in {"Stored", "Set"} => what = reply /\ op \in DOMAIN Asked /\ r.asks = Asked[op]

\* Which errors become an answer, which are given another code, and where the
\* trailer is read.
Errors(op, r) ==
    /\ \A code \in DOMAIN r.onError :
          /\ r.onError[code] \notin {"Stored", "Set"}
          /\ \/ op \in {"CreateCache", "CreateStore"} /\ code = "AlreadyExistsError"
             \/ op = "DeleteCache" /\ code = "NotFoundError"
             \/ op = "StorageGet" /\ code = "ItemNotFoundError"
    /\ op \in {"CreateCache", "CreateStore"} => "AlreadyExistsError" \in DOMAIN r.onError
    /\ op = "DeleteCache" => "NotFoundError" \in DOMAIN r.onError
    /\ op = "StorageGet" => "ItemNotFoundError" \in DOMAIN r.onError
    /\ IF op \in {"GetBatch", "SetBatch", "Ping", "GenerateApiKey", "RefreshApiKey"} THEN ~r.metadata ELSE r.metadata
    /\ op = "GenerateDisposableToken" => r.errorAs = [code \in ErrorCodes |-> "ClientSdkError"]
    /\ op = "DeleteStore" =>
          DOMAIN r.errorAs = {"NotFoundError"} /\ r.errorAs["NotFoundError"] = "StoreNotFoundError"
    /\ op \notin {"GenerateDisposableToken", "DeleteStore"} => DOMAIN r.errorAs = {}

Facts(op, r) == Checks(op, r) /\ Reads(op, r) /\ Errors(op, r)

-----------------------------------------------------------------------------
(* The table *)

\* Row by row, for the cache client ...
LEMMA CacheClientRows == \A op \in DOMAIN CacheClientOperations : Facts(op, CacheClientOperations[op])
<1> USE DEF Facts, Checks, Reads, Errors, Asked, Lists, isXSetIfRequest_Condition,
    isXUpdateTtlRequest_UpdateTtl, CacheRow, Row, XGetRequest, XGetResponse, HitMiss,
    Tells, Says, XSetRequest, XSetResponse, Success, XDeleteRequest, XDeleteResponse,
    Reply, XKeysExistRequest, XKeysExistResponse, XIncrementRequest,
    XIncrementResponse, XItemGetTypeRequest, XItemGetTypeResponse, FoundOrMissing,
    XItemGetTypeResponse_XFound, FoundMiss, XItemGetTtlRequest, XItemGetTtlResponse,
    XItemGetTtlResponse_XFound, TtlRow, XUpdateTtlRequest, XUpdateTtlResponse,
    OneOfCases, SetIfRow, XSetIfRequest, XSetIfResponse, StoredOrNot, ComparingRow,
    Equal, NotEqual, PresentAndNotEqual, AbsentOrEqual, BatchRow, XGetBatchRequest,
    XSetBatchRequest, NameRow, XDictionaryFetchRequest, XDictionaryFetchResponse,
    XDictionaryFetchResponse_XFound, XDictionaryFieldValuePair,
    XDictionaryLengthRequest, XDictionaryLengthResponse,
    XDictionaryLengthResponse_XFound, XDictionaryGetRequest, XDictionaryGetResponse,
    XDictionaryGetResponse_XFound, XDictionaryGetResponse_XDictionaryGetResponsePart,
    XDictionarySetRequest, TtlFields, XDictionarySetResponse,
    XDictionaryIncrementRequest, XDictionaryIncrementResponse,
    XDictionaryDeleteRequest, XDictionaryDeleteRequest_Some,
    XDictionaryDeleteResponse, OneOf, ListPush, XListPushFrontRequest,
    XListPushFrontResponse, XListPushBackRequest, XListPushBackResponse,
    ListConcatenate, XListConcatenateFrontRequest, XListConcatenateFrontResponse,
    XListConcatenateBackRequest, XListConcatenateBackResponse, XListPopFrontRequest,
    XListPopFrontResponse, XListPopFrontResponse_XFound, XListPopBackRequest,
    XListPopBackResponse, XListPopBackResponse_XFound, XListFetchRequest,
    XListFetchResponse, XListFetchResponse_XFound, XListLengthRequest,
    XListLengthResponse, XListLengthResponse_XFound, XListRemoveRequest,
    XListRemoveResponse, XListRemoveResponse_XFound, XSetUnionRequest,
    XSetUnionResponse, XSetDifferenceRequest, XSetDifferenceRequest_XSubtrahend,
    XSetDifferenceRequest_XSubtrahend_XSet, XSetDifferenceResponse,
    XSetDifferenceResponse_XFound, XSetContainsRequest, XSetContainsResponse,
    XSetContainsResponse_XFound, XSetFetchRequest, XSetFetchResponse,
    XSetFetchResponse_XFound, XSetLengthRequest, XSetLengthResponse,
    XSetLengthResponse_XFound, XSetPopRequest, XSetPopResponse,
    XSetPopResponse_XFound, XSortedSetFetchRequest, XSortedSetFetchRequest_XByIndex,
    XSortedSetFetchResponse, XSortedSetFetchResponse_XFound_XValuesWithScores,
    XSortedSetElement, XSortedSetFetchRequest_XByScore,
    XSortedSetFetchRequest_XByScore_XScore, XSortedSetGetRankRequest,
    XSortedSetGetRankResponse, ECacheResult,
    XSortedSetGetRankResponse_XRankResponsePart, XSortedSetGetScoreRequest,
    XSortedSetGetScoreResponse, XSortedSetGetScoreResponse_XSortedSetFound,
    XSortedSetGetScoreResponse_XSortedSetGetScoreResponsePart,
    XSortedSetLengthRequest, XSortedSetLengthResponse,
    XSortedSetLengthResponse_XFound, XSortedSetLengthByScoreRequest,
    XSortedSetLengthByScoreResponse, XSortedSetLengthByScoreResponse_XFound,
    XSortedSetPutRequest, XSortedSetPutResponse, XSortedSetRemoveRequest,
    XSortedSetRemoveRequest_XSome, XSortedSetRemoveResponse,
    XSortedSetIncrementRequest, XSortedSetIncrementResponse, ControlRow,
    XCreateCacheRequest, XCreateCacheResponse, XDeleteCacheRequest,
    XDeleteCacheResponse, XListCachesRequest, XListCachesResponse, XCache,
    XPingRequest, XPingResponse
<1>1. Facts("Get", Get)
  BY DEF Get
<1>2. Facts("Set", Set)
  BY DEF Set
<1>3. Facts("Delete", Delete)
  BY DEF Delete
<1>4. Facts("KeysExist", KeysExist)
  BY DEF KeysExist
<1>5. Facts("Increment", Increment)
  BY DEF Increment
<1>6. Facts("ItemGetType", ItemGetType)
  BY DEF ItemGetType
<1>7. Facts("ItemGetTtl", ItemGetTtl)
  BY DEF ItemGetTtl
<1>8. Facts("UpdateTtl", UpdateTtl)
  BY DEF UpdateTtl
<1>9. Facts("IncreaseTtl", IncreaseTtl)
  BY DEF IncreaseTtl
<1>10. Facts("DecreaseTtl", DecreaseTtl)
  BY DEF DecreaseTtl
<1>11. Facts("SetIfNotExists", SetIfNotExists)
  BY DEF SetIfNotExists
<1>12. Facts("SetIfAbsent", SetIfAbsent)
  BY DEF SetIfAbsent
<1>13. Facts("SetIfPresent", SetIfPresent)
  BY DEF SetIfPresent
<1>14. Facts("SetIfEqual", SetIfEqual)
  BY DEF SetIfEqual
<1>15. Facts("SetIfNotEqual", SetIfNotEqual)
  BY DEF SetIfNotEqual
<1>16. Facts("SetIfPresentAndNotEqual", SetIfPresentAndNotEqual)
  BY DEF SetIfPresentAndNotEqual
<1>17. Facts("SetIfAbsentOrEqual", SetIfAbsentOrEqual)
  BY DEF SetIfAbsentOrEqual
<1>18. Facts("GetBatch", GetBatch)
  BY DEF GetBatch
<1>19. Facts("SetBatch", SetBatch)
  BY DEF SetBatch
<1>20. Facts("DictionaryFetch", DictionaryFetch)
  BY DEF DictionaryFetch
<1>21. Facts("DictionaryLength", DictionaryLength)
  BY DEF DictionaryLength
<1>22. Facts("DictionaryGetFields", DictionaryGetFields)
  BY DEF DictionaryGetFields
<1>23. Facts("DictionarySetFields", DictionarySetFields)
  BY DEF DictionarySetFields
<1>24. Facts("DictionaryIncrement", DictionaryIncrement)
  BY DEF DictionaryIncrement
<1>25. Facts("DictionaryRemoveFields", DictionaryRemoveFields)
  BY DEF DictionaryRemoveFields
<1>26. Facts("DictionarySetField", DictionarySetField)
  BY DEF DictionarySetField, DictionarySetFields
<1>27. Facts("DictionaryGetField", DictionaryGetField)
  BY DEF DictionaryGetField, DictionaryGetFields
<1>28. Facts("DictionaryRemoveField", DictionaryRemoveField)
  BY DEF DictionaryRemoveField, DictionaryRemoveFields
<1>29. Facts("ListPushFront", ListPushFront)
  BY DEF ListPushFront
<1>30. Facts("ListPushBack", ListPushBack)
  BY DEF ListPushBack
<1>31. Facts("ListConcatenateFront", ListConcatenateFront)
  BY DEF ListConcatenateFront
<1>32. Facts("ListConcatenateBack", ListConcatenateBack)
  BY DEF ListConcatenateBack
<1>33. Facts("ListPopFront", ListPopFront)
  BY DEF ListPopFront
<1>34. Facts("ListPopBack", ListPopBack)
  BY DEF ListPopBack
<1>35. Facts("ListFetch", ListFetch)
  BY DEF ListFetch
<1>36. Facts("ListLength", ListLength)
  BY DEF ListLength
<1>37. Facts("ListRemoveValue", ListRemoveValue)
  BY DEF ListRemoveValue
<1>38. Facts("SetAddElements", SetAddElements)
  BY DEF SetAddElements
<1>39. Facts("SetAddElement", SetAddElement)
  BY DEF SetAddElement, SetAddElements
<1>40. Facts("SetRemoveElements", SetRemoveElements)
  BY DEF SetRemoveElements
<1>41. Facts("SetRemoveElement", SetRemoveElement)
  BY DEF SetRemoveElement, SetRemoveElements
<1>42. Facts("SetContainsElements", SetContainsElements)
  BY DEF SetContainsElements
<1>43. Facts("SetFetch", SetFetch)
  BY DEF SetFetch
<1>44. Facts("SetLength", SetLength)
  BY DEF SetLength
<1>45. Facts("SetPop", SetPop)
  BY DEF SetPop
<1>46. Facts("SortedSetFetchByRank", SortedSetFetchByRank)
  BY DEF SortedSetFetchByRank
<1>47. Facts("SortedSetFetchByScore", SortedSetFetchByScore)
  BY DEF SortedSetFetchByScore
<1>48. Facts("SortedSetGetRank", SortedSetGetRank)
  BY DEF SortedSetGetRank
<1>49. Facts("SortedSetGetScores", SortedSetGetScores)
  BY DEF SortedSetGetScores
<1>50. Facts("SortedSetGetScore", SortedSetGetScore)
  BY DEF SortedSetGetScore, SortedSetGetScores
<1>51. Facts("SortedSetLength", SortedSetLength)
  BY DEF SortedSetLength
<1>52. Facts("SortedSetLengthByScore", SortedSetLengthByScore)
  BY DEF SortedSetLengthByScore
<1>53. Facts("SortedSetPutElements", SortedSetPutElements)
  BY DEF SortedSetPutElements
<1>54. Facts("SortedSetPutElement", SortedSetPutElement)
  BY DEF SortedSetPutElement, SortedSetPutElements
<1>55. Facts("SortedSetRemoveElements", SortedSetRemoveElements)
  BY DEF SortedSetRemoveElements
<1>56. Facts("SortedSetRemoveElement", SortedSetRemoveElement)
  BY DEF SortedSetRemoveElement, SortedSetRemoveElements
<1>57. Facts("SortedSetIncrementScore", SortedSetIncrementScore)
  BY DEF SortedSetIncrementScore
<1>58. Facts("CreateCache", CreateCache)
  BY DEF CreateCache
<1>59. Facts("DeleteCache", DeleteCache)
  BY DEF DeleteCache
<1>60. Facts("ListCaches", ListCaches)
  BY DEF ListCaches
<1>61. Facts("Ping", Ping)
  BY DEF Ping
<1> HIDE DEF Facts
<1> QED
  BY <1>1, <1>2, <1>3, <1>4, <1>5, <1>6, <1>7, <1>8, <1>9, <1>10, <1>11, <1>12,
     <1>13, <1>14, <1>15, <1>16, <1>17, <1>18, <1>19, <1>20, <1>21, <1>22, <1>23,
     <1>24, <1>25, <1>26, <1>27, <1>28, <1>29, <1>30, <1>31, <1>32, <1>33, <1>34,
     <1>35, <1>36, <1>37, <1>38, <1>39, <1>40, <1>41, <1>42, <1>43, <1>44, <1>45,
     <1>46, <1>47, <1>48, <1>49, <1>50, <1>51, <1>52, <1>53, <1>54, <1>55, <1>56,
     <1>57, <1>58, <1>59, <1>60, <1>61
  DEF CacheClientOperations

\* ... and for the other clients.
LEMMA OtherRows == \A op \in DOMAIN OtherOperations : Facts(op, OtherOperations[op])
<1> USE DEF Facts, Checks, Reads, Errors, Asked, Lists, isXSetIfRequest_Condition,
    isXUpdateTtlRequest_UpdateTtl, Row, XPublishRequest, XTopicValue, XEmpty, Reply,
    Success, Tells, LeaderboardRow, XDeleteLeaderboardRequest, XGetByRankRequest,
    XRankRange, XGetByRankResponse, XRankedElement, Ranked, XGetByScoreRequest,
    XScoreRange, XGetByScoreResponse, XGetRankRequest, XGetRankResponse,
    XGetLeaderboardLengthRequest, XGetLeaderboardLengthResponse,
    XRemoveElementsRequest, XUpsertElementsRequest, XElement, ControlRow,
    XCreateStoreRequest, XCreateStoreResponse, XDeleteStoreRequest,
    XDeleteStoreResponse, XListStoresRequest, XListStoresResponse, XStore,
    StorageGetRow, StorageRow, XStoreGetRequest, XStoreGetResponse, XStoreValue,
    StoredValue, XStorePutRequest, XStorePutResponse, XStoreDeleteRequest,
    XStoreDeleteResponse, AuthRow, XGenerateApiTokenRequest,
    XGenerateApiTokenRequest_Expires, Permissions, ExplicitPermissions,
    XGenerateApiTokenResponse, XRefreshApiTokenRequest, XRefreshApiTokenResponse,
    XGenerateDisposableTokenRequest, XGenerateDisposableTokenRequest_Expires,
    XGenerateDisposableTokenResponse
<1>1. Facts("Publish", Publish)
  BY DEF Publish
<1>2. Facts("LeaderboardDelete", LeaderboardDelete)
  BY DEF LeaderboardDelete
<1>3. Facts("LeaderboardFetchByRank", LeaderboardFetchByRank)
  BY DEF LeaderboardFetchByRank
<1>4. Facts("LeaderboardFetchByScore", LeaderboardFetchByScore)
  BY DEF LeaderboardFetchByScore
<1>5. Facts("LeaderboardGetRank", LeaderboardGetRank)
  BY DEF LeaderboardGetRank
<1>6. Facts("LeaderboardLength", LeaderboardLength)
  BY DEF LeaderboardLength
<1>7. Facts("LeaderboardRemoveElements", LeaderboardRemoveElements)
  BY DEF LeaderboardRemoveElements
<1>8. Facts("LeaderboardUpsert", LeaderboardUpsert)
  BY DEF LeaderboardUpsert
<1>9. Facts("CreateStore", CreateStore)
  BY DEF CreateStore
<1>10. Facts("DeleteStore", DeleteStore)
  BY DEF DeleteStore
<1>11. Facts("ListStores", ListStores)
  BY DEF ListStores
<1>12. Facts("StorageGet", StorageGet)
  BY DEF StorageGet
<1>13. Facts("StoragePut", StoragePut)
  BY DEF StoragePut
<1>14. Facts("StorageDelete", StorageDelete)
  BY DEF StorageDelete
<1>15. Facts("GenerateApiKey", GenerateApiKey)
  BY DEF GenerateApiKey
<1>16. Facts("RefreshApiKey", RefreshApiKey)
  BY DEF RefreshApiKey
<1>17. Facts("GenerateDisposableToken", GenerateDisposableToken)
  BY DEF GenerateDisposableToken
<1> HIDE DEF Facts
<1> QED
  BY <1>1, <1>2, <1>3, <1>4, <1>5, <1>6, <1>7, <1>8, <1>9, <1>10, <1>11, <1>12,
     <1>13, <1>14, <1>15, <1>16, <1>17
  DEF OtherOperations

\* Every row has the facts.
LEMMA Rows == \A op \in DOMAIN Operations : Facts(op, Operations[op])
  BY CacheClientRows, OtherRows DEF Operations

-----------------------------------------------------------------------------
(* Messages *)

\* What a call that is not refused has been checked for.
LEMMA Accepted ==
  ASSUME NEW r, NEW a, NEW d, ~Refuses(r, a, d)
  PROVE  /\ "cacheName" \in r.prepare => prepareName(a.cache)
         /\ "name" \in r.prepare => prepareName(a.name)
         /\ "key" \in r.prepare \/ "field" \in r.prepare => validateNotEmpty(a.item)
         /\ "storeKey" \in r.prepare => a.item \notin {"empty", "nil"}
         /\ "element" \in r.prepare => validateNotEmpty(a.item) /\ validateNotNil(a.value)
         /\ "keys" \in r.prepare => prepareKeys(a)
         /\ "fields" \in r.prepare => prepareFields(a)
         /\ "values" \in r.prepare => momentoValuesToPrimitiveByteList(a)
         /\ "elements" \in r.prepare => prepareDictionaryElements(a)
         /\ "value" \in r.prepare => validateNotNil(a.value)
         /\ "other" \in r.prepare => validateNotNil(a.other)
         /\ "ttl" \in r.prepare => prepareTtl(a, d)
         /\ "collectionTtl" \in r.prepare => prepareCollectionTtl(a)
         /\ "updateTtl" \in r.prepare => prepareUpdateTtl(a)
         /\ "keyExpiry" \in r.prepare => ValidateApiKeyExpiry(a)
         /\ "tokenExpiry" \in r.prepare => ValidateDisposableTokenExpiry(a)
<1>1. \A s \in r.prepare \ {"keyScope"} : Accepts(a, d)[s]
  BY DEF Refuses
<1>2. /\ Accepts(a, d)["cacheName"] <=> prepareName(a.cache)
      /\ Accepts(a, d)["name"] <=> prepareName(a.name)
      /\ Accepts(a, d)["key"] <=> validateNotEmpty(a.item)
      /\ Accepts(a, d)["field"] <=> validateNotEmpty(a.item)
      /\ Accepts(a, d)["storeKey"] <=> (a.item \notin {"empty", "nil"})
      /\ Accepts(a, d)["element"] <=> (validateNotEmpty(a.item) /\ validateNotNil(a.value))
      /\ Accepts(a, d)["keys"] <=> prepareKeys(a)
      /\ Accepts(a, d)["fields"] <=> prepareFields(a)
      /\ Accepts(a, d)["values"] <=> momentoValuesToPrimitiveByteList(a)
      /\ Accepts(a, d)["elements"] <=> prepareDictionaryElements(a)
      /\ Accepts(a, d)["value"] <=> validateNotNil(a.value)
      /\ Accepts(a, d)["other"] <=> validateNotNil(a.other)
      /\ Accepts(a, d)["ttl"] <=> prepareTtl(a, d)
      /\ Accepts(a, d)["collectionTtl"] <=> prepareCollectionTtl(a)
      /\ Accepts(a, d)["updateTtl"] <=> prepareUpdateTtl(a)
      /\ Accepts(a, d)["keyExpiry"] <=> ValidateApiKeyExpiry(a)
      /\ Accepts(a, d)["tokenExpiry"] <=> ValidateDisposableTokenExpiry(a)
  BY DEF Accepts
<1>3. QED
  BY <1>1, <1>2

\* The alternatives, one by one.
LEMMA AskedFor == \A op \in DOMAIN Asked :
    \/ op \in {"SetIfNotExists", "SetIfAbsent"} /\ Asked[op] = "Absent"
    \/ op = "SetIfPresent" /\ Asked[op] = "Present"
    \/ op = "SetIfEqual" /\ Asked[op] = "Equal"
    \/ op = "SetIfNotEqual" /\ Asked[op] = "NotEqual"
    \/ op = "SetIfPresentAndNotEqual" /\ Asked[op] = "PresentAndNotEqual"
    \/ op = "SetIfAbsentOrEqual" /\ Asked[op] = "AbsentOrEqual"
    \/ op = "UpdateTtl" /\ Asked[op] = "OverwriteToMilliseconds"
    \/ op = "IncreaseTtl" /\ Asked[op] = "IncreaseToMilliseconds"
    \/ op = "DecreaseTtl" /\ Asked[op] = "DecreaseToMilliseconds"
BY DEF Asked

\* A message, field by field.
LEMMA MessageNames ==
  ASSUME NEW op, NEW r, NEW a, NEW d
  PROVE  Message(op, r, a, d).op = op /\ Message(op, r, a, d).asks = r.asks
BY DEF Message

LEMMA MessageElements ==
  ASSUME NEW op, NEW r, NEW a, NEW d
  PROVE  /\ a.items \in Seq(STRING) /\ a.item \in STRING => Message(op, r, a, d).items \in Seq(STRING)
         /\ "unchecked" \in r.prepare => Message(op, r, a, d).items = a.items
<1> DEFINE m == Message(op, r, a, d)
<1>1. m.items = IF r.prepare \cap Lists # {} THEN a.items
                ELSE IF r.prepare \cap {"key", "storeKey", "field", "element"} # {} THEN <<a.item>>
                ELSE <<>>
  BY DEF Message
<1>2. a.item \in STRING => <<a.item>> \in Seq(STRING)
  OBVIOUS
<1> HIDE DEF m
<1>3. a.items \in Seq(STRING) /\ a.item \in STRING => m.items \in Seq(STRING)
  <2>1. <<>> \in Seq(STRING)
    OBVIOUS
  <2>2. QED
    BY <1>1, <1>2, <2>1, Zenon
<1>4. "unchecked" \in r.prepare => m.items = a.items
  BY <1>1 DEF Lists
<1>5. QED
  BY <1>3, <1>4 DEF m

LEMMA MessageWithoutTtl ==
  ASSUME NEW op, NEW r, NEW a, NEW d, r.prepare \cap {"ttl", "collectionTtl", "updateTtl"} = {}
  PROVE  Message(op, r, a, d).ttl = 0
BY DEF Message

\* The permissions and the lifetime of a key, and of a token.
LEMMA MessageOfKey ==
  ASSUME NEW op, NEW r, NEW a, NEW d, r.prepare = {"keyExpiry", "keyScope"}
  PROVE  /\ Message(op, r, a, d).permissions = permissionsFromTokenScope(a.scope)
         /\ Message(op, r, a, d).seconds = IF a.expires = Never THEN Never ELSE uint32(a.expires)
BY DEF Message

LEMMA MessageOfToken ==
  ASSUME NEW op, NEW r, NEW a, NEW d, r.prepare = {"tokenExpiry", "tokenScope"}
  PROVE  /\ Message(op, r, a, d).permissions = disposablePermissions(a.scope)
         /\ Message(op, r, a, d).seconds = uint32(a.expires)
BY DEF Message

\* Whether a collection's TTL is renewed.
LEMMA MessageRefresh ==
  ASSUME NEW op, NEW r, NEW a, NEW d
  PROVE  Message(op, r, a, d).refresh <=> "RefreshTtl" \in r.sets /\ (a.collection = "none" \/ RefreshTtl(a))
BY DEF Message

\* The elements that go over the wire have been checked, or are numbers.
LEMMA MessageItems ==
  ASSUME NEW op, NEW r, NEW a, NEW d, Checks(op, r), ~Refuses(r, a, d), ~Panics(r, a),
         "ids" \in r.prepare => "nil" \notin ElementsOf(a.items)
  PROVE  /\ "nil" \notin ElementsOf(Message(op, r, a, d).items)
         /\ r.prepare \cap {"key", "storeKey", "keys", "field", "fields", "element", "elements"} # {} =>
               "empty" \notin ElementsOf(Message(op, r, a, d).items)
<1> DEFINE single == {"key", "storeKey", "field", "element"}
           items == Message(op, r, a, d).items
<1>1. items = IF r.prepare \cap Lists # {} THEN a.items
              ELSE IF r.prepare \cap single # {} THEN <<a.item>> ELSE <<>>
  BY DEF Message
<1>2. CASE r.prepare \cap Lists # {}
  <2>1. items = a.items /\ r.prepare \cap single = {}
    BY <1>1, <1>2 DEF Checks
  <2>2. "nil" \notin ElementsOf(a.items)
    BY <1>2, Accepted
    DEF Lists, Panics, prepareKeys, prepareFields, momentoValuesToPrimitiveByteList,
        prepareDictionaryElements, validateNotEmpty, validateNotNil
  <2>3. r.prepare \cap {"keys", "fields", "elements"} # {} => "empty" \notin ElementsOf(a.items)
    BY Accepted DEF prepareKeys, prepareFields, prepareDictionaryElements, validateNotEmpty
  <2>4. QED
    BY <2>1, <2>2, <2>3
<1>3. CASE r.prepare \cap Lists = {} /\ r.prepare \cap single # {}
  <2>1. items = <<a.item>>
    BY <1>1, <1>3
  <2>2. a.item \notin {"empty", "nil"}
    BY <1>3, Accepted DEF validateNotEmpty, validateNotNil
  <2>3. QED
    BY <2>1, <2>2 DEF ElementsOf
<1>4. CASE r.prepare \cap Lists = {} /\ r.prepare \cap single = {}
  BY <1>1, <1>4 DEF ElementsOf, Lists
<1>5. QED
  BY <1>2, <1>3, <1>4

\* So have the values and the names.
LEMMA MessageValues ==
  ASSUME NEW op, NEW r, NEW a, NEW d, Checks(op, r), ~Refuses(r, a, d), ~Panics(r, a)
  PROVE  /\ "nil" \notin Message(op, r, a, d).values
         /\ "blank" \notin {Message(op, r, a, d).cache, Message(op, r, a, d).name}
         /\ r.service = "cache" => Message(op, r, a, d).cache # ""
<1>1. "nil" \notin Message(op, r, a, d).values
  <2>1. "value" \in r.prepare \/ "element" \in r.prepare => a.value # "nil"
    BY Accepted DEF validateNotNil
  <2>2. "other" \in r.prepare => a.other # "nil"
    BY Accepted DEF validateNotNil
  <2>3. "elements" \in r.prepare => \A f \in ElementsOf(a.items) : a.value # "nil"
    BY Accepted DEF prepareDictionaryElements, validateNotNil
  <2>4. "uncheckedValue" \in r.prepare => \A f \in ElementsOf(a.items) : a.value # "nil"
    BY DEF Panics, ElementsOf, validateNotNil
  <2>5. QED
    BY <2>1, <2>2, <2>3, <2>4 DEF Message
<1>2. "cacheName" \in r.prepare => a.cache \notin {"", "blank"}
  BY Accepted DEF prepareName
<1>3. "name" \in r.prepare => a.name # "blank"
  BY Accepted DEF prepareName
<1>4. QED
  BY <1>1, <1>2, <1>3 DEF Message, Checks

-----------------------------------------------------------------------------
(* Lifetimes *)

\* A lifetime that is cut to whole milliseconds fits the wire.
LEMMA CutToMilliseconds ==
  ASSUME NEW t \in 0 .. 2 * Modulus - 1
  PROVE  LET ms == uint64(Milliseconds(t)) IN 2 * ms <= t /\ t < 2 * (ms + 1)
<1>1. t \div 2 \in 0 .. Modulus - 1 /\ 2 * (t \div 2) <= t /\ t < 2 * ((t \div 2) + 1)
  BY WidthAssumption
<1>2. (t \div 2) % Modulus = t \div 2
  BY <1>1, WidthAssumption
<1>3. QED
  BY <1>1, <1>2 DEF uint64, Milliseconds

\* Any lifetime becomes an unsigned number.
LEMMA LifetimeOnTheWire ==
  ASSUME NEW t \in Int
  PROVE  uint64(Milliseconds(t)) \in 0 .. Modulus - 1
<1>1. Milliseconds(t) \in Int
  BY DEF Milliseconds
<1>2. QED
  BY <1>1, WidthAssumption DEF uint64

\* The lifetime in a message is the one given, or the client's default.
LEMMA MessageTtl ==
  ASSUME NEW op, NEW r, NEW a, NEW d, Checks(op, r),
         r.prepare \cap {"ttl", "collectionTtl", "updateTtl"} # {}, ~Refuses(r, a, d)
  PROVE  LET default == a.ttl = 0 \/ ("collectionTtl" \in r.prepare /\ a.collection = "none")
             asked == IF default THEN d ELSE a.ttl
         IN Message(op, r, a, d).ttl = uint64(Milliseconds(asked))
<1>1. CASE "ttl" \in r.prepare
  BY <1>1 DEF Message, Checks, GivenTtl
<1>2. CASE "collectionTtl" \in r.prepare
  BY <1>2 DEF Message, Checks, GivenTtl, CollectionTtl
<1>3. CASE "updateTtl" \in r.prepare
  <2>1. a.ttl # 0
    BY <1>3, Accepted DEF prepareUpdateTtl
  <2>2. QED
    BY <1>3, <2>1 DEF Message, Checks
<1>4. QED
  BY <1>1, <1>2, <1>3

-----------------------------------------------------------------------------
(* Errors *)

\* The codes that are looked for or changed, each of one status and its causes.
LEMMA CodesToldApart ==
  ASSUME NEW status \in StatusCodes, NEW cause \in Causes
  PROVE  LET code == ConvertSvcErr(status, cause)
         IN /\ code \in ErrorCodes
            /\ code = "AlreadyExistsError" <=> status = "AlreadyExists" /\ cause # "store_already_exists"
            /\ code = "NotFoundError" <=>
                  status = "NotFound" /\ cause \notin {"item_not_found", "store_not_found"}
            /\ code = "ItemNotFoundError" <=> status = "NotFound" /\ cause = "item_not_found"
            /\ code = "StoreNotFoundError" <=> status = "NotFound" /\ cause = "store_not_found"
            /\ code = "StoreAlreadyExistsError" <=> status = "AlreadyExists" /\ cause = "store_already_exists"
<1>1. ConvertSvcErr(status, cause) \in ErrorCodes
  BY DEF ErrorCodes
<1>2. CASE status = "NotFound" /\ cause \in {"item_not_found", "store_not_found"}
  BY <1>1, <1>2 DEF ConvertSvcErr
<1>3. CASE status = "AlreadyExists" /\ cause = "store_already_exists"
  BY <1>1, <1>3 DEF ConvertSvcErr
<1>4. CASE ~(\/ status = "NotFound" /\ cause \in {"item_not_found", "store_not_found"}
             \/ status = "AlreadyExists" /\ cause = "store_already_exists")
  <2>1. ConvertSvcErr(status, cause) = CodeOf[status]
    BY <1>4 DEF ConvertSvcErr
  <2>2. /\ CodeOf[status] = "AlreadyExistsError" <=> status = "AlreadyExists"
        /\ CodeOf[status] = "NotFoundError" <=> status = "NotFound"
        /\ CodeOf[status] \notin {"ItemNotFoundError", "StoreNotFoundError", "StoreAlreadyExistsError"}
    BY DEF CodeOf, StatusCodes
  <2>3. QED
    BY <1>1, <1>4, <2>1, <2>2
<1>5. QED
  BY <1>2, <1>3, <1>4

-----------------------------------------------------------------------------
(* Permissions *)

\* One permission is converted without loss or gain.
LEMMA CachePermissionKept ==
  ASSUME NEW p \in CachePermission
  PROVE  RightsGranted(cachePermissionsToGrpcCachePermissions(p)) = RightsAsked(p)
<1>1. p.type = "cache" /\ p.part = "nil" /\ p.role \in {"ReadWrite", "ReadOnly", "WriteOnly"}
  BY DEF CachePermission
<1>2. QED
  BY <1>1 DEF cachePermissionsToGrpcCachePermissions, RightsGranted, RightsAsked, Place,
     PermissionsType_CachePermissions, cacheRoleToGrpcCacheRole

LEMMA TopicPermissionKept ==
  ASSUME NEW p \in TopicPermission, ~PanicsOnPermission(p)
  PROVE  RightsGranted(topicPermissionsToGrpcTopicPermissions(p)) = RightsAsked(p)
<1>1. p.type = "topic" /\ p.role \in {"PublishSubscribe", "SubscribeOnly", "PublishOnly"}
  BY DEF TopicPermission
<1>2. QED
  BY <1>1 DEF topicPermissionsToGrpcTopicPermissions, PanicsOnPermission, RightsGranted, RightsAsked, Place,
     PermissionsType_TopicPermissions, topicRoleToGrpcTopicRole

LEMMA DisposablePermissionKept ==
  ASSUME NEW p \in DisposableTokenCachePermission
  PROVE  RightsGranted(disposableTokenPermissionsToGrpcDisposablePermissions(p)) = RightsAsked(p)
<1>1. p.type = "disposable" /\ p.role \in {"ReadWrite", "ReadOnly", "WriteOnly"}
  BY DEF DisposableTokenCachePermission
<1>2. QED
  BY <1>1 DEF disposableTokenPermissionsToGrpcDisposablePermissions, RightsGranted, RightsAsked, Place,
     PermissionsType_CachePermissions, cacheRoleToGrpcCacheRole

\* A scope that is converted without a panic is converted permission by
\* permission, those of its types and no more: no right is lost or gained
\* (token_client.go, internal_auth_client.go).
THEOREM ScopeKeepsRights ==
  ASSUME NEW permissions \in SUBSET (CachePermission \cup TopicPermission \cup DisposableTokenCachePermission),
         NEW types \in SUBSET {"cache", "topic", "disposable"},
         \A p \in permissions : ~PanicsOnPermission(p)
  PROVE  UNION {RightsGranted(g) : g \in Converted(permissions, types)}
            = UNION {RightsAsked(p) : p \in {q \in permissions : q.type \in types}}
<1> DEFINE grpc(p) == CASE p.type = "cache" -> cachePermissionsToGrpcCachePermissions(p)
                        [] p.type = "topic" -> topicPermissionsToGrpcTopicPermissions(p)
                        [] p.type = "disposable" -> disposableTokenPermissionsToGrpcDisposablePermissions(p)
           chosen == {q \in permissions : q.type \in types}
<1>1. Converted(permissions, types) = {grpc(p) : p \in chosen}
  BY DEF Converted
<1>2. \A p \in chosen : RightsGranted(grpc(p)) = RightsAsked(p)
  <2> TAKE p \in chosen
  <2>1. CASE p \in CachePermission
    BY <2>1, CachePermissionKept DEF CachePermission
  <2>2. CASE p \in TopicPermission
    BY <2>2, TopicPermissionKept DEF TopicPermission
  <2>3. CASE p \in DisposableTokenCachePermission
    BY <2>3, DisposablePermissionKept DEF DisposableTokenCachePermission
  <2>4. QED
    BY <2>1, <2>2, <2>3
<1> HIDE DEF grpc, chosen
<1>3. {RightsGranted(g) : g \in Converted(permissions, types)} = {RightsAsked(p) : p \in chosen}
  BY <1>1, <1>2
<1>4. QED
  BY <1>3 DEF chosen

=============================================================================
