------------------------------ MODULE Protocol ------------------------------
(***************************************************************************)
(* The messages of the generated protocol code in internal/protos that the *)
(* client uses.  In Go a field left out of a literal is silently zero, so  *)
(* what a message has is the set of its fields.  A reply is a function     *)
(* from its alternatives, the cases of its oneof or of its ECacheResult    *)
(* field, to the fields that come with each.  A oneof may also be unset,   *)
(* as it is when the service uses a case this client's version of the      *)
(* protocol does not have.  "reply" is the one alternative of a message    *)
(* with neither.  is... is the set of cases of a oneof that tells          *)
(* operations apart.                                                       *)
(***************************************************************************)

ECacheResult == {"Invalid", "Ok", "Hit", "Miss"}

Reply(fields) == [reply |-> fields]

FoundOrMissing(found) == [Found |-> found, Missing |-> {}, unset |-> {}]

\* The cases of a oneof whose messages have no fields.
OneOfCases(cases) == [c \in cases \cup {"unset"} |-> {}]

-----------------------------------------------------------------------------
(* Messages inside other messages *)

XDictionaryFieldValuePair == {"Field", "Value"}
XSortedSetElement == {"Value", "Score"}
XDictionaryDeleteRequest_Some == {"Fields"}
XSetDifferenceRequest_XSubtrahend == {"SubtrahendSet"}
XSetDifferenceRequest_XSubtrahend_XSet == {"Elements"}
XSortedSetFetchRequest_XByIndex == {"Start", "End"}
XSortedSetFetchRequest_XByScore == {"Min", "Max", "Offset", "Count"}
XSortedSetFetchRequest_XByScore_XScore == {"Score", "Exclusive"}
XSortedSetRemoveRequest_XSome == {"Values"}
PresentAndNotEqual == {"ValueToCheck"}
Equal == {"ValueToCheck"}
AbsentOrEqual == {"ValueToCheck"}
NotEqual == {"ValueToCheck"}
XElement == {"Id", "Score"}
XRankedElement == {"Id", "Rank", "Score"}
XRankRange == {"StartInclusive", "EndExclusive"}
XScoreRange == {"Min", "Max"}
XCache == {"CacheName", "CacheLimits", "TopicLimits"}
XStore == {"StoreName"}
XTopicValue == {"Kind"}
XGenerateApiTokenRequest_Expires == {"ValidForSeconds"}
XGenerateDisposableTokenRequest_Expires == {"ValidForSeconds"}
Permissions == {"Kind"}
ExplicitPermissions == {"Permissions"}

\* What comes with "Found".
XItemGetTtlResponse_XFound == {"RemainingTtlMillis"}
XItemGetTypeResponse_XFound == {"ItemType"}
XDictionaryGetResponse_XDictionaryGetResponsePart == {"Result", "CacheBody"}
XDictionaryGetResponse_XFound == {"Items"}
XDictionaryFetchResponse_XFound == {"Items"}
XDictionaryLengthResponse_XFound == {"Length"}
XSetFetchResponse_XFound == {"Elements"}
XSetDifferenceResponse_XFound == {}
XSetContainsResponse_XFound == {"Contains"}
XSetLengthResponse_XFound == {"Length"}
XSetPopResponse_XFound == {"Elements"}
XListPopFrontResponse_XFound == {"Front", "ListLength"}
XListPopBackResponse_XFound == {"Back", "ListLength"}
XListRemoveResponse_XFound == {"ListLength"}
XListFetchResponse_XFound == {"Values"}
XListLengthResponse_XFound == {"Length"}
XSortedSetFetchResponse_XFound_XValuesWithScores == {"Elements"}
XSortedSetGetScoreResponse_XSortedSetGetScoreResponsePart == {"Result", "Score"}
XSortedSetGetScoreResponse_XSortedSetFound == {"Elements"}
XSortedSetGetRankResponse_XRankResponsePart == {"Result", "Rank"}
XSortedSetLengthResponse_XFound == {"Length"}
XSortedSetLengthByScoreResponse_XFound == {"Length"}

-----------------------------------------------------------------------------
(* Cache service: internal/protos/cacheclient.pb.go *)

XGetResponse == [r \in ECacheResult |-> {"CacheBody", "Message"}]
XDeleteResponse == Reply({})
XSetResponse == [r \in ECacheResult |-> {"Message"}]
isXSetIfRequest_Condition == {"Present", "PresentAndNotEqual", "Absent", "Equal", "AbsentOrEqual", "NotEqual"}
XSetIfResponse == OneOfCases({"Stored", "NotStored"})
XKeysExistResponse == Reply({"Exists"})
XIncrementResponse == Reply({"Value"})
isXUpdateTtlRequest_UpdateTtl == {"IncreaseToMilliseconds", "DecreaseToMilliseconds", "OverwriteToMilliseconds"}
XUpdateTtlResponse == OneOfCases({"Set", "NotSet", "Missing"})
XItemGetTtlResponse == FoundOrMissing(XItemGetTtlResponse_XFound)
XItemGetTypeResponse == FoundOrMissing(XItemGetTypeResponse_XFound)
XDictionaryGetResponse == FoundOrMissing(XDictionaryGetResponse_XFound \cup XDictionaryGetResponse_XDictionaryGetResponsePart)
XDictionaryFetchResponse == FoundOrMissing(XDictionaryFetchResponse_XFound \cup XDictionaryFieldValuePair)
XDictionarySetResponse == Reply({})
XDictionaryIncrementResponse == Reply({"Value"})
XDictionaryDeleteResponse == Reply({})
XDictionaryLengthResponse == FoundOrMissing(XDictionaryLengthResponse_XFound)
XSetFetchResponse == FoundOrMissing(XSetFetchResponse_XFound)
XSetUnionResponse == Reply({})
XSetDifferenceResponse == FoundOrMissing(XSetDifferenceResponse_XFound)
XSetContainsResponse == FoundOrMissing(XSetContainsResponse_XFound)
XSetLengthResponse == FoundOrMissing(XSetLengthResponse_XFound)
XSetPopResponse == FoundOrMissing(XSetPopResponse_XFound)
XListConcatenateFrontResponse == Reply({"ListLength"})
XListConcatenateBackResponse == Reply({"ListLength"})
XListPushFrontResponse == Reply({"ListLength"})
XListPushBackResponse == Reply({"ListLength"})
XListPopFrontResponse == FoundOrMissing(XListPopFrontResponse_XFound)
XListPopBackResponse == FoundOrMissing(XListPopBackResponse_XFound)
XListRemoveResponse == FoundOrMissing(XListRemoveResponse_XFound)
XListFetchResponse == FoundOrMissing(XListFetchResponse_XFound)
XListLengthResponse == FoundOrMissing(XListLengthResponse_XFound)
XSortedSetPutResponse == Reply({})
XSortedSetFetchResponse == FoundOrMissing(XSortedSetFetchResponse_XFound_XValuesWithScores \cup XSortedSetElement)
XSortedSetGetScoreResponse == FoundOrMissing(XSortedSetGetScoreResponse_XSortedSetFound
                   \cup XSortedSetGetScoreResponse_XSortedSetGetScoreResponsePart)
XSortedSetRemoveResponse == Reply({})
XSortedSetIncrementResponse == Reply({"Score"})
\* ElementRank stands for the ECacheResult it carries.
XSortedSetGetRankResponse ==
    [a \in {"Missing", "unset"} \cup ECacheResult |->
        IF a \in ECacheResult THEN XSortedSetGetRankResponse_XRankResponsePart ELSE {}]
XSortedSetLengthResponse == FoundOrMissing(XSortedSetLengthResponse_XFound)
XSortedSetLengthByScoreResponse == FoundOrMissing(XSortedSetLengthByScoreResponse_XFound)

-----------------------------------------------------------------------------
(* Control, ping, leaderboard, store, auth and token services *)

\* The reply of the calls that return nothing.
XEmpty == Reply({})
XCreateStoreResponse == Reply({})
XDeleteStoreResponse == Reply({})
XListStoresResponse == Reply({"Store", "NextToken"} \cup XStore)
XDeleteCacheResponse == Reply({})
XCreateCacheResponse == Reply({})
XListCachesResponse == Reply({"Cache", "NextToken"} \cup XCache)
XPingResponse == Reply({})
XGetLeaderboardLengthResponse == Reply({"Count"})
XGetByRankResponse == Reply({"Elements"} \cup XRankedElement)
XGetRankResponse == Reply({"Elements"} \cup XRankedElement)
XGetByScoreResponse == Reply({"Elements"} \cup XRankedElement)
XStoreValue ==
    [a \in {"BytesValue", "StringValue", "IntegerValue", "DoubleValue", "unset"} |-> {a} \ {"unset"}]
XStoreGetResponse == [a \in DOMAIN XStoreValue |-> XStoreValue[a] \cup {"Value"}]
XStorePutResponse == Reply({})
XStoreDeleteResponse == Reply({})
XGenerateApiTokenResponse == Reply({"ApiKey", "RefreshToken", "Endpoint", "ValidUntil"})
XRefreshApiTokenResponse == Reply({"ApiKey", "RefreshToken", "Endpoint", "ValidUntil"})
XGenerateDisposableTokenResponse == Reply({"ApiKey", "Endpoint", "ValidUntil"})

-----------------------------------------------------------------------------
(* The requests of the cache service *)

XGetRequest == {"CacheKey"}
XGetBatchRequest == {"Items"}
XDeleteRequest == {"CacheKey"}
XSetRequest == {"CacheKey", "CacheBody", "TtlMilliseconds"}
XSetBatchRequest == {"Items"}
XSetIfRequest == {"CacheKey", "CacheBody", "TtlMilliseconds", "Condition"}
XKeysExistRequest == {"CacheKeys"}
XIncrementRequest == {"CacheKey", "Amount", "TtlMilliseconds"}
XUpdateTtlRequest == {"CacheKey", "UpdateTtl"}
XItemGetTtlRequest == {"CacheKey"}
XItemGetTypeRequest == {"CacheKey"}
XDictionaryGetRequest == {"DictionaryName", "Fields"}
XDictionaryFetchRequest == {"DictionaryName"}
XDictionarySetRequest == {"DictionaryName", "Items", "TtlMilliseconds", "RefreshTtl"}
XDictionaryIncrementRequest ==
    {"DictionaryName", "Field", "Amount", "TtlMilliseconds", "RefreshTtl"}
XDictionaryDeleteRequest == {"DictionaryName", "Delete"}
XDictionaryLengthRequest == {"DictionaryName"}
XSetFetchRequest == {"SetName"}
XSetUnionRequest == {"SetName", "Elements", "TtlMilliseconds", "RefreshTtl"}
XSetDifferenceRequest == {"SetName", "Difference"}
XSetContainsRequest == {"SetName", "Elements"}
XSetLengthRequest == {"SetName"}
XSetPopRequest == {"SetName", "Count"}
XListConcatenateFrontRequest ==
    {"ListName", "Values", "TtlMilliseconds", "RefreshTtl", "TruncateBackToSize"}
XListConcatenateBackRequest ==
    {"ListName", "Values", "TtlMilliseconds", "RefreshTtl", "TruncateFrontToSize"}
XListPushFrontRequest ==
    {"ListName", "Value", "TtlMilliseconds", "RefreshTtl", "TruncateBackToSize"}
XListPushBackRequest ==
    {"ListName", "Value", "TtlMilliseconds", "RefreshTtl", "TruncateFrontToSize"}
XListPopFrontRequest == {"ListName"}
XListPopBackRequest == {"ListName"}
XListRemoveRequest == {"ListName", "Remove"}
XListFetchRequest == {"ListName", "StartIndex", "EndIndex"}
XListLengthRequest == {"ListName"}
XSortedSetPutRequest == {"SetName", "Elements", "TtlMilliseconds", "RefreshTtl"}
XSortedSetFetchRequest == {"SetName", "Order", "WithScores", "Range"}
XSortedSetGetScoreRequest == {"SetName", "Values"}
XSortedSetRemoveRequest == {"SetName", "RemoveElements"}
XSortedSetIncrementRequest == {"SetName", "Value", "Amount", "TtlMilliseconds", "RefreshTtl"}
XSortedSetGetRankRequest == {"SetName", "Value", "Order"}
XSortedSetLengthRequest == {"SetName"}
XSortedSetLengthByScoreRequest == {"SetName", "Min", "Max"}

-----------------------------------------------------------------------------
(* The requests of the other services *)

XCreateStoreRequest == {"StoreName"}
XDeleteStoreRequest == {"StoreName"}
XListStoresRequest == {"NextToken"}
XDeleteCacheRequest == {"CacheName"}
XCreateCacheRequest == {"CacheName"}
XListCachesRequest == {"NextToken"}
XPingRequest == {}
XPublishRequest == {"CacheName", "Topic", "Value"}
XDeleteLeaderboardRequest == {"CacheName", "Leaderboard"}
XGetLeaderboardLengthRequest == {"CacheName", "Leaderboard"}
XUpsertElementsRequest == {"CacheName", "Leaderboard", "Elements"}
XGetByRankRequest == {"CacheName", "Leaderboard", "RankRange", "Order"}
XGetRankRequest == {"CacheName", "Leaderboard", "Ids", "Order"}
XRemoveElementsRequest == {"CacheName", "Leaderboard", "Ids"}
XGetByScoreRequest == {"CacheName", "Leaderboard", "ScoreRange", "Offset", "LimitElements", "Order"}
XStoreGetRequest == {"Key"}
XStorePutRequest == {"Key", "Value"}
XStoreDeleteRequest == {"Key"}
XGenerateApiTokenRequest == {"Expiry", "AuthToken", "Permissions", "TokenId", "Description"}
XRefreshApiTokenRequest == {"ApiKey", "RefreshToken"}
XGenerateDisposableTokenRequest == {"Expires", "AuthToken", "Permissions", "TokenId"}

=============================================================================
