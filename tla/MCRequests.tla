----------------------------- MODULE MCRequests -----------------------------
(***************************************************************************)
(* Requests for TLC: a caller that uses every operation beside one that    *)
(* pings, on two clients: A with a default cache and a TTL of two          *)
(* milliseconds, B with neither a default cache nor a sensible TTL.        *)
(***************************************************************************)
EXTENDS Requests, TLC

CONSTANTS c1, c2

MCClients == {"A", "B"}

MCDefaultCache == [A |-> "a", B |-> ""]

\* B's default TTL is negative, which only zero keeps the constructor from.
MCDefaultTtl == [A |-> 5, B |-> -2]

MCOps == (c1 :> DOMAIN Operations) @@ (c2 :> {"Ping"})

MCMaxCalls == (c1 :> 2) @@ (c2 :> 1)

\* Every status and cause for the operations that read errors in a way of their
\* own, and for one of each other kind; the rest fail alike.
MCFaults ==
    LET all == (StatusCodes \X {"none"})
               \cup {<<"NotFound", "item_not_found">>, <<"NotFound", "store_not_found">>,
                     <<"AlreadyExists", "store_already_exists">>}
        reading == {"Get", "SetBatch", "CreateCache", "DeleteCache", "CreateStore", "DeleteStore", "StorageGet",
                    "LeaderboardLength", "Publish", "GenerateApiKey", "GenerateDisposableToken"}
    IN [op \in DOMAIN Operations |-> IF op \in reading THEN all ELSE {<<"Unavailable", "none">>}]

NoScope == [kind |-> "none", permissions |-> {}]

Good ==
    [cache |-> "c", name |-> "n", item |-> "k1", items |-> <<"k1", "k2">>, listIsNil |-> FALSE,
     value |-> "k1", other |-> "k2", ttl |-> 7, collection |-> "WithNoRefreshTtlOnUpdates", amount |-> 1,
     start |-> <<0>>, end |-> <<2>>, scope |-> NoScope, expires |-> 2]

Permission(type, role, cache, part) == [type |-> type, role |-> role, cache |-> cache, part |-> part]

Scopes ==
    LET p == Permission("cache", "ReadOnly", "all", "nil")
        t == Permission("topic", "PublishOnly", "c", "prefix")
        d == Permission("disposable", "WriteOnly", "c", "key")
        noTopic == Permission("topic", "PublishOnly", "c", "nil")
    IN {NoScope, [kind |-> "SuperUser", permissions |-> {}],
        [kind |-> "DisposableTokenCachePermissions", permissions |-> {d}]}
       \cup {[kind |-> "Permissions", permissions |-> s] : s \in
                {{}, {p}, {p, t}, {d}, {t, d}, {p, noTopic},
                 {Permission("cache", "ReadWrite", "nil", "nil"), Permission("topic", "SubscribeOnly", "nil", "nil")},
                 {Permission("topic", "PublishSubscribe", "all", "all"), Permission("cache", "WriteOnly", "c", "nil")},
                 {Permission("topic", "SubscribeOnly", "all", "name"), Permission("disposable", "ReadWrite", "all", "all")}}}

\* For each check, the arguments that differ from the good ones in what it reads.
Variants ==
    [cacheName |-> {[Good EXCEPT !.cache = v] : v \in {"", "blank"}},
     name |-> {[Good EXCEPT !.name = "blank"]},
     key |-> {[Good EXCEPT !.item = v] : v \in {"empty", "nil"}},
     storeKey |-> {[Good EXCEPT !.item = "empty"]},
     field |-> {[Good EXCEPT !.item = v] : v \in {"empty", "nil"}},
     element |-> {[Good EXCEPT !.item = v] : v \in {"empty", "nil"}} \cup {[Good EXCEPT !.value = "nil"]},
     keys |-> {[Good EXCEPT !.items = v] : v \in {<<>>, <<"k1", "empty">>, <<"nil">>}},
     fields |-> {[Good EXCEPT !.items = v] : v \in {<<>>, <<"k1", "empty">>, <<"nil">>}}
                \cup {[Good EXCEPT !.items = <<>>, !.listIsNil = TRUE]},
     values |-> {[Good EXCEPT !.items = v] : v \in {<<"empty">>, <<"k1", "nil">>}}
                \cup {[Good EXCEPT !.items = <<>>, !.listIsNil = TRUE]},
     elements |-> {[Good EXCEPT !.items = <<"empty">>], [Good EXCEPT !.value = "nil"]},
     unchecked |-> {[Good EXCEPT !.items = v] : v \in {<<"k2">>, <<"empty">>, <<"k1", "nil">>}},
     uncheckedValue |-> {[Good EXCEPT !.value = "nil"], [Good EXCEPT !.value = "nil", !.items = <<>>]},
     value |-> {[Good EXCEPT !.value = v] : v \in {"empty", "nil"}},
     other |-> {[Good EXCEPT !.other = "nil"]},
     ttl |-> {[Good EXCEPT !.ttl = v] : v \in {-2, 0, 1}},
     updateTtl |-> {[Good EXCEPT !.ttl = v] : v \in {-2, 0, 1}},
     collectionTtl |-> {[Good EXCEPT !.ttl = v, !.collection = "WithRefreshTtlOnUpdates"] : v \in {-2, 0, 1}}
                       \cup {[Good EXCEPT !.ttl = 0, !.collection = v] :
                                v \in {"none", "FromCacheTtl", "RefreshTtlIfProvided()", "RefreshTtlIfProvided(ttl)"}}
                       \cup {[Good EXCEPT !.collection = v] : v \in {"Of", "RefreshTtlIfProvided(ttl)"}},
     amount |-> {[Good EXCEPT !.amount = 0]},
     ranks |-> {[Good EXCEPT !.start = v[1], !.end = v[2]] :
                    v \in {<<<<>>, <<>>>>, <<<<3>>, <<>>>>, <<<<>>, <<0>>>>, <<<<-2>>, <<-2>>>>, <<<<-1>>, <<1>>>>}},
     rankRange |-> {[Good EXCEPT !.end = <<0>>]},
     scoreRange |-> {[Good EXCEPT !.end = <<0>>], [Good EXCEPT !.start = <<>>, !.end = <<>>]},
     ids |-> {[Good EXCEPT !.items = <<>>]},
     keyScope |-> {[Good EXCEPT !.scope = s] : s \in {s \in Scopes : s.kind # "DisposableTokenCachePermissions"}},
     tokenScope |-> {[Good EXCEPT !.scope = s] : s \in {s \in Scopes : s.kind # "SuperUser"}},
     keyExpiry |-> {[Good EXCEPT !.scope = CHOOSE s \in Scopes : s.kind = "SuperUser", !.expires = v] :
                        v \in {-1, 0, 20, Never}},
     tokenExpiry |-> {[Good EXCEPT !.scope = [kind |-> "Permissions", permissions |-> {}], !.expires = v] :
                        v \in {-1, 4, Never}}]

MCArguments == [op \in DOMAIN Operations |->
    LET variants == UNION {Variants[s] : s \in Operations[op].prepare}
    IN IF Operations[op].service = "auth" /\ variants # {} THEN variants ELSE {Good} \cup variants]

=============================================================================
