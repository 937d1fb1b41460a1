-------------------------- MODULE PermissionScopes --------------------------
(***************************************************************************)
(* What a permission scope of an API key or disposable token becomes on    *)
(* its way to the service (momento/token_client.go and                     *)
(* momento/internal_auth_client.go).                                       *)
(*                                                                         *)
(* A permission is a record: its Go type ("cache", "topic", "disposable"), *)
(* its role, its cache selector ("all", a name, or "nil") and, for a topic *)
(* or a disposable permission, the part of the cache it is for.  Names,    *)
(* keys and prefixes are opaque; selectors are given by value, as the      *)
(* type switches know no pointers.                                         *)
(***************************************************************************)
EXTENDS Sequences

\* The permissions Go's types let an application write down; a cache permission
\* is for the whole cache.
CachePermission ==
    [type : {"cache"}, role : {"ReadWrite", "ReadOnly", "WriteOnly"}, cache : STRING, part : {"nil"}]

TopicPermission ==
    [type : {"topic"}, role : {"PublishSubscribe", "SubscribeOnly", "PublishOnly"}, cache : STRING, part : STRING]

DisposableTokenCachePermission ==
    [type : {"disposable"}, role : {"ReadWrite", "ReadOnly", "WriteOnly"}, cache : STRING, part : STRING]

CacheRole == {"CachePermitNone", "CacheReadWrite", "CacheReadOnly", "CacheWriteOnly"}

TopicRole == {"TopicPermitNone", "TopicReadWrite", "TopicReadOnly", "TopicWriteOnly"}

\* A scope that names no caches or topics: all rights.
SuperUserPermissions == {"SuperUser"}

cacheRoleToGrpcCacheRole(role) ==
    CASE role = "ReadWrite" -> "CacheReadWrite"
      [] role = "ReadOnly" -> "CacheReadOnly"
      [] role = "WriteOnly" -> "CacheWriteOnly"
      [] OTHER -> "CachePermitNone"

\* Mutant: publishing and subscribing change places.
topicRoleToGrpcTopicRoleMutant(role) ==
    CASE role = "PublishOnly" -> "TopicReadOnly"
      [] role = "SubscribeOnly" -> "TopicWriteOnly"
      [] role = "PublishSubscribe" -> "TopicReadWrite"
      [] OTHER -> "TopicPermitNone"

topicRoleToGrpcTopicRole(role) ==
    CASE role = "PublishOnly" -> "TopicWriteOnly"
      [] role = "SubscribeOnly" -> "TopicReadOnly"
      [] role = "PublishSubscribe" -> "TopicReadWrite"
      [] OTHER -> "TopicPermitNone"

PermissionsType_CachePermissions(role, cache, part) ==
    [kind |-> "CachePermissions", role |-> role, cache |-> cache, part |-> part]

PermissionsType_TopicPermissions(role, cache, part) ==
    [kind |-> "TopicPermissions", role |-> role, cache |-> cache, part |-> part]

\* A nil selector makes the conversion return nil, and a nil message arrives
\* with every field at its zero.
cachePermissionsToGrpcCachePermissions(p) ==
    IF p.cache = "nil" THEN PermissionsType_CachePermissions("CachePermitNone", "nil", "nil")
    ELSE PermissionsType_CachePermissions(cacheRoleToGrpcCacheRole(p.role), p.cache, "nil")

\* A nil topic selector is asked for its name, unless the cache's is nil too.
PanicsOnPermission(p) == p.type = "topic" /\ p.cache # "nil" /\ p.part = "nil"

topicPermissionsToGrpcTopicPermissions(p) ==
    IF p.cache = "nil" THEN PermissionsType_TopicPermissions("TopicPermitNone", "nil", "nil")
    ELSE PermissionsType_TopicPermissions(topicRoleToGrpcTopicRole(p.role), p.cache, p.part)

disposableTokenPermissionsToGrpcDisposablePermissions(p) ==
    IF p.cache = "nil" \/ p.part = "nil" THEN PermissionsType_CachePermissions("CachePermitNone", "nil", "nil")
    ELSE PermissionsType_CachePermissions(cacheRoleToGrpcCacheRole(p.role), p.cache, p.part)

\* The permissions of a scope of type Permissions, one by one; a type the
\* switch has no case for is left out.
Converted(permissions, types) ==
    LET grpc(p) == CASE p.type = "cache" -> cachePermissionsToGrpcCachePermissions(p)
                     [] p.type = "topic" -> topicPermissionsToGrpcTopicPermissions(p)
                     [] p.type = "disposable" -> disposableTokenPermissionsToGrpcDisposablePermissions(p)
    IN {grpc(p) : p \in {q \in permissions : q.type \in types}}

\* An API key's scope; the refused ones are a scope of another type and an
\* empty list.
RefusesScope(scope) ==
    \/ scope.kind \notin {"SuperUser", "Permissions"}
    \/ scope.kind = "Permissions" /\ scope.permissions = {}

\* Both conversions look at every topic permission of the list.
PanicsOnScope(scope) == scope.kind = "Permissions" /\ \E p \in scope.permissions : PanicsOnPermission(p)

permissionsFromTokenScope(scope) ==
    IF scope.kind = "SuperUser" THEN SuperUserPermissions
    ELSE Converted(scope.permissions, {"cache", "topic"})

\* A disposable token's scope.  The one type the switch knows is Permissions:
\* a DisposableTokenCachePermissions list reaches the service empty.
disposablePermissions(scope) ==
    IF scope.kind = "Permissions"
    THEN Converted(scope.permissions, {"cache", "topic", "disposable"})
    ELSE {}

-----------------------------------------------------------------------------
(* What a permission allows, as an application reads it and as the service *)
(* does: pairs of a right and a place.  A permission whose cache selector  *)
(* is nil, or a disposable one whose item is, is converted to no right.    *)

Place(type, p) == <<type, p.cache, p.part>>

RightsAsked(p) ==
    LET rights == CASE p.role \in {"ReadWrite", "PublishSubscribe"} -> {"read", "write"}
                    [] p.role \in {"ReadOnly", "SubscribeOnly"} -> {"read"}
                    [] p.role \in {"WriteOnly", "PublishOnly"} -> {"write"}
                    [] OTHER -> {}
    IN IF p.cache = "nil" \/ (p.type = "disposable" /\ p.part = "nil") THEN {}
       ELSE rights \X {Place(IF p.type = "topic" THEN "topic" ELSE "cache", p)}

RightsGranted(g) ==
    LET rights == CASE g.role \in {"CacheReadWrite", "TopicReadWrite"} -> {"read", "write"}
                    [] g.role \in {"CacheReadOnly", "TopicReadOnly"} -> {"read"}
                    [] g.role \in {"CacheWriteOnly", "TopicWriteOnly"} -> {"write"}
                    [] OTHER -> {}
    IN rights \X {Place(IF g.kind = "TopicPermissions" THEN "topic" ELSE "cache", g)}

=============================================================================
