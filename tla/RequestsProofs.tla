--------------------------- MODULE RequestsProofs ---------------------------
(***************************************************************************)
(* For any number of goroutines and clients, any arguments and any bound   *)
(* on the calls: the process-wide record of the first-time headers keeps   *)
(* its promise (Requests implements FirstTimeHeaders), and every message,  *)
(* answer and error is the one its operation's row calls for.  What the    *)
(* rows have in common is in OperationsProofs.                             *)
(***************************************************************************)
EXTENDS Requests, OperationsProofs, TLAPS

\* A flag that is set was set by a caller that took the headers on; a caller
\* that has yet to set it found it unset, so it did not take them on before.
HeadersInv ==
    /\ pc \in [Callers -> {"idle", "load", "store", "await", "panicked"}]
    /\ headersSent \in [Services -> BOOLEAN]
    /\ introduced \in [Services -> SUBSET Callers]
    /\ bare \in [Services -> BOOLEAN]
    /\ DOMAIN object = Callers
    /\ \A c \in Callers : pc[c] \in {"load", "store"} => row(c).service \in Services
    /\ \A s \in Services : headersSent[s] <=> introduced[s] # {}
    /\ \A c \in Callers : pc[c] = "store" => c \notin introduced[row(c).service]

\* The first state has every flag unset and nobody under way.
LEMMA InitHeaders == Init => HeadersInv /\ Headers!Init
BY DEF Init, HeadersInv, Headers!Init

\* A call that begins leaves the headers as they are, and does not stand
\* between the load and the store of a flag.
LEMMA BeginHeaders ==
    ASSUME HeadersInv, NEW c \in Callers, NEW op, NEW asked, NEW given, NEW used, NEW keys, NEW k,
           Begin(c, op, asked, given, used, keys, k)
    PROVE  HeadersInv' /\ UNCHANGED <<introduced, bare>>
<1> DEFINE args == [asked EXCEPT !.cache = getCacheNameForRequest(op, asked, k)]
           r == Operations[op]
           refused == Refuses(r, args, DefaultTtl[k])
           panics == ~refused /\ Panics(r, args)
           phase == CASE refused -> "idle" [] panics -> "panicked"
                      [] r.service \in Services -> "load" [] OTHER -> "await"
           o == [op |-> op, args |-> args, given |-> given, used |-> Append(used, k), client |-> k,
                 keys |-> IF refused THEN keys ELSE KeysKept(op, args, keys)]
<1>1. /\ pc' = [pc EXCEPT ![c] = phase]
      /\ object' = [object EXCEPT ![c] = o]
      /\ UNCHANGED <<headersSent, introduced, bare>>
  BY DEF Begin
<1>2. phase \in {"idle", "panicked", "load", "await"} /\ (phase = "load" => r.service \in Services)
  OBVIOUS
<1>3. o.op = op
  OBVIOUS
<1> HIDE DEF phase, o, args, refused, panics
<1>4. pc' \in [Callers -> {"idle", "load", "store", "await", "panicked"}] /\ DOMAIN object' = Callers
  BY <1>1, <1>2 DEF HeadersInv
<1>5. \A d \in Callers : d # c => pc'[d] = pc[d] /\ object'[d] = object[d]
  BY <1>1 DEF HeadersInv
<1>6. pc'[c] = phase /\ object'[c] = o
  BY <1>1 DEF HeadersInv
<1>7. row(c)' = r
  BY <1>6, <1>3 DEF row, r
<1>8. \A d \in Callers : d # c => row(d)' = row(d)
  BY <1>5 DEF row
<1>9. \A d \in Callers : pc'[d] \in {"load", "store"} => row(d)'.service \in Services
  BY <1>2, <1>5, <1>6, <1>7, <1>8 DEF HeadersInv
<1>10. \A d \in Callers : pc'[d] = "store" => d \notin introduced'[row(d)'.service]
  BY <1>1, <1>2, <1>5, <1>6, <1>8 DEF HeadersInv
<1> QED BY <1>1, <1>4, <1>9, <1>10 DEF HeadersInv

\* A call that returns, or panics on a scope, takes nothing on.
LEMMA ReturnHeaders ==
    ASSUME HeadersInv, NEW c \in Callers, ScopePanics(c) \/ \E r : Return(c, r)
    PROVE  HeadersInv' /\ UNCHANGED <<introduced, bare>>
<1>1. PICK phase \in {"idle", "panicked"} : pc' = [pc EXCEPT ![c] = phase]
  BY DEF Return, ScopePanics
<1>2. UNCHANGED <<object, headersSent, introduced, bare>>
  BY DEF Return, ScopePanics
<1>3. \A d \in Callers : row(d)' = row(d) /\ (pc'[d] \in {"load", "store"} => pc'[d] = pc[d])
  BY <1>1, <1>2 DEF HeadersInv, row
<1> QED BY <1>1, <1>2, <1>3 DEF HeadersInv

\* A flag is loaded: a call goes without the headers only when the flag is set,
\* and then somebody took them on.
LEMMA LoadHeaders ==
    ASSUME HeadersInv, NEW c \in Callers, LoadFlag(c)
    PROVE  HeadersInv' /\ (UNCHANGED <<introduced, bare>> \/ Headers!GoBare(row(c).service))
<1> DEFINE s == row(c).service
<1>1. pc[c] = "load" /\ s \in Services
  BY DEF LoadFlag, HeadersInv
<1>2. \A d \in Callers : row(d)' = row(d)
  BY DEF LoadFlag, row
<1>3. /\ pc' = [pc EXCEPT ![c] = IF headersSent[s] THEN "await" ELSE "store"]
      /\ bare' = [bare EXCEPT ![s] = @ \/ headersSent[s]]
      /\ UNCHANGED <<object, headersSent, introduced>>
  BY DEF LoadFlag
<1> HIDE DEF s
<1>4. CASE headersSent[s]
  <2>1. introduced[s] # {} /\ bare' = [bare EXCEPT ![s] = TRUE]
    BY <1>1, <1>3, <1>4 DEF HeadersInv
  <2>2. Headers!GoBare(s)
    BY <1>3, <2>1 DEF Headers!GoBare
  <2>3. HeadersInv'
    BY <1>1, <1>2, <1>3, <1>4, <2>1 DEF HeadersInv
  <2> QED BY <2>2, <2>3 DEF s
<1>5. CASE ~headersSent[s]
  <2>1. bare' = bare /\ introduced[s] = {}
    BY <1>1, <1>3, <1>5 DEF HeadersInv
  <2>2. \A d \in Callers : pc'[d] = "store" => d \notin introduced'[row(d)'.service]
    BY <1>1, <1>2, <1>3, <1>5, <2>1 DEF HeadersInv, s
  <2>3. \A d \in Callers : pc'[d] \in {"load", "store"} => row(d)'.service \in Services
    BY <1>1, <1>2, <1>3, <1>5 DEF HeadersInv, s
  <2>4. pc' \in [Callers -> {"idle", "load", "store", "await", "panicked"}]
    BY <1>1, <1>3, <1>5 DEF HeadersInv
  <2> QED BY <1>3, <2>1, <2>2, <2>3, <2>4 DEF HeadersInv
<1> QED BY <1>4, <1>5

\* A flag is stored: its caller takes the headers on, for the first time.
LEMMA StoreHeaders ==
    ASSUME HeadersInv, NEW c \in Callers, StoreFlag(c)
    PROVE  HeadersInv' /\ Headers!Introduce(row(c).service, c) /\ row(c).service \in Services
<1> DEFINE s == row(c).service
<1>1. pc[c] = "store" /\ s \in Services /\ c \notin introduced[s]
  BY DEF StoreFlag, HeadersInv
<1>2. \A d \in Callers : row(d)' = row(d)
  BY DEF StoreFlag, row
<1>3. /\ pc' = [pc EXCEPT ![c] = "await"]
      /\ headersSent' = [headersSent EXCEPT ![s] = TRUE]
      /\ introduced' = [introduced EXCEPT ![s] = @ \cup {c}]
      /\ UNCHANGED <<object, bare>>
  BY DEF StoreFlag
<1> HIDE DEF s
<1>4. Headers!Introduce(s, c)
  BY <1>1, <1>3 DEF Headers!Introduce
<1>5. \A d \in Callers : pc'[d] \in {"load", "store"} => d # c /\ pc'[d] = pc[d]
  BY <1>3 DEF HeadersInv
<1>6. \A d \in Callers : pc'[d] = "store" => d \notin introduced'[row(d)'.service]
  <2> SUFFICES ASSUME NEW d \in Callers, pc'[d] = "store" PROVE d \notin introduced'[row(d).service]
    BY <1>2
  <2>1. d # c /\ pc[d] = "store" /\ d \notin introduced[row(d).service] /\ row(d).service \in Services
    BY <1>5 DEF HeadersInv
  <2> QED BY <1>1, <1>3, <2>1 DEF HeadersInv
<1>7. \A t \in Services : headersSent'[t] <=> introduced'[t] # {}
  BY <1>1, <1>3 DEF HeadersInv
<1>8. /\ pc' \in [Callers -> {"idle", "load", "store", "await", "panicked"}]
      /\ headersSent' \in [Services -> BOOLEAN]
      /\ introduced' \in [Services -> SUBSET Callers]
  BY <1>1, <1>3 DEF HeadersInv
<1> QED BY <1>1, <1>2, <1>3, <1>4, <1>5, <1>6, <1>7, <1>8 DEF HeadersInv, s

\* Every step keeps the invariant, and is a step of the promise or leaves it be.
LEMMA NextHeaders ==
    ASSUME HeadersInv, [Next]_vars
    PROVE  HeadersInv' /\ [Headers!Next]_<<introduced, bare>>
<1>1. CASE UNCHANGED vars
  <2>1. UNCHANGED <<pc, object, headersSent, introduced, bare>>
    BY <1>1 DEF vars
  <2>2. \A d \in Callers : row(d)' = row(d)
    BY <2>1 DEF row
  <2> QED BY <2>1, <2>2 DEF HeadersInv
<1>2. ASSUME NEW c \in Callers, Call(c) \/ CallAgain(c)
      PROVE  HeadersInv' /\ [Headers!Next]_<<introduced, bare>>
  <2>1. PICK op, asked, given, used, keys, k : Begin(c, op, asked, given, used, keys, k)
    BY <1>2 DEF Call, CallAgain
  <2> QED BY <2>1, BeginHeaders
<1>3. ASSUME NEW c \in Callers, LoadFlag(c)
      PROVE  HeadersInv' /\ [Headers!Next]_<<introduced, bare>>
  <2>1. row(c).service \in Services
    BY <1>3 DEF LoadFlag, HeadersInv
  <2> QED BY <1>3, <2>1, LoadHeaders DEF Headers!Next
<1>4. ASSUME NEW c \in Callers, StoreFlag(c)
      PROVE  HeadersInv' /\ [Headers!Next]_<<introduced, bare>>
  BY <1>4, StoreHeaders DEF Headers!Next
<1>5. ASSUME NEW c \in Callers,
             ScopePanics(c) \/ ScopeRefused(c) \/ Answered(c) \/ Failed(c) \/ DeadlineExceeded(c)
      PROVE  HeadersInv' /\ [Headers!Next]_<<introduced, bare>>
  <2>1. ScopePanics(c) \/ \E r : Return(c, r)
    BY <1>5 DEF ScopeRefused, Answered, Failed, DeadlineExceeded
  <2> QED BY <2>1, ReturnHeaders
<1> QED BY <1>1, <1>2, <1>3, <1>4, <1>5 DEF Next, Terminating

\* The client implements the promise of the first-time headers: however the
\* calls of any number of goroutines interleave, no call goes without the
\* headers before some call took them on, and no goroutine takes them on twice
\* (metadata.go:35).
THEOREM HeadersImplemented == Spec => HeadersAreSentFirst
<1>1. Init => HeadersInv /\ Headers!Init
  BY InitHeaders
<1>2. HeadersInv /\ [Next]_vars => HeadersInv' /\ [Headers!Next]_<<introduced, bare>>
  BY NextHeaders
<1> QED BY <1>1, <1>2, PTL DEF Spec, HeadersAreSentFirst, Headers!Spec

-----------------------------------------------------------------------------
(* A call: what its object, its message and its result have to do with     *)
(* each other.                                                             *)

\* The cache an object names: the one the application wrote, or one that a
\* client wrote; an object that still names none was used on clients that have
\* none to write.
Named(op, cache, given, used) ==
    IF given # "" THEN cache = given
    ELSE IF cache # "" THEN FirstDefault(cache, used)
    ELSE op \in DOMAIN CacheClientOperations /\ "cacheName" \in Operations[op].prepare =>
            \A i \in DOMAIN used : DefaultCache[used[i]] = ""

ObjectInv(c) == object[c] # Nothing =>
    /\ calls[c] >= 1
    /\ object[c].op \in Ops[c]
    /\ object[c].args \in LegalArguments(object[c].op)
    /\ object[c].client \in Clients
    /\ object[c].keys \in Seq(STRING)
    /\ object[c].used \in Seq(Clients)
    /\ Named(object[c].op, object[c].args.cache, object[c].given, object[c].used)

\* A message is the one its object asks for, after the checks; GetBatch's keys
\* end with those of this call.
WireInv(c) == wire[c] # Nothing =>
    LET o == object[c]
        d == DefaultTtl[o.client]
    IN /\ o # Nothing
       /\ ~Refuses(row(c), o.args, d) /\ ~Panics(row(c), o.args)
       /\ ~RefusesLate(row(c), o.args) /\ ~PanicsLate(row(c), o.args)
       /\ wire[c] = Message(o.op, row(c), o.args, d)
       /\ o.op = "GetBatch" =>
             \E kept \in Seq(STRING) : o.keys = kept \o o.args.items /\ (calls[c] = 1 => kept = <<>>)

\* A caller that is not idle has an object, and panicked because of it.
PanicInv(c) ==
    /\ pc[c] # "idle" => object[c] # Nothing
    /\ pc[c] = "panicked" => Panics(row(c), object[c].args) \/ PanicsLate(row(c), object[c].args)

\* A result is the reading of a reply to the message, or of an error.
IsReply(c) == \E reply \in DOMAIN row(c).replies, item \in ItemStates(wire[c].asks) :
    /\ CanReply(wire[c].asks, reply, item)
    /\ \E parts \in PartsOf(c, reply) : result[c] = Interpreted(c, reply, parts, item)

IsError(c) == \E status \in StatusCodes, cause \in Causes : result[c] = ErrorOf(row(c), status, cause)

ResultInv(c) ==
    \/ result[c] = NoResult
    \/ result[c] = Error("InvalidArgumentError", <<>>)
    \/ wire[c] # Nothing /\ (IsReply(c) \/ IsError(c))

CallsInv ==
    /\ calls \in [Callers -> Nat]
    /\ DOMAIN object = Callers /\ DOMAIN wire = Callers /\ DOMAIN result = Callers
    /\ \A c \in Callers : /\ calls[c] <= MaxCalls[c]
                          /\ ObjectInv(c) /\ WireInv(c) /\ PanicInv(c) /\ ResultInv(c)

\* What a caller's parts say stays true when they do not change.
LEMMA Untouched ==
  ASSUME NEW d \in Callers, object'[d] = object[d], wire'[d] = wire[d], calls'[d] = calls[d]
  PROVE  /\ ObjectInv(d) => ObjectInv(d)'
         /\ WireInv(d) => WireInv(d)'
         /\ result'[d] = result[d] /\ ResultInv(d) => ResultInv(d)'
         /\ /\ pc'[d] = "panicked" => pc[d] = "panicked"
            /\ pc[d] = "idle" => pc'[d] = "idle"
            /\ PanicInv(d)
            => PanicInv(d)'
<1>1. row(d)' = row(d)
  BY DEF row
<1>2. ObjectInv(d) => ObjectInv(d)'
  BY DEF ObjectInv
<1>3. WireInv(d) => WireInv(d)'
  BY <1>1 DEF WireInv
<1>4. ASSUME result'[d] = result[d], ResultInv(d)
      PROVE  ResultInv(d)'
  <2>1. IsError(d) => IsError(d)'
    BY <1>1, <1>4 DEF IsError
  <2>2. Labels(d)' = Labels(d)
    BY DEF Labels
  <2>3. \A reply, parts, item : Interpreted(d, reply, parts, item)' = Interpreted(d, reply, parts, item)
    BY <1>1, <2>2 DEF Interpreted
  <2>4. \A reply : PartsOf(d, reply)' = PartsOf(d, reply)
    BY <1>1 DEF PartsOf
  <2>5. IsReply(d) => IsReply(d)'
    BY <1>1, <1>4, <2>3, <2>4 DEF IsReply
  <2> QED BY <1>4, <2>1, <2>5 DEF ResultInv
<1>5. /\ pc'[d] = "panicked" => pc[d] = "panicked"
      /\ pc[d] = "idle" => pc'[d] = "idle"
      /\ PanicInv(d)
      => PanicInv(d)'
  BY <1>1 DEF PanicInv
<1> QED BY <1>2, <1>3, <1>4, <1>5

\* Nobody has called yet.
LEMMA InitCalls == Init => CallsInv
<1> SUFFICES ASSUME Init PROVE CallsInv
  OBVIOUS
<1>1. \A c \in Callers : /\ object[c] = Nothing /\ wire[c] = Nothing /\ result[c] = NoResult
                         /\ pc[c] = "idle" /\ calls[c] = 0
  BY DEF Init
<1>2. calls \in [Callers -> Nat] /\ DOMAIN object = Callers /\ DOMAIN wire = Callers /\ DOMAIN result = Callers
  BY DEF Init
<1>3. \A c \in Callers : calls[c] <= MaxCalls[c]
  BY <1>1, CallsAssumption
<1> QED BY <1>1, <1>2, <1>3 DEF CallsInv, ObjectInv, WireInv, PanicInv, ResultInv

-----------------------------------------------------------------------------
(* The beginning of a call *)

\* The arguments stay legal when a client writes its cache into them, and when
\* the application rewrites a list of keys.
LEMMA LegalCache ==
  ASSUME NEW op, NEW a \in LegalArguments(op), NEW cache \in STRING
  PROVE  [a EXCEPT !.cache = cache] \in LegalArguments(op)
BY DEF LegalArguments, ArgumentTypes

LEMMA LegalItems ==
  ASSUME NEW a \in LegalArguments("GetBatch"), NEW b \in LegalArguments("GetBatch")
  PROVE  [a EXCEPT !.items = b.items] \in LegalArguments("GetBatch")
BY DEF LegalArguments, ArgumentTypes

\* The operations are those of the table.
LEMMA UsedOperations == \A c \in Callers : \A op \in Ops[c] : op \in DOMAIN Operations
BY ArgumentsAssumption

\* A name that a client writes is the default of the first client that has one.
LEMMA NamedKept ==
  ASSUME NEW op, NEW a, NEW given, NEW used \in Seq(Clients), NEW k \in Clients,
         Named(op, a.cache, given, used)
  PROVE  Named(op, getCacheNameForRequest(op, a, k), given, Append(used, k))
<1> DEFINE cache == getCacheNameForRequest(op, a, k)
           after == Append(used, k)
           n == Len(used)
<1>1. /\ n \in Nat /\ DOMAIN used = 1..n /\ DOMAIN after = 1..(n + 1)
      /\ after[n + 1] = k /\ \A i \in 1..n : after[i] = used[i]
  OBVIOUS
<1>2. CASE given # ""
  BY <1>2 DEF Named, getCacheNameForRequest
<1>3. CASE given = "" /\ a.cache # ""
  <2>1. PICK i \in 1..n : a.cache = DefaultCache[used[i]] /\ \A j \in 1..(i - 1) : DefaultCache[used[j]] = ""
    BY <1>1, <1>3 DEF Named, FirstDefault
  <2>2. cache = a.cache
    BY <1>3 DEF getCacheNameForRequest
  <2>3. i \in 1..(n + 1) /\ \A j \in 1..(i - 1) : j \in 1..n
    BY <1>1
  <2>4. FirstDefault(cache, after)
    BY <1>1, <2>1, <2>2, <2>3 DEF FirstDefault
  <2> QED BY <1>3, <2>2, <2>4 DEF Named
<1>4. CASE given = "" /\ a.cache = ""
  <2>1. CASE op \in DOMAIN CacheClientOperations /\ "cacheName" \in Operations[op].prepare
    <3>1. cache = DefaultCache[k] /\ \A i \in 1..n : DefaultCache[used[i]] = ""
      BY <1>1, <1>4, <2>1 DEF Named, getCacheNameForRequest
    <3>2. FirstDefault(cache, after)
      <4>1. n + 1 \in DOMAIN after /\ (n + 1) - 1 = n
        BY <1>1
      <4>2. cache = DefaultCache[after[n + 1]] /\ \A j \in 1..((n + 1) - 1) : DefaultCache[after[j]] = ""
        BY <1>1, <3>1, <4>1
      <4> HIDE DEF cache, after, n
      <4> QED BY <4>1, <4>2 DEF FirstDefault
    <3>3. cache = "" => \A i \in DOMAIN after : DefaultCache[after[i]] = ""
      <4>1. \A i \in 1..(n + 1) : i \in 1..n \/ i = n + 1
        BY <1>1
      <4> QED BY <1>1, <3>1, <4>1
    <3> QED BY <1>4, <3>2, <3>3 DEF Named
  <2>2. CASE ~(op \in DOMAIN CacheClientOperations /\ "cacheName" \in Operations[op].prepare)
    BY <1>4, <2>2 DEF Named, getCacheNameForRequest
  <2> QED BY <2>1, <2>2
<1> QED BY <1>2, <1>3, <1>4

\* The call that begins sends what its object asks for, or fails.
LEMMA BeginCalls ==
  ASSUME HeadersInv, CallsInv, NEW c \in Callers, NEW op \in Ops[c], NEW asked \in LegalArguments(op),
         NEW given, NEW used \in Seq(Clients), NEW keys \in Seq(STRING), NEW k \in Clients,
         Named(op, asked.cache, given, used), calls[c] = 0 => keys = <<>>,
         Begin(c, op, asked, given, used, keys, k)
  PROVE  CallsInv'
<1> DEFINE cache == getCacheNameForRequest(op, asked, k)
           args == [asked EXCEPT !.cache = cache]
           r == Operations[op]
           d == DefaultTtl[k]
           refused == Refuses(r, args, d)
           panics == ~refused /\ Panics(r, args)
           late == RefusesLate(r, args) \/ PanicsLate(r, args)
           phase == CASE refused -> "idle" [] panics -> "panicked"
                      [] r.service \in Services -> "load" [] OTHER -> "await"
           kept == IF refused THEN keys ELSE KeysKept(op, args, keys)
           o == [op |-> op, args |-> args, given |-> given, used |-> Append(used, k), client |-> k,
                 keys |-> kept]
           message == IF refused \/ panics \/ late THEN Nothing ELSE Message(op, r, args, d)
           outcome == IF refused THEN Error("InvalidArgumentError", <<>>) ELSE NoResult
<1>1. /\ calls[c] < MaxCalls[c]
      /\ calls' = [calls EXCEPT ![c] = @ + 1]
      /\ object' = [object EXCEPT ![c] = o]
      /\ result' = [result EXCEPT ![c] = outcome]
      /\ wire' = [wire EXCEPT ![c] = message]
      /\ pc' = [pc EXCEPT ![c] = phase]
  BY DEF Begin
<1>2. /\ calls \in [Callers -> Nat] /\ DOMAIN pc = Callers
      /\ DOMAIN object = Callers /\ DOMAIN wire = Callers /\ DOMAIN result = Callers
  BY DEF CallsInv, HeadersInv
<1>3. /\ o.op = op /\ o.args = args /\ o.given = given /\ o.used = Append(used, k) /\ o.client = k
      /\ o.keys = kept /\ o # Nothing
  BY DEF Nothing
<1>4. phase = "panicked" => Panics(r, args)
  OBVIOUS
<1>5. DefaultCache[k] \in STRING
  BY ArgumentsAssumption
<1>6. asked.cache \in STRING /\ asked.items \in Seq(STRING)
  BY DEF LegalArguments, ArgumentTypes
<1>7. args \in LegalArguments(op) /\ args.cache = cache /\ args.items = asked.items
  <2>1. cache \in STRING
    BY <1>5, <1>6 DEF getCacheNameForRequest
  <2>2. args.cache = cache /\ args.items = asked.items
    BY DEF LegalArguments, ArgumentTypes
  <2> QED BY <2>1, <2>2, LegalCache
<1>8. Named(op, cache, given, Append(used, k))
  BY NamedKept
<1>9. kept \in Seq(STRING) /\ (op = "GetBatch" /\ ~refused => kept = keys \o args.items)
  <2>1. /\ op = "GetBatch" => KeysKept(op, args, keys) = keys \o args.items
        /\ op # "GetBatch" => KeysKept(op, args, keys) = <<>>
    BY DEF KeysKept
  <2>2. args.items \in Seq(STRING) /\ <<>> \in Seq(STRING)
    BY <1>6, <1>7
  <2>3. keys \o args.items \in Seq(STRING)
    BY <2>2
  <2> HIDE DEF args, refused
  <2> QED BY <2>1, <2>2, <2>3
<1>10. message # Nothing => ~refused /\ ~Panics(r, args) /\ ~late /\ message = Message(op, r, args, d)
  OBVIOUS
<1>11. outcome \in {NoResult, Error("InvalidArgumentError", <<>>)}
  OBVIOUS
<1> HIDE DEF o, message, outcome, phase, kept, refused, late, args, cache
<1>12. /\ calls'[c] = calls[c] + 1 /\ object'[c] = o /\ result'[c] = outcome
       /\ wire'[c] = message /\ pc'[c] = phase
  BY <1>1, <1>2
<1>13. row(c)' = r
  BY <1>3, <1>12 DEF row
<1>14. ObjectInv(c)'
  <2>1. calls'[c] >= 1
    BY <1>2, <1>12
  <2>2. Append(used, k) \in Seq(Clients)
    OBVIOUS
  <2> QED BY <1>3, <1>7, <1>8, <1>9, <1>12, <2>1, <2>2 DEF ObjectInv
<1>15. WireInv(c)'
  <2>1. calls'[c] = 1 => keys = <<>>
    BY <1>2, <1>12
  <2> QED BY <1>3, <1>9, <1>10, <1>12, <1>13, <2>1 DEF WireInv, refused, late
<1>16. PanicInv(c)'
  BY <1>3, <1>4, <1>12, <1>13 DEF PanicInv
<1>17. ResultInv(c)'
  BY <1>11, <1>12 DEF ResultInv, NoResult, Error
<1>18. \A e \in Callers : e # c => /\ object'[e] = object[e] /\ wire'[e] = wire[e] /\ result'[e] = result[e]
                                  /\ calls'[e] = calls[e] /\ pc'[e] = pc[e]
  BY <1>1, <1>2
<1>19. \A e \in Callers : e # c => ObjectInv(e)' /\ WireInv(e)' /\ PanicInv(e)' /\ ResultInv(e)'
  BY <1>18, Untouched DEF CallsInv
<1>20. calls' \in [Callers -> Nat] /\ \A e \in Callers : calls'[e] <= MaxCalls[e]
  BY <1>1, <1>2, CallsAssumption DEF CallsInv
<1>21. DOMAIN object' = Callers /\ DOMAIN wire' = Callers /\ DOMAIN result' = Callers
  BY <1>1, <1>2
<1> QED BY <1>14, <1>15, <1>16, <1>17, <1>19, <1>20, <1>21 DEF CallsInv

\* An object begins with what the application gave, or goes on with what it has.
LEMMA CallCalls ==
  ASSUME HeadersInv, CallsInv, NEW c \in Callers, Call(c) \/ CallAgain(c)
  PROVE  CallsInv'
<1>1. CASE Call(c)
  <2>1. PICK op \in Ops[c], k \in Clients : \E args \in Arguments[op] :
            Begin(c, op, args, args.cache, <<>>, <<>>, k)
    BY <1>1 DEF Call
  <2>2. PICK args \in Arguments[op] : Begin(c, op, args, args.cache, <<>>, <<>>, k)
    BY <2>1
  <2>3. args \in LegalArguments(op)
    BY UsedOperations, ArgumentsAssumption
  <2>4. Named(op, args.cache, args.cache, <<>>)
    BY DEF Named
  <2>5. <<>> \in Seq(Clients) /\ <<>> \in Seq(STRING)
    OBVIOUS
  <2> QED BY <2>2, <2>3, <2>4, <2>5, BeginCalls
<1>2. CASE CallAgain(c)
  <2> DEFINE o == object[c]
  <2>1. o # Nothing
    BY <1>2 DEF CallAgain
  <2>2. PICK k \in Clients, args \in Rewritten(o) : Begin(c, o.op, args, o.given, o.used, o.keys, k)
    BY <1>2 DEF CallAgain
  <2>3. /\ calls[c] >= 1 /\ calls[c] \in Nat /\ o.op \in Ops[c] /\ o.args \in LegalArguments(o.op)
        /\ o.keys \in Seq(STRING) /\ o.used \in Seq(Clients)
        /\ Named(o.op, o.args.cache, o.given, o.used)
    BY <2>1 DEF CallsInv, ObjectInv
  <2>4. args \in LegalArguments(o.op) /\ args.cache = o.args.cache
    <3>1. CASE args = o.args
      BY <2>3, <3>1
    <3>2. CASE args # o.args
      <4>1. o.op = "GetBatch"
        BY <3>2 DEF Rewritten
      <4>2. PICK b \in Arguments["GetBatch"] : args = [o.args EXCEPT !.items = b.items]
        BY <3>2, <4>1 DEF Rewritten
      <4>3. b \in LegalArguments("GetBatch")
        BY <2>3, <4>1, UsedOperations, ArgumentsAssumption
      <4>4. args.cache = o.args.cache
        BY <2>3, <4>2 DEF LegalArguments, ArgumentTypes
      <4> QED BY <2>3, <4>1, <4>2, <4>3, <4>4, LegalItems
    <3> QED BY <3>1, <3>2
  <2>5. calls[c] # 0
    BY <2>3
  <2> HIDE DEF o
  <2> QED BY <2>2, <2>3, <2>4, <2>5, BeginCalls
<1> QED BY <1>1, <1>2

-----------------------------------------------------------------------------
(* The end of a call *)

\* A call that panics on a scope has no message under way, and an object with
\* the scope.
LEMMA PanicCalls ==
  ASSUME HeadersInv, CallsInv, NEW c \in Callers, ScopePanics(c)
  PROVE  CallsInv'
<1>1. /\ pc' = [pc EXCEPT ![c] = "panicked"] /\ PanicsLate(row(c), object[c].args)
      /\ UNCHANGED <<object, wire, result, calls>>
  BY DEF ScopePanics
<1>2. row(c)' = row(c)
  BY <1>1 DEF row
<1>3. object[c] # Nothing
  BY DEF ScopePanics, CallsInv, PanicInv
<1>4. PanicInv(c)'
  BY <1>1, <1>2, <1>3 DEF PanicInv
<1>5. \A e \in Callers : e # c => pc'[e] = pc[e]
  BY <1>1 DEF HeadersInv
<1>6. \A e \in Callers : ObjectInv(e)' /\ WireInv(e)' /\ PanicInv(e)' /\ ResultInv(e)'
  BY <1>1, <1>4, <1>5, Untouched DEF CallsInv
<1> QED BY <1>1, <1>6 DEF CallsInv

\* A call that returns leaves its object and message, and what it returns is in
\* accord with them.
LEMMA ReturnCalls ==
  ASSUME HeadersInv, CallsInv, NEW c \in Callers, NEW r, Return(c, r), ResultInv(c)'
  PROVE  CallsInv'
<1>1. /\ pc' = [pc EXCEPT ![c] = "idle"] /\ result' = [result EXCEPT ![c] = r]
      /\ UNCHANGED <<object, wire, calls>>
  BY DEF Return
<1>2. /\ DOMAIN result' = Callers
      /\ \A e \in Callers : /\ pc'[e] = "panicked" => pc[e] = "panicked"
                            /\ pc[e] = "idle" => pc'[e] = "idle"
                            /\ e # c => result'[e] = result[e]
  BY <1>1 DEF CallsInv, HeadersInv
<1>3. \A e \in Callers : ObjectInv(e)' /\ WireInv(e)' /\ PanicInv(e)' /\ ResultInv(e)'
  BY <1>1, <1>2, Untouched DEF CallsInv
<1> QED BY <1>1, <1>2, <1>3 DEF CallsInv

LEMMA EndCalls ==
  ASSUME HeadersInv, CallsInv, NEW c \in Callers,
         ScopeRefused(c) \/ Answered(c) \/ Failed(c) \/ DeadlineExceeded(c)
  PROVE  CallsInv'
<1>1. ASSUME NEW r, Return(c, r)
      PROVE  /\ object' = object /\ wire' = wire /\ result'[c] = r /\ row(c)' = row(c)
  BY <1>1 DEF Return, CallsInv, row
<1>2. CASE ScopeRefused(c)
  <2>1. Return(c, Error("InvalidArgumentError", <<>>))
    BY <1>2 DEF ScopeRefused
  <2>2. ResultInv(c)'
    BY <1>1, <2>1 DEF ResultInv, Error
  <2> QED BY <2>1, <2>2, ReturnCalls
<1>3. CASE Answered(c)
  <2>1. PICK reply \in DOMAIN row(c).replies, item \in ItemStates(wire[c].asks) :
          /\ CanReply(wire[c].asks, reply, item)
          /\ \E parts \in PartsOf(c, reply) : Return(c, Interpreted(c, reply, parts, item))
    BY <1>3 DEF Answered
  <2>2. PICK parts \in PartsOf(c, reply) : Return(c, Interpreted(c, reply, parts, item))
    BY <2>1
  <2>3. /\ object' = object /\ wire' = wire /\ row(c)' = row(c)
        /\ result'[c] = Interpreted(c, reply, parts, item)
    BY <1>1, <2>2
  <2>4. Labels(c)' = Labels(c)
    BY <2>3 DEF Labels
  <2>5. Interpreted(c, reply, parts, item)' = Interpreted(c, reply, parts, item)
    BY <2>3, <2>4 DEF Interpreted
  <2>6. PartsOf(c, reply)' = PartsOf(c, reply)
    BY <2>3 DEF PartsOf
  <2>7. IsReply(c)'
    BY <2>1, <2>3, <2>5, <2>6 DEF IsReply
  <2>8. wire'[c] # Nothing
    BY <1>3, <2>3 DEF Answered
  <2>9. ResultInv(c)'
    BY <2>7, <2>8 DEF ResultInv
  <2> QED BY <2>2, <2>9, ReturnCalls
<1>4. ASSUME wire[c] # Nothing, NEW status \in StatusCodes, NEW cause \in Causes,
             Return(c, ErrorOf(row(c), status, cause))
      PROVE  CallsInv'
  <2>1. wire'[c] # Nothing /\ row(c)' = row(c) /\ result'[c] = ErrorOf(row(c), status, cause)
    BY <1>1, <1>4
  <2>2. IsError(c)'
    BY <2>1 DEF IsError
  <2>3. ResultInv(c)'
    BY <2>1, <2>2 DEF ResultInv
  <2> QED BY <1>4, <2>3, ReturnCalls
<1>5. CASE Failed(c)
  <2>1. PICK fault \in Faults[object[c].op] : Return(c, ErrorOf(row(c), fault[1], fault[2]))
    BY <1>5 DEF Failed
  <2>2. wire[c] # Nothing /\ object[c].op \in DOMAIN Operations
    BY <1>5, UsedOperations DEF Failed, CallsInv, WireInv, ObjectInv
  <2>3. fault[1] \in StatusCodes /\ fault[2] \in Causes
    BY <2>2, CallsAssumption
  <2> QED BY <1>4, <2>1, <2>2, <2>3
<1>6. CASE DeadlineExceeded(c)
  <2>1. "DeadlineExceeded" \in StatusCodes /\ "none" \in Causes
    BY DEF StatusCodes, CodeOf, Causes
  <2> QED BY <1>4, <1>6, <2>1 DEF DeadlineExceeded
<1> QED BY <1>2, <1>3, <1>5, <1>6

\* Every step keeps the invariant.
LEMMA NextCalls ==
  ASSUME HeadersInv, CallsInv, [Next]_vars
  PROVE  CallsInv'
<1>1. ASSUME UNCHANGED <<object, wire, result, calls>>,
             \A e \in Callers : /\ pc'[e] = "panicked" => pc[e] = "panicked"
                                /\ pc[e] = "idle" => pc'[e] = "idle"
      PROVE  CallsInv'
  <2>1. \A e \in Callers : ObjectInv(e)' /\ WireInv(e)' /\ PanicInv(e)' /\ ResultInv(e)'
    BY <1>1, Untouched DEF CallsInv
  <2> QED BY <1>1, <2>1 DEF CallsInv
<1>2. CASE UNCHANGED vars
  BY <1>1, <1>2 DEF vars
<1>3. ASSUME NEW c \in Callers, LoadFlag(c) \/ StoreFlag(c)
      PROVE  CallsInv'
  <2>1. PICK phase \in {"store", "await"} : pc' = [pc EXCEPT ![c] = phase] /\ pc[c] # "idle"
    BY <1>3 DEF LoadFlag, StoreFlag
  <2>2. \A e \in Callers : /\ pc'[e] = "panicked" => pc[e] = "panicked"
                           /\ pc[e] = "idle" => pc'[e] = "idle"
    BY <2>1 DEF HeadersInv
  <2>3. UNCHANGED <<object, wire, result, calls>>
    BY <1>3 DEF LoadFlag, StoreFlag
  <2> QED BY <1>1, <2>2, <2>3
<1> QED BY <1>2, <1>3, CallCalls, PanicCalls, EndCalls DEF Next, Terminating

-----------------------------------------------------------------------------
(* What follows of a message under way *)

\* A message passed the checks of its row.
LEMMA Sent ==
  ASSUME CallsInv, NEW c \in Callers, wire[c] # Nothing
  PROVE  LET o == object[c]
             d == DefaultTtl[o.client]
         IN /\ o # Nothing /\ o.op \in Ops[c] /\ Facts(o.op, row(c))
            /\ o.args \in LegalArguments(o.op) /\ d \in Lifetimes \ {0}
            /\ ~Refuses(row(c), o.args, d) /\ ~Panics(row(c), o.args)
            /\ ~RefusesLate(row(c), o.args) /\ ~PanicsLate(row(c), o.args)
            /\ wire[c] = Message(o.op, row(c), o.args, d)
            /\ wire[c].op = o.op /\ wire[c].asks = row(c).asks
<1>1. ObjectInv(c) /\ WireInv(c)
  BY DEF CallsInv
<1>2. wire[c] = Message(object[c].op, row(c), object[c].args, DefaultTtl[object[c].client])
  BY <1>1 DEF WireInv
<1>3. wire[c].op = object[c].op /\ wire[c].asks = row(c).asks
  BY <1>2, MessageNames
<1>4. object[c] # Nothing /\ object[c].op \in Ops[c] /\ object[c].client \in Clients
  BY <1>1 DEF ObjectInv, WireInv
<1>5. object[c].op \in DOMAIN Operations
  BY <1>4, UsedOperations
<1>6. Facts(object[c].op, row(c))
  BY <1>5, Rows DEF row
<1>7. DefaultTtl[object[c].client] \in Lifetimes \ {0}
  BY <1>4, ArgumentsAssumption
<1> QED BY <1>1, <1>2, <1>3, <1>4, <1>6, <1>7 DEF ObjectInv, WireInv

\* The lifetime and the alternative in a message have their types.
LEMMA TypesHold == HeadersInv /\ CallsInv => TypeOK
<1> SUFFICES ASSUME HeadersInv, CallsInv PROVE TypeOK
  OBVIOUS
<1>1. ASSUME NEW c \in Callers, wire[c] # Nothing
      PROVE  /\ wire[c].asks \in {""} \cup isXSetIfRequest_Condition \cup isXUpdateTtlRequest_UpdateTtl
             /\ wire[c].ttl \in 0..(Modulus - 1)
  <2> DEFINE o == object[c]
             d == DefaultTtl[o.client]
             r == row(c)
  <2>1. /\ Checks(o.op, r) /\ o.args \in LegalArguments(o.op) /\ d \in Lifetimes
        /\ ~Refuses(r, o.args, d) /\ wire[c] = Message(o.op, r, o.args, d) /\ wire[c].asks = r.asks
    BY <1>1, Sent DEF Facts
  <2>2. wire[c].ttl \in 0..(Modulus - 1)
    <3> DEFINE given == r.prepare \cap {"ttl", "collectionTtl", "updateTtl"} # {}
               asked == IF o.args.ttl = 0 \/ ("collectionTtl" \in r.prepare /\ o.args.collection = "none")
                        THEN d ELSE o.args.ttl
    <3>1. asked \in Int
      BY <2>1, WidthAssumption DEF LegalArguments, ArgumentTypes, Lifetimes
    <3>2. given => wire[c].ttl = uint64(Milliseconds(asked))
      BY <2>1, MessageTtl
    <3>3. ~given => wire[c].ttl = 0
      BY <2>1, MessageWithoutTtl
    <3>4. 0 \in 0..(Modulus - 1)
      BY WidthAssumption
    <3> QED BY <3>1, <3>2, <3>3, <3>4, LifetimeOnTheWire
  <2> QED BY <2>1, <2>2 DEF Checks
<1>2. ASSUME NEW c \in Callers
      PROVE  result[c].kind \in {"none", "answer", "error"}
  <2>1. ResultInv(c)
    BY DEF CallsInv
  <2>2. \A what, reply, parts, fault, item : Answer(what, reply, parts, fault, item).kind = "answer"
    BY DEF Answer
  <2>3. \A code, fault : Error(code, fault).kind = "error"
    BY DEF Error
  <2>4. IsReply(c) => result[c].kind \in {"answer", "error"}
    BY <2>2, <2>3 DEF IsReply, Interpreted
  <2>5. ASSUME NEW status \in StatusCodes, NEW cause \in Causes, result[c] = ErrorOf(row(c), status, cause)
        PROVE  result[c].kind \in {"answer", "error"}
    <3> DEFINE code == ConvertSvcErr(status, IF row(c).metadata THEN cause ELSE "none")
               answer == Answer(row(c).onError[code], "", <<>>, <<status, cause>>, "missing")
               error == Error(IF code \in DOMAIN row(c).errorAs THEN row(c).errorAs[code] ELSE code, <<status, cause>>)
    <3>1. result[c] = answer \/ result[c] = error
      BY <2>5 DEF ErrorOf
    <3>2. answer.kind = "answer" /\ error.kind = "error"
      BY DEF Answer, Error
    <3> HIDE DEF answer, error
    <3> QED BY <3>1, <3>2
  <2> QED BY <2>1, <2>3, <2>4, <2>5 DEF ResultInv, NoResult, IsError
<1>3. ASSUME NEW c \in Callers
      PROVE  (object[c] = Nothing \/ object[c].op \in Ops[c]) /\ calls[c] \in 0..MaxCalls[c]
  BY CallsAssumption DEF CallsInv, ObjectInv
<1> QED BY <1>1, <1>2, <1>3 DEF TypeOK, HeadersInv

\* Types and well-formedness: nothing that was refused is sent.
LEMMA WellFormed == CallsInv => OnlyWellFormedMessages
<1> SUFFICES ASSUME CallsInv, NEW c \in Callers
             PROVE  /\ OnTheWire(c) =>
                        LET m == wire[c]
                            keyed == row(c).prepare \cap {"key", "storeKey", "keys", "field", "fields",
                                                          "element", "elements"} # {}
                        IN /\ "nil" \notin m.values \cup ElementsOf(m.items)
                           /\ "blank" \notin {m.cache, m.name}
                           /\ row(c).service = "cache" => m.cache # ""
                           /\ keyed => "empty" \notin ElementsOf(m.items)
                           /\ m.op \in {"GenerateApiKey", "GenerateDisposableToken"} =>
                                NoNilTopic(object[c].args.scope)
                           /\ row(c).request \ row(c).sets =
                                CASE m.op = "GenerateApiKey" -> {"TokenId", "Description"}
                                  [] m.op \in {"ListCaches", "ListStores"} -> {"NextToken"}
                                  [] OTHER -> {}
                    /\ pc[c] = "panicked" =>
                        LET op == object[c].op
                            a == object[c].args
                        IN \/ op \in {"GetBatch", "SetBatch", "SetContainsElements"} /\ "nil" \in ElementsOf(a.items)
                           \/ op = "SetBatch" /\ a.items # <<>> /\ a.value = "nil"
                           \/ op \in {"GenerateApiKey", "GenerateDisposableToken"} /\ ~NoNilTopic(a.scope)
  BY DEF OnlyWellFormedMessages
<1> DEFINE o == object[c]
           d == DefaultTtl[o.client]
           r == row(c)
<1>1. CASE OnTheWire(c)
  <2>1. /\ Checks(o.op, r) /\ o.args \in LegalArguments(o.op)
        /\ ~Refuses(r, o.args, d) /\ ~Panics(r, o.args) /\ ~PanicsLate(r, o.args)
        /\ wire[c] = Message(o.op, r, o.args, d) /\ wire[c].op = o.op /\ o.op \in DOMAIN Operations
    BY <1>1, Sent, UsedOperations DEF OnTheWire, Facts
  <2>2. "ids" \in r.prepare => "nil" \notin ElementsOf(o.args.items)
    BY <2>1 DEF LegalArguments, row
  <2>3. /\ "nil" \notin ElementsOf(wire[c].items)
        /\ r.prepare \cap {"key", "storeKey", "keys", "field", "fields", "element", "elements"} # {} =>
              "empty" \notin ElementsOf(wire[c].items)
    BY <2>1, <2>2, MessageItems
  <2>4. /\ "nil" \notin wire[c].values /\ "blank" \notin {wire[c].cache, wire[c].name}
        /\ r.service = "cache" => wire[c].cache # ""
    BY <2>1, MessageValues
  <2>5. /\ wire[c].op = "GenerateApiKey" => r.request \ r.sets = {"TokenId", "Description"}
        /\ wire[c].op \in {"ListCaches", "ListStores"} => r.request \ r.sets = {"NextToken"}
        /\ wire[c].op \notin {"GenerateApiKey", "ListCaches", "ListStores"} => r.request \ r.sets = {}
    BY <2>1 DEF Checks
  <2>6. wire[c].op \in {"GenerateApiKey", "GenerateDisposableToken"} => NoNilTopic(o.args.scope)
    <3>1. o.op \in {"GenerateApiKey", "GenerateDisposableToken"} => ~PanicsOnScope(o.args.scope)
      BY <2>1 DEF Checks, PanicsLate
    <3> QED BY <2>1, <3>1 DEF PanicsOnScope, PanicsOnPermission, NoNilTopic
  <2> HIDE DEF o, r
  <2> QED BY <1>1, <2>3, <2>4, <2>5, <2>6 DEF OnTheWire, o, r
<1>2. CASE pc[c] = "panicked"
  <2>1. object[c] # Nothing /\ (Panics(r, o.args) \/ PanicsLate(r, o.args)) /\ o.op \in Ops[c]
    BY <1>2 DEF CallsInv, PanicInv, ObjectInv
  <2>2. Checks(o.op, r)
    BY <2>1, UsedOperations, Rows DEF Facts, row
  <2>3. Panics(r, o.args) =>
          \/ o.op \in {"GetBatch", "SetBatch", "SetContainsElements"} /\ "nil" \in ElementsOf(o.args.items)
          \/ o.op = "SetBatch" /\ o.args.items # <<>> /\ o.args.value = "nil"
    BY <2>2 DEF Panics, Checks, validateNotNil
  <2>4. PanicsLate(r, o.args) =>
          o.op \in {"GenerateApiKey", "GenerateDisposableToken"} /\ ~NoNilTopic(o.args.scope)
    BY <2>2 DEF PanicsLate, Checks, PanicsOnScope, PanicsOnPermission, NoNilTopic
  <2> QED BY <1>2, <2>1, <2>3, <2>4 DEF OnTheWire
<1> QED BY <1>1, <1>2

\* The lifetime in a message, for each of the three kinds of it.
LEMMA Lasts == CallsInv => TtlArrives
<1> SUFFICES ASSUME CallsInv, NEW c \in Callers, OnTheWire(c)
             PROVE  LET p == row(c).prepare
                        ms == wire[c].ttl
                        a == object[c].args
                        default == a.ttl = 0 \/ ("collectionTtl" \in p /\ a.collection = "none")
                        asked == IF default THEN DefaultTtl[object[c].client] ELSE a.ttl
                        sendsTtl == p \cap {"ttl", "collectionTtl", "updateTtl"} # {}
                    IN /\ sendsTtl /\ asked > 0 => (2 * ms <= asked /\ asked < 2 * (ms + 1))
                       /\ "ttl" \in p => ms > 0
                       /\ sendsTtl /\ asked < 0 => ("collectionTtl" \in p /\ default)
                       /\ "RefreshTtl" \in row(c).request =>
                            (wire[c].refresh <=> a.collection \in {"none", "FromCacheTtl", "WithRefreshTtlOnUpdates",
                                                                    "RefreshTtlIfProvided(ttl)"})
  BY DEF TtlArrives
<1> DEFINE r == row(c)
           p == r.prepare
           a == object[c].args
           d == DefaultTtl[object[c].client]
           default == a.ttl = 0 \/ ("collectionTtl" \in p /\ a.collection = "none")
           asked == IF default THEN d ELSE a.ttl
           sendsTtl == p \cap {"ttl", "collectionTtl", "updateTtl"} # {}
<1>1. /\ Checks(object[c].op, r) /\ a \in LegalArguments(object[c].op) /\ d \in Lifetimes \ {0}
      /\ ~Refuses(r, a, d) /\ wire[c] = Message(object[c].op, r, a, d)
  BY Sent DEF OnTheWire, Facts
<1>2. a.ttl \in Lifetimes /\ asked \in Lifetimes /\ Lifetimes \subseteq Int
  BY <1>1, WidthAssumption DEF LegalArguments, ArgumentTypes, Lifetimes
<1>3. sendsTtl => wire[c].ttl = uint64(Milliseconds(asked))
  BY <1>1, MessageTtl
<1>4. sendsTtl /\ asked > 0 => (2 * wire[c].ttl <= asked /\ asked < 2 * (wire[c].ttl + 1))
  <2>1. asked > 0 => asked \in 0 .. 2 * Modulus - 1
    BY <1>2, WidthAssumption DEF Lifetimes
  <2> HIDE DEF asked, sendsTtl
  <2> QED BY <1>3, <2>1, CutToMilliseconds
<1>5. "ttl" \in p => asked = GivenTtl(a, d) /\ asked > 0 /\ wire[c].ttl > 0
  <2> SUFFICES ASSUME "ttl" \in p PROVE asked = GivenTtl(a, d) /\ asked > 0 /\ wire[c].ttl > 0
    OBVIOUS
  <2>1. "collectionTtl" \notin p /\ prepareTtl(a, d)
    BY <1>1, Accepted DEF Checks
  <2>2. asked = GivenTtl(a, d)
    BY <2>1 DEF GivenTtl
  <2>3. asked > 0 /\ wire[c].ttl # 0
    BY <1>3, <2>1, <2>2 DEF prepareTtl
  <2>4. wire[c].ttl \in 0 .. Modulus - 1
    BY <1>2, <1>3, LifetimeOnTheWire
  <2> HIDE DEF asked
  <2> QED BY <2>2, <2>3, <2>4, WidthAssumption
<1>6. sendsTtl /\ asked < 0 => ("collectionTtl" \in p /\ default)
  <2>1. /\ "collectionTtl" \in p => prepareCollectionTtl(a)
        /\ "updateTtl" \in p => prepareUpdateTtl(a)
    BY <1>1, Accepted
  <2>2. "collectionTtl" \in p /\ ~default => asked = a.ttl /\ asked >= 0
    BY <2>1 DEF prepareCollectionTtl
  <2>3. "updateTtl" \in p => asked = a.ttl /\ asked > 0
    <3>1. "updateTtl" \in p => "collectionTtl" \notin p /\ a.ttl > 0
      BY <1>1, <2>1 DEF Checks, prepareUpdateTtl
    <3>2. a.ttl > 0 => a.ttl # 0
      BY <1>2
    <3> QED BY <3>1, <3>2
  <2> HIDE DEF asked, default
  <2> QED BY <1>2, <1>5, <2>2, <2>3
<1>7. "RefreshTtl" \in r.request =>
        (wire[c].refresh <=> a.collection \in {"none", "FromCacheTtl", "WithRefreshTtlOnUpdates",
                                                "RefreshTtlIfProvided(ttl)"})
  <2> SUFFICES ASSUME "RefreshTtl" \in r.request
               PROVE  wire[c].refresh <=> a.collection \in {"none", "FromCacheTtl", "WithRefreshTtlOnUpdates",
                                                             "RefreshTtlIfProvided(ttl)"}
    OBVIOUS
  <2>1. "collectionTtl" \in p /\ "RefreshTtl" \in r.sets
    BY <1>1 DEF Checks
  <2>2. wire[c].refresh <=> (a.collection = "none" \/ RefreshTtl(a))
    BY <1>1, <2>1, MessageRefresh
  <2> QED BY <2>2 DEF RefreshTtl
<1> QED BY <1>4, <1>5, <1>6, <1>7

\* A named cache is a name that was written into the object.
LEMMA Stays == CallsInv => RequestsStayInTheirCache
<1> SUFFICES ASSUME CallsInv, NEW c \in Callers, wire[c] # Nothing, wire[c].cache # ""
             PROVE  IF object[c].given # "" THEN wire[c].cache = object[c].given
                    ELSE FirstDefault(wire[c].cache, object[c].used)
  BY DEF RequestsStayInTheirCache, OnTheWire
<1>1. wire[c].cache = object[c].args.cache
  <2> DEFINE m == Message(object[c].op, row(c), object[c].args, DefaultTtl[object[c].client])
  <2>1. m.cache = object[c].args.cache \/ m.cache = ""
    BY DEF Message
  <2>2. wire[c] = m
    BY Sent
  <2> HIDE DEF m
  <2> QED BY <2>1, <2>2
<1>2. Named(object[c].op, object[c].args.cache, object[c].given, object[c].used)
  BY Sent DEF CallsInv, ObjectInv
<1> QED BY <1>1, <1>2 DEF Named

\* A scope reaches the service permission by permission.
LEMMA TokensAllow == CallsInv => TokensAllowWhatWasAsked
<1> SUFFICES ASSUME CallsInv, NEW c \in Callers, wire[c] # Nothing, row(c).service = "auth",
                    wire[c].op # "RefreshApiKey"
             PROVE  LET a == object[c].args
                        counted == IF wire[c].op = "GenerateApiKey"
                                   THEN {p \in a.scope.permissions : p.type # "disposable"}
                                   ELSE IF a.scope.kind = "Permissions" THEN a.scope.permissions ELSE {}
                    IN /\ a.scope.kind = "SuperUser" =>
                            wire[c].op = "GenerateApiKey" /\ wire[c].permissions = SuperUserPermissions
                       /\ a.scope.kind # "SuperUser" =>
                            UNION {RightsGranted(g) : g \in wire[c].permissions}
                                = UNION {RightsAsked(p) : p \in counted}
                       /\ a.expires \in 0..(Modulus - 1) \cup {Never} => wire[c].seconds = a.expires
  BY DEF TokensAllowWhatWasAsked, OnTheWire
<1> DEFINE a == object[c].args
           r == row(c)
           d == DefaultTtl[object[c].client]
           allowed == a.scope.permissions
<1>1. /\ Checks(object[c].op, r) /\ a \in LegalArguments(object[c].op) /\ object[c].op \in DOMAIN Operations
      /\ ~Refuses(r, a, d) /\ ~RefusesLate(r, a) /\ ~PanicsLate(r, a)
      /\ wire[c] = Message(object[c].op, r, a, d) /\ wire[c].op = object[c].op
  BY Sent, UsedOperations DEF Facts
<1>2. allowed \in SUBSET (CachePermission \cup TopicPermission \cup DisposableTokenCachePermission)
  BY <1>1 DEF LegalArguments, ArgumentTypes
<1>3. \A p \in allowed : p.type \in {"cache", "topic", "disposable"}
  BY <1>2 DEF CachePermission, TopicPermission, DisposableTokenCachePermission
<1>4. \A n \in 0..(Modulus - 1) : uint32(n) = n
  BY WidthAssumption DEF uint32
<1>5. CASE wire[c].op = "GenerateApiKey"
  <2>1. r.prepare = {"keyExpiry", "keyScope"}
    BY <1>1, <1>5 DEF Checks
  <2>2. wire[c].permissions = permissionsFromTokenScope(a.scope)
    BY <1>1, <2>1, MessageOfKey
  <2>3. {p \in allowed : p.type \in {"cache", "topic"}} = {p \in allowed : p.type # "disposable"}
    BY <1>3
  <2>4. a.scope.kind = "Permissions" =>
          UNION {RightsGranted(g) : g \in Converted(allowed, {"cache", "topic"})}
            = UNION {RightsAsked(p) : p \in {q \in allowed : q.type \in {"cache", "topic"}}}
    <3>1. a.scope.kind = "Permissions" => \A p \in allowed : ~PanicsOnPermission(p)
      BY <1>1, <2>1 DEF PanicsLate, PanicsOnScope
    <3> QED BY <1>2, <3>1, ScopeKeepsRights
  <2>5. wire[c].seconds = IF a.expires = Never THEN Never ELSE uint32(a.expires)
    BY <1>1, <2>1, MessageOfKey
  <2>6. a.expires \in 0..(Modulus - 1) \cup {Never} => wire[c].seconds = a.expires
    BY <1>4, <2>5
  <2>7. a.scope.kind \in {"SuperUser", "Permissions"}
    BY <1>1, <2>1 DEF RefusesLate, RefusesScope
  <2> QED BY <1>5, <2>2, <2>3, <2>4, <2>6, <2>7 DEF permissionsFromTokenScope
<1>6. CASE wire[c].op # "GenerateApiKey"
  <2>1. r.prepare = {"tokenExpiry", "tokenScope"} /\ r = Operations[object[c].op]
    BY <1>1, <1>6 DEF Checks, row
  <2>2. wire[c].permissions = disposablePermissions(a.scope)
    BY <1>1, <2>1, MessageOfToken
  <2>3. a.scope.kind # "SuperUser"
    BY <1>1, <2>1 DEF LegalArguments
  <2>4. {p \in allowed : p.type \in {"cache", "topic", "disposable"}} = allowed
    BY <1>3
  <2>5. a.scope.kind = "Permissions" =>
          UNION {RightsGranted(g) : g \in Converted(allowed, {"cache", "topic", "disposable"})}
            = UNION {RightsAsked(p) : p \in {q \in allowed : q.type \in {"cache", "topic", "disposable"}}}
    <3>1. a.scope.kind = "Permissions" => \A p \in allowed : ~PanicsOnPermission(p)
      BY <1>1, <2>1 DEF PanicsLate, PanicsOnScope
    <3> QED BY <1>2, <3>1, ScopeKeepsRights
  <2>6. a.expires # Never
    BY <1>1, <2>1, Accepted DEF ValidateDisposableTokenExpiry
  <2>7. wire[c].seconds = uint32(a.expires)
    BY <1>1, <2>1, MessageOfToken
  <2>8. a.expires \in 0..(Modulus - 1) \cup {Never} => wire[c].seconds = a.expires
    BY <1>4, <2>6, <2>7
  <2> QED BY <1>6, <2>2, <2>3, <2>4, <2>5, <2>8 DEF disposablePermissions
<1> QED BY <1>5, <1>6

-----------------------------------------------------------------------------
(* What follows of a result *)

\* An answer is the reading of a reply, or stands for an error.
LEMMA AnswersRead ==
  ASSUME CallsInv, NEW c \in Callers, result[c].kind = "answer"
  PROVE  LET r == row(c)
         IN /\ wire[c] # Nothing
            /\ \/ \E reply \in DOMAIN r.replies \cap DOMAIN r.interpret, item \in ItemStates(r.asks) :
                     /\ CanReply(r.asks, reply, item)
                     /\ result[c].what = r.interpret[reply].what
                     /\ result[c].reply = reply /\ result[c].item = item
                     /\ \E parts \in PartsOf(c, reply) :
                           result[c].parts = [i \in DOMAIN parts |-> <<Labels(c)[i], r.parts[parts[i]]>>]
               \/ \E code \in DOMAIN r.onError :
                     result[c].what = r.onError[code] /\ result[c].reply = "" /\ result[c].parts = <<>>
<1> DEFINE r == row(c)
<1>1. wire[c] # Nothing /\ (IsReply(c) \/ IsError(c))
  BY DEF CallsInv, ResultInv, NoResult, Error
<1>2. wire[c].asks = r.asks
  BY <1>1, Sent
<1>3. \A code, fault : Error(code, fault).kind # "answer"
  BY DEF Error
<1>4. CASE IsReply(c)
  <2>1. PICK reply \in DOMAIN r.replies, item \in ItemStates(r.asks) :
          /\ CanReply(r.asks, reply, item)
          /\ \E parts \in PartsOf(c, reply) : result[c] = Interpreted(c, reply, parts, item)
    BY <1>2, <1>4 DEF IsReply
  <2>2. PICK parts \in PartsOf(c, reply) : result[c] = Interpreted(c, reply, parts, item)
    BY <2>1
  <2> DEFINE read == [i \in DOMAIN parts |-> <<Labels(c)[i], r.parts[parts[i]]>>]
             answer == Answer(r.interpret[reply].what, reply, read, <<>>, item)
  <2>3. reply \in DOMAIN r.interpret /\ result[c] = answer
    BY <1>3, <2>2 DEF Interpreted
  <2>4. /\ answer.what = r.interpret[reply].what /\ answer.reply = reply
        /\ answer.parts = read /\ answer.item = item
    BY DEF Answer
  <2> HIDE DEF answer
  <2> QED BY <1>1, <2>1, <2>3, <2>4
<1>5. CASE IsError(c)
  <2>1. PICK status \in StatusCodes, cause \in Causes : result[c] = ErrorOf(r, status, cause)
    BY <1>5 DEF IsError
  <2> DEFINE code == ConvertSvcErr(status, IF r.metadata THEN cause ELSE "none")
             answer == Answer(r.onError[code], "", <<>>, <<status, cause>>, "missing")
  <2>2. code \in DOMAIN r.onError /\ result[c] = answer
    BY <1>3, <2>1 DEF ErrorOf
  <2>3. answer.what = r.onError[code] /\ answer.reply = "" /\ answer.parts = <<>>
    BY DEF Answer
  <2> HIDE DEF answer
  <2> QED BY <1>1, <2>2, <2>3
<1> QED BY <1>1, <1>4, <1>5

\* The labels of an answer are the elements sent, or the keys of a GetBatch
\* object, which end with them.
LEMMA Own == CallsInv => AnswerIsOwn
<1> SUFFICES ASSUME CallsInv, NEW c \in Callers, result[c].kind = "answer", result[c].parts # <<>>
             PROVE  LET parts == result[c].parts
                        labels == [i \in DOMAIN parts |-> parts[i][1]]
                    IN /\ Len(parts) = Len(wire[c].items)
                       /\ \/ labels = wire[c].items
                          \/ /\ object[c].op = "GetBatch" /\ calls[c] > 1
                             /\ labels = SubSeq(object[c].keys, 1, Len(parts))
  BY DEF AnswerIsOwn
<1> DEFINE items == wire[c].items
           read == result[c].parts
           labels == [i \in DOMAIN read |-> read[i][1]]
           a == object[c].args
<1>0. PICK reply : \E parts \in PartsOf(c, reply) :
        read = [i \in DOMAIN parts |-> <<Labels(c)[i], row(c).parts[parts[i]]>>]
  BY AnswersRead
<1>1. PICK parts \in PartsOf(c, reply) :
        read = [i \in DOMAIN parts |-> <<Labels(c)[i], row(c).parts[parts[i]]>>]
  BY <1>0
<1>2. parts \in [1..Len(items) -> ECacheResult]
  <2>1. parts # <<>>
    BY <1>1
  <2> QED BY <1>1, <2>1 DEF PartsOf
<1>3. wire[c] # Nothing
  BY AnswersRead
<1>4. items \in Seq(STRING)
  <2>1. a.items \in Seq(STRING) /\ a.item \in STRING
    BY <1>3, Sent DEF LegalArguments, ArgumentTypes
  <2> QED BY <1>3, <2>1, Sent, MessageElements
<1>5. Len(items) \in Nat /\ DOMAIN items = 1..Len(items)
  BY <1>4
<1>6. DOMAIN read = 1..Len(items) /\ \A i \in 1..Len(items) : read[i][1] = Labels(c)[i]
  BY <1>1, <1>2
<1>7. read \in Seq({read[i] : i \in 1..Len(items)}) /\ Len(read) = Len(items)
  <2>1. read = [i \in 1..Len(items) |-> read[i]]
    BY <1>1, <1>2
  <2> HIDE DEF read, items
  <2> QED BY <1>5, <2>1
<1>8. labels = [i \in 1..Len(items) |-> Labels(c)[i]]
  BY <1>6
<1>9. items = [i \in 1..Len(items) |-> items[i]]
  BY <1>4
<1> HIDE DEF labels, read, items
<1>10. object[c].op # "GetBatch" => labels = items
  <2> SUFFICES ASSUME object[c].op # "GetBatch" PROVE labels = items
    OBVIOUS
  <2>1. Labels(c) = items
    BY DEF Labels, items
  <2> QED BY <1>8, <1>9, <2>1
<1>11. object[c].op = "GetBatch" => labels = items \/ (calls[c] > 1 /\ labels = SubSeq(object[c].keys, 1, Len(read)))
  <2> SUFFICES ASSUME object[c].op = "GetBatch"
               PROVE  labels = items \/ (calls[c] > 1 /\ labels = SubSeq(object[c].keys, 1, Len(read)))
    OBVIOUS
  <2>1. Labels(c) = object[c].keys /\ object[c].keys \in Seq(STRING) /\ calls[c] >= 1 /\ calls[c] \in Nat
    BY <1>3, Sent DEF Labels, CallsInv, ObjectInv
  <2>2. items = a.items
    <3>1. row(c).prepare = {"cacheName", "unchecked"}
      BY <1>3, Sent DEF Facts, Checks
    <3> QED BY <1>3, <3>1, Sent, MessageElements DEF items
  <2>3. PICK kept \in Seq(STRING) : object[c].keys = kept \o items /\ (calls[c] = 1 => kept = <<>>)
    BY <1>3, <2>2 DEF CallsInv, WireInv
  <2>4. CASE calls[c] = 1
    <3>1. object[c].keys = items
      BY <1>4, <2>3, <2>4
    <3> QED BY <1>8, <1>9, <2>1, <3>1
  <2>5. CASE calls[c] > 1
    <3>1. Len(items) <= Len(object[c].keys)
      BY <1>4, <1>5, <2>3
    <3>2. labels = SubSeq(object[c].keys, 1, Len(items))
      BY <1>5, <1>8, <2>1, <3>1
    <3> QED BY <1>7, <2>5, <3>2
  <2> QED BY <2>1, <2>4, <2>5
<1>12. Len(read) = Len(items)
  BY <1>7
<1> QED BY <1>10, <1>11, <1>12 DEF labels, read, items

\* What an answer drops of a reply is what its row drops.
LEMMA TellAll == CallsInv => AnswersTellWhatCame
<1> SUFFICES ASSUME CallsInv, NEW c \in Callers, result[c].kind = "answer", result[c].reply # ""
             PROVE  LET op == object[c].op
                        reply == result[c].reply
                        dropped == row(c).replies[reply] \ row(c).interpret[reply].tells
                        blind == {"Set", "ListRemoveValue", "SetRemoveElements", "SetRemoveElement"}
                    IN /\ dropped =
                            CASE op \in {"Get", "GetBatch"} ->
                                    {"Message"} \cup (IF reply = "Miss" THEN {"CacheBody"} ELSE {})
                              [] op \in {"Set", "SetBatch"} -> {"Message"}
                              [] op \in {"ListPopFront", "ListPopBack", "ListRemoveValue"} /\ reply = "Found" ->
                                    {"ListLength"}
                              [] op = "ListCaches" -> {"CacheLimits", "TopicLimits"}
                              [] op = "SortedSetGetRank" /\ reply = "Miss" -> {"Result", "Rank"}
                              [] OTHER -> {}
                       /\ reply \in {"Missing", "Miss"} =>
                            result[c].what = IF op \in blind THEN "Success" ELSE "Miss"
  BY DEF AnswersTellWhatCame
<1> DEFINE op == object[c].op
           r == row(c)
           reply == result[c].reply
<1>1. reply \in DOMAIN r.replies \cap DOMAIN r.interpret /\ result[c].what = r.interpret[reply].what
  BY AnswersRead
<1>2. Reads(op, r)
  BY AnswersRead, Sent DEF Facts
<1> HIDE DEF r, op, reply
<1> QED BY <1>1, <1>2 DEF Reads, r, op, reply

\* The service stores on what the row's alternative asks for.
LEMMA Conditions == CallsInv => ConditionsAreKept
<1> SUFFICES ASSUME CallsInv, NEW c \in Callers, result[c].kind = "answer",
                    result[c].what \in {"Stored", "Set"}
             PROVE  result[c].item \in
                      CASE object[c].op \in {"SetIfNotExists", "SetIfAbsent"} -> {"missing"}
                        [] object[c].op = "SetIfPresent" -> {"equal", "other"}
                        [] object[c].op = "SetIfEqual" -> {"equal"}
                        [] object[c].op = "SetIfNotEqual" -> {"missing", "other"}
                        [] object[c].op = "SetIfPresentAndNotEqual" -> {"other"}
                        [] object[c].op = "SetIfAbsentOrEqual" -> {"missing", "equal"}
                        [] object[c].op = "UpdateTtl" -> {"shorter", "longer"}
                        [] object[c].op = "IncreaseTtl" -> {"shorter"}
                        [] object[c].op = "DecreaseTtl" -> {"longer"}
  BY DEF ConditionsAreKept
<1> DEFINE op == object[c].op
           r == row(c)
           item == result[c].item
<1>1. Facts(op, r)
  BY AnswersRead, Sent
<1>2. \A code \in DOMAIN r.onError : result[c].what # r.onError[code]
  BY <1>1 DEF Facts, Errors
<1>3. PICK reply \in DOMAIN r.replies \cap DOMAIN r.interpret :
         /\ result[c].what = r.interpret[reply].what
         /\ item \in ItemStates(r.asks) /\ CanReply(r.asks, reply, item)
  BY <1>2, AnswersRead
<1>4. reply \in {"Stored", "Set"} /\ op \in DOMAIN Asked /\ r.asks = Asked[op]
  BY <1>1, <1>3 DEF Facts, Reads
<1>5. r.asks # ""
  BY <1>4, AskedFor
<1>6. Holds(r.asks, item)
  BY <1>3, <1>4, <1>5 DEF CanReply
<1> HIDE DEF op, r, item
<1>7. CASE op \in {"UpdateTtl", "IncreaseTtl", "DecreaseTtl"}
  <2>1. r.asks \in isXUpdateTtlRequest_UpdateTtl
    BY <1>4, <1>7, AskedFor DEF isXUpdateTtlRequest_UpdateTtl
  <2>2. item \in {"missing", "shorter", "longer"}
    BY <1>3, <2>1 DEF ItemStates, isXSetIfRequest_Condition, isXUpdateTtlRequest_UpdateTtl
  <2> QED BY <1>4, <1>6, <1>7, <2>2, AskedFor DEF Holds, op, item
<1>8. CASE op \notin {"UpdateTtl", "IncreaseTtl", "DecreaseTtl"}
  <2>1. r.asks \in isXSetIfRequest_Condition
    BY <1>4, <1>8, AskedFor DEF isXSetIfRequest_Condition
  <2>2. item \in {"missing", "equal", "other"}
    BY <1>3, <2>1 DEF ItemStates, isXSetIfRequest_Condition, isXUpdateTtlRequest_UpdateTtl
  <2> QED BY <1>4, <1>6, <1>8, <2>2, AskedFor DEF Holds, op, item
<1> QED BY <1>7, <1>8

\* A code is one of those that its status may have.
LEMMA CodeFitsStatus ==
  ASSUME NEW status \in StatusCodes, NEW cause \in Causes
  PROVE  LET code == ConvertSvcErr(status, cause) IN code \in DOMAIN StatusesOf /\ status \in StatusesOf[code]
<1>1. CASE \/ status = "NotFound" /\ cause \in {"item_not_found", "store_not_found"}
           \/ status = "AlreadyExists" /\ cause = "store_already_exists"
  BY <1>1 DEF ConvertSvcErr, StatusesOf
<1>2. CASE ~(\/ status = "NotFound" /\ cause \in {"item_not_found", "store_not_found"}
             \/ status = "AlreadyExists" /\ cause = "store_already_exists")
  <2>1. ConvertSvcErr(status, cause) = CodeOf[status]
    BY <1>2 DEF ConvertSvcErr
  <2>2. CodeOf[status] \in DOMAIN StatusesOf /\ status \in StatusesOf[CodeOf[status]]
    BY DEF CodeOf, StatusCodes, StatusesOf
  <2> QED BY <2>1, <2>2
<1> QED BY <1>1, <1>2

\* Which errors become an answer, and what the others are called.
LEMMA Failures == CallsInv => FailuresAreErrors
<1> SUFFICES ASSUME CallsInv, NEW c \in Callers, result[c].kind # "none", result[c].fault # <<>>
             PROVE  LET op == object[c].op
                        what == result[c].what
                        status == result[c].fault[1]
                        causeUnread == {"GetBatch", "SetBatch", "Ping", "GenerateApiKey", "RefreshApiKey"}
                        cause == IF op \in causeUnread THEN "none" ELSE result[c].fault[2]
                        noItem == status = "NotFound" /\ cause = "item_not_found"
                        noStore == status = "NotFound" /\ cause = "store_not_found"
                        storeExists == status = "AlreadyExists" /\ cause = "store_already_exists"
                    IN /\ result[c].kind = "answer" <=>
                            \/ op \in {"CreateCache", "CreateStore"} /\ status = "AlreadyExists" /\ ~storeExists
                            \/ op = "DeleteCache" /\ status = "NotFound" /\ ~noItem /\ ~noStore
                            \/ op = "StorageGet" /\ noItem
                       /\ result[c].kind = "error" =>
                            IF op = "GenerateDisposableToken" THEN what = "ClientSdkError"
                            ELSE /\ what \in DOMAIN StatusesOf /\ status \in StatusesOf[what]
                                 /\ what = "ItemNotFoundError" <=> noItem
                                 /\ what = "StoreNotFoundError" <=>
                                        noStore \/ (op = "DeleteStore" /\ status = "NotFound" /\ ~noItem)
                                 /\ what = "StoreAlreadyExistsError" <=> storeExists
  BY DEF FailuresAreErrors
<1> DEFINE op == object[c].op
           r == row(c)
<1>1. wire[c] # Nothing /\ IsError(c)
  <2>1. \A code : Error(code, <<>>).fault = <<>>
    BY DEF Error
  <2>2. \A what, reply, parts, item : Answer(what, reply, parts, <<>>, item).fault = <<>>
    BY DEF Answer
  <2>3. IsReply(c) => result[c].fault = <<>>
    BY <2>1, <2>2 DEF IsReply, Interpreted
  <2>4. NoResult.kind = "none"
    BY DEF NoResult
  <2> QED BY <2>1, <2>3, <2>4 DEF CallsInv, ResultInv
<1>2. Errors(op, r)
  BY <1>1, Sent DEF Facts
<1>3. PICK status \in StatusCodes, cause \in Causes : result[c] = ErrorOf(r, status, cause)
  BY <1>1 DEF IsError
<1> DEFINE seen == IF r.metadata THEN cause ELSE "none"
           code == ConvertSvcErr(status, seen)
           read == IF op \in {"GetBatch", "SetBatch", "Ping", "GenerateApiKey", "RefreshApiKey"}
                   THEN "none" ELSE cause
<1>4. seen \in Causes /\ seen = read
  BY <1>2 DEF Causes, Errors
<1> HIDE DEF seen, read
<1>5. /\ code \in ErrorCodes /\ code \in DOMAIN StatusesOf /\ status \in StatusesOf[code]
      /\ code = "AlreadyExistsError" <=> status = "AlreadyExists" /\ read # "store_already_exists"
      /\ code = "NotFoundError" <=> status = "NotFound" /\ read \notin {"item_not_found", "store_not_found"}
      /\ code = "ItemNotFoundError" <=> status = "NotFound" /\ read = "item_not_found"
      /\ code = "StoreNotFoundError" <=> status = "NotFound" /\ read = "store_not_found"
      /\ code = "StoreAlreadyExistsError" <=> status = "AlreadyExists" /\ read = "store_already_exists"
  BY <1>4, CodesToldApart, CodeFitsStatus
<1> DEFINE answer == Answer(r.onError[code], "", <<>>, <<status, cause>>, "missing")
           named == IF code \in DOMAIN r.errorAs THEN r.errorAs[code] ELSE code
           error == Error(named, <<status, cause>>)
<1>6. result[c] = IF code \in DOMAIN r.onError THEN answer ELSE error
  BY <1>3 DEF ErrorOf, seen
<1>7. answer.kind = "answer" /\ answer.fault[1] = status /\ answer.fault[2] = cause
  BY DEF Answer
<1>8. error.kind = "error" /\ error.what = named /\ error.fault[1] = status /\ error.fault[2] = cause
  BY DEF Error
<1> HIDE DEF answer, error, named
<1>9. /\ result[c].fault[1] = status /\ result[c].fault[2] = cause
      /\ result[c].kind = "answer" <=> code \in DOMAIN r.onError
      /\ result[c].kind = "error" => result[c].what = named
  BY <1>6, <1>7, <1>8
<1> HIDE DEF op, r, code
<1>10. result[c].kind = "answer" <=>
         \/ op \in {"CreateCache", "CreateStore"} /\ status = "AlreadyExists" /\ read # "store_already_exists"
         \/ op = "DeleteCache" /\ status = "NotFound" /\ read \notin {"item_not_found", "store_not_found"}
         \/ op = "StorageGet" /\ status = "NotFound" /\ read = "item_not_found"
  BY <1>2, <1>5, <1>9 DEF Errors
<1>11. CASE op = "GenerateDisposableToken"
  <2>1. named = "ClientSdkError"
    BY <1>2, <1>5, <1>11 DEF Errors, named
  <2> QED BY <1>9, <1>10, <1>11, <2>1 DEF op, read
<1>12. CASE op = "DeleteStore"
  <2>1. named = IF code = "NotFoundError" THEN "StoreNotFoundError" ELSE code
    BY <1>2, <1>12 DEF Errors, named
  <2>2. status = "NotFound" => "StoreNotFoundError" \in DOMAIN StatusesOf /\ status \in StatusesOf["StoreNotFoundError"]
    BY DEF StatusesOf
  <2>3. /\ named \in DOMAIN StatusesOf /\ status \in StatusesOf[named]
        /\ named = "ItemNotFoundError" <=> status = "NotFound" /\ read = "item_not_found"
        /\ named = "StoreNotFoundError" <=> status = "NotFound" /\ read # "item_not_found"
        /\ named = "StoreAlreadyExistsError" <=> status = "AlreadyExists" /\ read = "store_already_exists"
    BY <1>5, <2>1, <2>2
  <2> QED BY <1>9, <1>10, <1>12, <2>3 DEF op, read
<1>13. CASE op \notin {"GenerateDisposableToken", "DeleteStore"}
  <2>1. named = code
    BY <1>2, <1>13 DEF Errors, named
  <2> QED BY <1>5, <1>9, <1>10, <1>13, <2>1 DEF op, read
<1> QED BY <1>11, <1>12, <1>13

-----------------------------------------------------------------------------
(* Of every behaviour *)

\* The flags and the calls of every goroutine keep their invariants for ever.
LEMMA Always == Spec => [](HeadersInv /\ CallsInv)
<1>1. Init => HeadersInv /\ CallsInv
  BY InitHeaders, InitCalls
<1>2. (HeadersInv /\ CallsInv) /\ [Next]_vars => (HeadersInv /\ CallsInv)'
  BY NextHeaders, NextCalls
<1> QED BY <1>1, <1>2, PTL DEF Spec

\* Every variable keeps its type, the lifetime on the wire its width.
THEOREM TypeCorrect == Spec => []TypeOK
BY Always, TypesHold, PTL

\* Nothing malformed reaches the service, whatever an application passes, and a
\* call panics only on the nil elements, values and topic selectors that are
\* dereferenced unchecked, and always on those (requester.go).
THEOREM MessagesAreWellFormed == Spec => []OnlyWellFormedMessages
BY Always, WellFormed, PTL

\* The lifetime on the wire is the one given or the client's default, in whole
\* milliseconds, for every lifetime a Duration can hold, and a collection is
\* refreshed as its TTL was made to say (requester.go, collection_ttl.go).
THEOREM LifetimesArrive == Spec => []TtlArrives
BY Always, Lasts, PTL

\* The values of an answer stand under the elements of its own call, but for a
\* GetBatch object that is used again (get_batch.go:40).
THEOREM AnswersAreOwn == Spec => []AnswerIsOwn
BY Always, Own, PTL

\* Every reply of every operation is read as its messages say, the fields that
\* are dropped named one by one (interpretGrpcResponse of each operation).
THEOREM AnswersTell == Spec => []AnswersTellWhatCame
BY Always, TellAll, PTL

\* However often and on whichever clients an object is used, its requests go to
\* the cache it was given, or to the first default that was written into it
\* (cache_client.go:321).
THEOREM RequestsStay == Spec => []RequestsStayInTheirCache
BY Always, Stays, PTL

\* A conditional operation stores only on an item of the kind its name says
\* (set_if_*.go, *_ttl.go).
THEOREM ConditionsKept == Spec => []ConditionsAreKept
BY Always, Conditions, PTL

\* For every status and cause: exactly which failures become an answer, and
\* the code of every other one (error conversion of each client).
THEOREM FailuresReported == Spec => []FailuresAreErrors
BY Always, Failures, PTL

\* For every scope that does not make the call panic: the rights granted are
\* those asked, and the lifetime is the one asked (token_client.go,
\* internal_auth_client.go).
THEOREM TokensAsAsked == Spec => []TokensAllowWhatWasAsked
BY Always, TokensAllow, PTL

=============================================================================
