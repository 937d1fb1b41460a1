---------------------------- MODULE Connections -----------------------------
(***************************************************************************)
(* The lives of the clients: which gRPC connections a constructor opens    *)
(* and in which order, where it gives up and what it leaves behind, how    *)
(* eager connecting waits for a connection, which connection a call takes, *)
(* and what Close closes.                                                  *)
(*                                                                         *)
(* The clients of one process share the counters that spread calls over    *)
(* channels: dataClientCount and storageDataClientCount are variables of   *)
(* the package, so clients of a kind draw from one counter.  The gRPC      *)
(* library's connections change state by themselves.                       *)
(***************************************************************************)
EXTENDS Naturals, Sequences, FiniteSets

CONSTANTS Clients, Callers,
          Settings,              \* what an application may construct a client with
          DefaultTopicChannels,  \* the channels of a topic client that asks for none
          MaxChannels,           \* bound: the channels of a client
          MaxCloses,             \* bound: calls of Close, for each client
          MaxCalls               \* bound: calls of each caller

Kinds == {"cache", "storage", "topic", "auth", "leaderboard"}

ASSUME ConnectionsAssumption ==
    /\ MaxChannels \in Nat \ {0} /\ MaxCloses \in Nat /\ MaxCalls \in Nat
    /\ DefaultTopicChannels \in 1..MaxChannels
    /\ Settings \subseteq [kind : Kinds, channels : 0..MaxChannels, timeout : BOOLEAN, ttl : BOOLEAN,
                           eager : {"negative", "none", "some"}]
    /\ Clients \cap {"cache", "storage"} = {}

Pools == {"control", "data", "ping", "stream", "unary", "token", "auth", "leaderboard"}

AllConnections == Pools \X (0..(MaxChannels - 1))

VARIABLES setting,   \* of each client
          phase,     \* "new", "making", "connecting", "waiting", "ready", "failed", "closed"
          made,      \* how many connections the constructor has opened
          open,      \* the connections opened and not closed
          link,      \* the gRPC state of the connection being connected eagerly
          seen,      \* the state Connect read and waits to see changed
          expired,   \* whether the eager connect timeout has passed
          tickets,   \* the atomic counters: of the cache and storage packages, of each topic client
          call,      \* of each caller, the call under way or the last one
          calls,     \* how many calls were made (history, for the bound)
          closes,    \* how often Close was called (history)
          reached,   \* history: the connections that were seen ready
          drawn,     \* history: how many tickets a client drew from its counter
          picks      \* history: how often each channel of a client was picked

vars == <<setting, phase, made, open, link, seen, expired, tickets, call, calls, closes, reached, drawn, picks>>
construction == <<setting, made, link, seen, expired, reached>>
counting == <<tickets, drawn, picks>>
using == <<counting, call, calls, closes>>

-----------------------------------------------------------------------------
(* What a client is made of.                                               *)

\* The settings of the transport: no channel means the default number.  A topic
\* client has one setting for its streams and one for its unary calls; the model
\* gives both the same value, as no property compares the two pools.
Channels(s) ==
    IF s.channels > 0 THEN s.channels ELSE IF s.kind = "topic" THEN DefaultTopicChannels ELSE 1

\* Mutant: numbered from 1.
NumberedMutant(pool, n) == [i \in 1..n |-> <<pool, i>>]

Numbered(pool, n) == [i \in 1..n |-> <<pool, i - 1>>]

\* The connections in the order they are opened.
Plan(s) ==
    CASE s.kind = "cache" -> Numbered("control", 1) \o Numbered("data", Channels(s)) \o Numbered("ping", 1)
      [] s.kind = "storage" -> Numbered("control", 1) \o Numbered("data", Channels(s))
      [] s.kind = "topic" -> Numbered("stream", Channels(s)) \o Numbered("unary", Channels(s))
      [] s.kind = "auth" -> Numbered("token", 1) \o Numbered("auth", 1)
      [] s.kind = "leaderboard" -> Numbered("leaderboard", 1)

PoolsOf(s) == {Plan(s)[i][1] : i \in DOMAIN Plan(s)}

\* The pools whose channels calls are spread over, and where they count.
Spread == {"data", "unary"}

Counter(c) == IF setting[c].kind = "topic" THEN c ELSE setting[c].kind

\* A client is none of these before its constructor is called.
NoSetting == [kind |-> "none"]
NoCall == [what |-> "none"]

Init ==
    /\ setting = [c \in Clients |-> NoSetting]
    /\ phase = [c \in Clients |-> "new"]
    /\ made = [c \in Clients |-> 0]
    /\ open = [c \in Clients |-> {}]
    /\ link = [c \in Clients |-> "none"]
    /\ seen = [c \in Clients |-> "none"]
    /\ expired = [c \in Clients |-> FALSE]
    /\ tickets = [k \in Clients \cup {"cache", "storage"} |-> 0]
    /\ call = [g \in Callers |-> NoCall]
    /\ calls = [g \in Callers |-> 0]
    /\ closes = [c \in Clients |-> 0]
    /\ reached = [c \in Clients |-> {}]
    /\ drawn = [c \in Clients |-> 0]
    /\ picks = [c \in Clients |-> [i \in 0..(MaxChannels - 1) |-> 0]]

-----------------------------------------------------------------------------
(* The constructors.                                                       *)

Construct(c) ==
    /\ phase[c] = "new"
    /\ \E s \in Settings :
        /\ setting' = [setting EXCEPT ![c] = s]
        /\ phase' = [phase EXCEPT ![c] =
             IF s.kind \in {"cache", "storage"} /\ ~s.timeout THEN "failed" ELSE "making"]
    /\ UNCHANGED <<made, open, link, seen, expired, reached, using>>

\* The cache client checks its default TTL and the eager connect timeout with
\* its control client made.
RefusedSetting(c) == setting[c].kind = "cache" /\ (~setting[c].ttl \/ setting[c].eager = "negative")

\* Mutant: only the first data client is connected.
EagerMutant(c, x) == setting[c].kind = "cache" /\ setting[c].eager = "some" /\ x = <<"data", 0>>

Eager(c, x) == setting[c].kind = "cache" /\ setting[c].eager = "some" /\ x[1] = "data"

\* The constructor goes on, or it is through and returns.
After(c, n) == IF n = Len(Plan(setting[c])) THEN "ready" ELSE "making"

Make(c) ==
    LET x == Plan(setting[c])[made[c] + 1]
    IN /\ phase[c] = "making"
       /\ made' = [made EXCEPT ![c] = @ + 1]
       /\ open' = [open EXCEPT ![c] = @ \cup {x}]
       /\ phase' = [phase EXCEPT ![c] = IF RefusedSetting(c) THEN "failed"
                                        ELSE IF Eager(c, x) THEN "connecting"
                                        ELSE After(c, made[c] + 1)]
       /\ link' = [link EXCEPT ![c] = IF Eager(c, x) THEN "idle" ELSE "none"]
       /\ UNCHANGED <<setting, seen, expired, reached, using>>

\* grpc.NewClient refuses its options: the error is returned at once.
CannotMake(c) ==
    /\ phase[c] = "making"
    /\ phase' = [phase EXCEPT ![c] = "failed"]
    /\ UNCHANGED <<construction, open, using>>

-----------------------------------------------------------------------------
(* DataGrpcManager.Connect.                                                *)

\* A connection that was lost after it was ready is idle again, and nobody
\* asks it to connect.
GetState(c) == IF link[c] = "lost" THEN "idle" ELSE link[c]

\* Connect returns: its variables are gone, and its context is canceled.
ConnectReturns(c) ==
    /\ link' = [link EXCEPT ![c] = "none"]
    /\ seen' = [seen EXCEPT ![c] = "none"]
    /\ expired' = [expired EXCEPT ![c] = FALSE]

\* Mutant: the connection that failed is not closed.
FailConnectMutant(c) ==
    /\ phase' = [phase EXCEPT ![c] = "failed"]
    /\ ConnectReturns(c)
    /\ UNCHANGED <<setting, made, open, reached, using>>

FailConnect(c) ==
    /\ phase' = [phase EXCEPT ![c] = "failed"]
    /\ open' = [open EXCEPT ![c] = @ \ {Plan(setting[c])[made[c]]}]
    /\ ConnectReturns(c)
    /\ UNCHANGED <<setting, made, reached, using>>

CheckConnection(c) ==
    /\ phase[c] = "connecting"
    /\ \/ /\ ~expired[c] /\ GetState(c) = "ready"
          /\ phase' = [phase EXCEPT ![c] = After(c, made[c])]
          /\ reached' = [reached EXCEPT ![c] = @ \cup {Plan(setting[c])[made[c]]}]
          /\ ConnectReturns(c)
          /\ UNCHANGED <<setting, made, open, using>>
       \/ /\ ~expired[c] /\ GetState(c) \in {"idle", "connecting"}
          /\ phase' = [phase EXCEPT ![c] = "waiting"]
          /\ seen' = [seen EXCEPT ![c] = GetState(c)]
          /\ UNCHANGED <<setting, made, open, link, expired, reached, using>>
       \/ (expired[c] \/ GetState(c) = "failing") /\ FailConnect(c)

\* WaitForStateChange returns: the state has changed, or the time is up.
StateChanged(c) ==
    /\ phase[c] = "waiting" /\ GetState(c) # seen[c]
    /\ phase' = [phase EXCEPT ![c] = "connecting"]
    /\ UNCHANGED <<construction, open, using>>

\* Mutant: the wait has no deadline.
WaitExpiresMutant(c) == FALSE /\ FailConnect(c)

WaitExpires(c) == phase[c] = "waiting" /\ expired[c] /\ FailConnect(c)

Expire(c) ==
    /\ phase[c] \in {"connecting", "waiting"} /\ ~expired[c]
    /\ expired' = [expired EXCEPT ![c] = TRUE]
    /\ UNCHANGED <<setting, phase, made, open, link, seen, reached, using>>

\* What the library does with a connection that was asked to connect.
LinkSteps == {<<"idle", "connecting">>, <<"connecting", "ready">>, <<"connecting", "failing">>,
              <<"failing", "connecting">>, <<"ready", "lost">>}

LinkChanges(c) ==
    /\ phase[c] \in {"connecting", "waiting"}
    /\ \E s \in LinkSteps : link[c] = s[1] /\ link' = [link EXCEPT ![c] = s[2]]
    /\ UNCHANGED <<setting, phase, made, open, seen, expired, reached, using>>

-----------------------------------------------------------------------------
(* Calls and Close.                                                        *)

Usable(c) == phase[c] \in {"ready", "closed"}

\* The counter is advanced, and taken modulo the client's channels.
Index(c) == (tickets[Counter(c)] + 1) % Channels(setting[c])

\* Mutant: the counter is read and not advanced.
PickMutant(c) ==
    /\ UNCHANGED tickets
    /\ drawn' = [drawn EXCEPT ![c] = @ + 1]
    /\ picks' = [picks EXCEPT ![c][Index(c)] = @ + 1]

Pick(c) ==
    /\ tickets' = [tickets EXCEPT ![Counter(c)] = @ + 1]
    /\ drawn' = [drawn EXCEPT ![c] = @ + 1]
    /\ picks' = [picks EXCEPT ![c][Index(c)] = @ + 1]

\* A call takes its connection, which may be closed or may be closed under it.
Call(g, c) ==
    /\ Usable(c) /\ calls[g] < MaxCalls
    /\ call[g].what # "flying"
    /\ \E pool \in PoolsOf(setting[c]) \ {"stream"} :
        /\ call' = [call EXCEPT ![g] =
             [what |-> "flying", client |-> c, late |-> phase[c] = "closed",
              on |-> <<pool, IF pool \in Spread THEN Index(c) ELSE 0>>]]
        /\ IF pool \in Spread THEN Pick(c) ELSE UNCHANGED counting
    /\ calls' = [calls EXCEPT ![g] = @ + 1]
    /\ UNCHANGED <<construction, phase, open, closes>>

Ends(g, what) ==
    /\ call[g].what = "flying"
    /\ call' = [call EXCEPT ![g] = [@ EXCEPT !.what = what]]
    /\ UNCHANGED <<construction, phase, open, counting, calls, closes>>

Served(g) == call[g].what = "flying" /\ call[g].on \in open[call[g].client] /\ Ends(g, "served")

Canceled(g) == call[g].what = "flying" /\ call[g].on \notin open[call[g].client] /\ Ends(g, "canceled")

\* Mutant: one pool is forgotten.
ClosingMutant(c) ==
    {x \in AllConnections : x[1] \in IF setting[c].kind = "storage" THEN {"data"} ELSE {"control"}}

\* Mutant: the storage client closes as the cache client does.
ClosingByTurnMutant(c) ==
    {<<"control", 0>>} \cup (IF setting[c].kind \in {"cache", "storage"} THEN {<<"data", Index(c)>>} ELSE {})

\* What one Close closes; the cache client's takes the channel whose turn it is.
Closing(c) ==
    LET pools == CASE setting[c].kind = "cache" -> {"control"}
                   [] setting[c].kind = "storage" -> {"data", "control"}
                   [] setting[c].kind = "topic" -> {"stream"}
                   [] setting[c].kind = "auth" -> {"token"}
                   [] setting[c].kind = "leaderboard" -> {"leaderboard"}
        turn == IF setting[c].kind = "cache" THEN {<<"data", Index(c)>>} ELSE {}
    IN {x \in AllConnections : x[1] \in pools} \cup turn

Close(c) ==
    /\ Usable(c) /\ closes[c] < MaxCloses
    /\ phase' = [phase EXCEPT ![c] = "closed"]
    /\ open' = [open EXCEPT ![c] = @ \ Closing(c)]
    /\ IF setting[c].kind = "cache" THEN Pick(c) ELSE UNCHANGED counting
    /\ closes' = [closes EXCEPT ![c] = @ + 1]
    /\ UNCHANGED <<construction, call, calls>>

-----------------------------------------------------------------------------

Constructing(c) == phase[c] \in {"making", "connecting", "waiting"}

\* The application may stop at any point: no further client, call or Close.
Resting == ~(\E c \in Clients : Constructing(c)) /\ ~(\E g \in Callers : call[g].what = "flying")

Terminating == Resting /\ UNCHANGED vars

Next ==
    \/ \E c \in Clients : \/ Construct(c) \/ Make(c) \/ CannotMake(c) \/ CheckConnection(c) \/ StateChanged(c)
                          \/ WaitExpires(c) \/ Expire(c) \/ LinkChanges(c) \/ Close(c)
                          \/ \E g \in Callers : Call(g, c)
    \/ \E g \in Callers : Served(g) \/ Canceled(g)
    \/ Terminating

\* A constructor that runs takes its steps, and time passes.  The library's
\* connections need not get anywhere.
Fairness == \A c \in Clients :
    /\ WF_vars(Make(c)) /\ WF_vars(CheckConnection(c)) /\ WF_vars(StateChanged(c) \/ WaitExpires(c))
    /\ WF_vars(Expire(c))

Spec == Init /\ [][Next]_vars /\ Fairness

-----------------------------------------------------------------------------
(* Properties.                                                             *)

TypeOK ==
    /\ setting \in [Clients -> Settings \cup {NoSetting}]
    /\ phase \in [Clients -> {"new", "making", "connecting", "waiting", "ready", "failed", "closed"}]
    /\ made \in [Clients -> Nat]
    /\ open \in [Clients -> SUBSET AllConnections]
    /\ link \in [Clients -> {"none", "idle", "connecting", "ready", "failing", "lost"}]
    /\ seen \in [Clients -> {"none", "idle", "connecting"}]
    /\ expired \in [Clients -> BOOLEAN]
    /\ tickets \in [Clients \cup {"cache", "storage"} -> Nat]
    /\ \A g \in Callers : call[g].what \in {"none", "flying", "served", "canceled"}
    /\ calls \in [Callers -> Nat]
    /\ closes \in [Clients -> Nat]
    /\ reached \in [Clients -> SUBSET AllConnections]
    /\ drawn \in [Clients -> Nat]
    /\ picks \in [Clients -> [0..(MaxChannels - 1) -> Nat]]

\* The exact account of what a client leaves open.  A constructor that gives up
\* leaves all it had made (cache_client.go:233-272), but for the data client
\* that could not connect.  Close of a cache client leaves the ping client and
\* every data client whose turn it was not: only a client with one channel is
\* without data clients, and a second Close closes a second one.  Topic and
\* auth clients keep the half they do not name.
LeaksAreAccounted == \A c \in Clients :
    LET plan == Plan(setting[c])
        all == {plan[i] : i \in 1..made[c]}
        of(pool) == {x \in all : x[1] = pool}
        data == Cardinality(open[c] \cap of("data"))
    IN /\ phase[c] \in {"making", "ready", "connecting", "waiting"} => open[c] = all
       /\ phase[c] = "failed" => open[c] = {x \in all : Eager(c, x) => x \in reached[c]}
       /\ phase[c] = "closed" =>
            CASE setting[c].kind = "cache" ->
                    /\ open[c] \ of("data") = of("ping")
                    /\ data <= Channels(setting[c]) - 1 /\ data + closes[c] >= Channels(setting[c])
              [] setting[c].kind = "topic" -> open[c] = of("unary")
              [] setting[c].kind = "auth" -> open[c] = of("auth")
              [] OTHER -> open[c] = {}

\* A cache client made with an eager connect timeout has had every data channel
\* ready, one after the other, whatever the connections did in between.
EagerClientsWereConnected == \A c \in Clients :
    Usable(c) /\ setting[c].kind = "cache" /\ setting[c].eager = "some" =>
        reached[c] = {<<"data", i>> : i \in 0..(Channels(setting[c]) - 1)}

\* Calls are spread evenly over a client's channels, up to the tickets that
\* other clients of the process draw from the same counter: two clients that
\* take turns may each use one channel only.
SpreadUpToOthers == \A c \in Clients : Usable(c) /\ setting[c].kind \in {"cache", "storage", "topic"} =>
    LET channels == 0..(Channels(setting[c]) - 1)
        others == tickets[Counter(c)] - drawn[c]
    IN /\ others >= 0
       /\ setting[c].kind = "topic" => others = 0
       /\ \A i, j \in channels : picks[c][i] <= picks[c][j] + others + 1

\* A call is cut off only by the Close of its own client, never by that of
\* another that shares the counter; and what a closed client still serves is
\* what its Close leaves open: a storage or leaderboard client serves nothing,
\* a cache client serves pings and, on its other channels, data calls, a topic
\* client publishes, and an auth client keeps its API key operations.
CallsAfterClose == \A g \in Callers : call[g].what \in {"served", "canceled"} =>
    LET c == call[g].client
        survivors == CASE setting[c].kind = "cache" -> {"ping", "data"}
                       [] setting[c].kind = "topic" -> {"unary"}
                       [] setting[c].kind = "auth" -> {"auth"}
                       [] OTHER -> {}
    IN /\ call[g].what = "canceled" => closes[c] > 0 /\ call[g].on[1] \notin survivors \ {"data"}
       /\ call[g].what = "served" /\ call[g].late => call[g].on[1] \in survivors

\* The clients that close all they opened keep what ClientLife promises.
Tidy(c) == setting[c].kind \in {"storage", "leaderboard"}

LifePhase == [c \in Clients |-> IF ~Tidy(c) THEN "new" ELSE IF Constructing(c) THEN "making" ELSE phase[c]]
LifeOpen == [c \in Clients |-> IF Tidy(c) THEN open[c] ELSE {}]

Life == INSTANCE ClientLife WITH Connections <- AllConnections, phase <- LifePhase, open <- LifeOpen

TidyClientsKeepThePromise == Life!Spec

\* A constructor returns, also when the service is unreachable or a connection
\* is lost while Connect looks away: the timeout ends the wait.
ConstructorsReturn == \A c \in Clients : Constructing(c) ~> ~Constructing(c)

=============================================================================
