------------------------- MODULE ConnectionsProofs --------------------------
(***************************************************************************)
(* Proofs about Connections, for any clients, callers and settings.  The   *)
(* invariant is made of parts, each of which needs those before it:        *)
(*                                                                         *)
(*   Inv         a constructor never runs past its plan: while it makes    *)
(*               connections there is one left to make, and while it       *)
(*               connects one there is one it has made (WithinPlan)        *)
(*   Covered     a storage or leaderboard client opens only what its Close *)
(*               closes, so that it implements ClientLife                  *)
(*   OtherTypes  the types of all other variables                          *)
(*   Standing    what a constructor has opened and connected so far        *)
(*   Closed      what is left open after as many calls of Close            *)
(*   Called      a call has a connection of a client that can be used      *)
(*   Sharing     a channel is picked as often as its turn comes, but for   *)
(*               the tickets that other clients drew                       *)
(*                                                                         *)
(* They rest on what a plan holds: every channel of every pool of the      *)
(* client's kind, exactly once (PlanIsWhole).                              *)
(***************************************************************************)
EXTENDS Connections, FiniteSetTheorems, TLAPS

\* A constructor stands inside its plan, and a client that was never
\* constructed holds nothing.
WithinPlan == \A c \in Clients :
    /\ phase[c] = "new" => open[c] = {} /\ made[c] = 0
    /\ phase[c] # "new" => setting[c] \in Settings
    /\ phase[c] = "making" => made[c] + 1 \in DOMAIN Plan(setting[c])
    /\ phase[c] \in {"connecting", "waiting"} => made[c] \in DOMAIN Plan(setting[c])

Types ==
    /\ setting \in [Clients -> Settings \cup {NoSetting}]
    /\ phase \in [Clients -> {"new", "making", "connecting", "waiting", "ready", "failed", "closed"}]
    /\ made \in [Clients -> Nat]
    /\ open \in [Clients -> SUBSET AllConnections]

Inv == Types /\ WithinPlan

-----------------------------------------------------------------------------
(* Plans.                                                                  *)

\* A plan has at least one connection, all of them possible ones.
LEMMA PlanHolds ==
    ASSUME NEW s \in Settings
    PROVE  /\ Plan(s) \in Seq(AllConnections)
           /\ Len(Plan(s)) \in Nat \ {0}
           /\ DOMAIN Plan(s) = 1..Len(Plan(s))
<1>1. /\ Channels(s) \in 1..MaxChannels
      /\ MaxChannels \in Nat \ {0}
      /\ s.kind \in Kinds
  BY ConnectionsAssumption DEF Channels
<1>2. ASSUME NEW p \in Pools, NEW n \in 1..MaxChannels
      PROVE  Numbered(p, n) \in Seq(AllConnections) /\ Len(Numbered(p, n)) = n
  <2>1. n \in Nat
    BY <1>1
  <2>2. \A i \in 1..n : <<p, i - 1>> \in AllConnections
    <3>1. \A i \in 1..n : i - 1 \in 0..(MaxChannels - 1)
      BY <1>1
    <3>. QED BY <3>1 DEF AllConnections
  <2>. QED BY <2>1, <2>2 DEF Numbered
<1>3. \A p \in Pools : \A n \in {1, Channels(s)} :
        Numbered(p, n) \in Seq(AllConnections) /\ Len(Numbered(p, n)) \in Nat \ {0}
  <2>1. 1 \in 1..MaxChannels
    BY <1>1
  <2>. QED BY <1>1, <1>2, <2>1
<1>4. ASSUME NEW a \in Seq(AllConnections), NEW b \in Seq(AllConnections), Len(a) # 0
      PROVE  a \o b \in Seq(AllConnections) /\ Len(a \o b) \in Nat \ {0}
  BY <1>4
<1>5. Plan(s) \in Seq(AllConnections) /\ Len(Plan(s)) \in Nat \ {0}
  <2>1. CASE s.kind = "cache"
    <3>1. Plan(s) = Numbered("control", 1) \o Numbered("data", Channels(s)) \o Numbered("ping", 1)
      BY <2>1 DEF Plan
    <3>2. /\ Numbered("control", 1) \in Seq(AllConnections) /\ Len(Numbered("control", 1)) # 0
          /\ Numbered("data", Channels(s)) \in Seq(AllConnections)
          /\ Numbered("ping", 1) \in Seq(AllConnections)
      BY <1>3 DEF Pools
    <3>. QED BY <1>4, <3>1, <3>2
  <2>2. CASE s.kind = "storage"
    <3>1. Plan(s) = Numbered("control", 1) \o Numbered("data", Channels(s))
      BY <2>2 DEF Plan
    <3>2. /\ Numbered("control", 1) \in Seq(AllConnections) /\ Len(Numbered("control", 1)) # 0
          /\ Numbered("data", Channels(s)) \in Seq(AllConnections)
      BY <1>3 DEF Pools
    <3>. QED BY <1>4, <3>1, <3>2
  <2>3. CASE s.kind = "topic"
    <3>1. Plan(s) = Numbered("stream", Channels(s)) \o Numbered("unary", Channels(s))
      BY <2>3 DEF Plan
    <3>2. /\ Numbered("stream", Channels(s)) \in Seq(AllConnections) /\ Len(Numbered("stream", Channels(s))) # 0
          /\ Numbered("unary", Channels(s)) \in Seq(AllConnections)
      BY <1>3 DEF Pools
    <3>. QED BY <1>4, <3>1, <3>2
  <2>4. CASE s.kind = "auth"
    <3>1. Plan(s) = Numbered("token", 1) \o Numbered("auth", 1)
      BY <2>4 DEF Plan
    <3>2. /\ Numbered("token", 1) \in Seq(AllConnections) /\ Len(Numbered("token", 1)) # 0
          /\ Numbered("auth", 1) \in Seq(AllConnections)
      BY <1>3 DEF Pools
    <3>. QED BY <1>4, <3>1, <3>2
  <2>5. CASE s.kind = "leaderboard"
    <3>1. Plan(s) = Numbered("leaderboard", 1)
      BY <2>5 DEF Plan
    <3>. QED BY <1>3, <3>1 DEF Pools
  <2>. QED BY <1>1, <2>1, <2>2, <2>3, <2>4, <2>5 DEF Kinds
<1>. QED BY <1>5

\* The connection a constructor makes is one of the possible connections.
LEMMA NextConnection ==
    ASSUME Inv, NEW c \in Clients, phase[c] = "making"
    PROVE  /\ setting[c] \in Settings
           /\ made[c] + 1 \in 1..Len(Plan(setting[c]))
           /\ Plan(setting[c])[made[c] + 1] \in AllConnections
<1>1. setting[c] \in Settings /\ made[c] + 1 \in DOMAIN Plan(setting[c])
  BY DEF Inv, WithinPlan
<1>. QED BY <1>1, PlanHolds

\* Where the constructor goes on to.
LEMMA AfterGoesOn ==
    ASSUME NEW c \in Clients, setting[c] \in Settings, NEW n \in 1..Len(Plan(setting[c]))
    PROVE  /\ After(c, n) \in {"making", "ready"}
           /\ After(c, n) = "making" => n + 1 \in DOMAIN Plan(setting[c])
BY PlanHolds DEF After

-----------------------------------------------------------------------------
(* The invariant.                                                          *)

LEMMA InitInv == Init => Inv
BY DEF Init, Inv, Types, WithinPlan, NoSetting

LEMMA ConstructInv == ASSUME Inv, NEW c \in Clients, Construct(c) PROVE Inv'
<1>1. PICK s \in Settings :
        /\ setting' = [setting EXCEPT ![c] = s]
        /\ phase' = [phase EXCEPT ![c] =
             IF s.kind \in {"cache", "storage"} /\ ~s.timeout THEN "failed" ELSE "making"]
  BY DEF Construct
<1>2. phase[c] = "new" /\ UNCHANGED <<made, open>>
  BY DEF Construct
<1>3. made[c] + 1 \in DOMAIN Plan(s)
  <2>1. made[c] = 0
    BY <1>2 DEF Inv, WithinPlan
  <2>. QED BY <2>1, PlanHolds
<1>4. Types'
  BY <1>1, <1>2 DEF Inv, Types
<1>5. phase'[c] \in {"failed", "making"} /\ setting'[c] = s
  BY <1>1 DEF Inv, Types
<1>6. \A d \in Clients \ {c} : phase'[d] = phase[d] /\ setting'[d] = setting[d]
  BY <1>1 DEF Inv, Types
<1>7. WithinPlan'
  BY <1>2, <1>3, <1>5, <1>6 DEF Inv, WithinPlan
<1>. QED BY <1>4, <1>7 DEF Inv

LEMMA MakeInv == ASSUME Inv, NEW c \in Clients, Make(c) PROVE Inv'
<1> DEFINE x == Plan(setting[c])[made[c] + 1]
           p == IF RefusedSetting(c) THEN "failed"
                ELSE IF Eager(c, x) THEN "connecting" ELSE After(c, made[c] + 1)
<1>1. /\ phase[c] = "making"
      /\ made' = [made EXCEPT ![c] = @ + 1]
      /\ open' = [open EXCEPT ![c] = @ \cup {x}]
      /\ phase' = [phase EXCEPT ![c] = p]
      /\ setting' = setting
  BY DEF Make
<1>2. /\ setting[c] \in Settings
      /\ made[c] + 1 \in 1..Len(Plan(setting[c]))
      /\ x \in AllConnections
  BY <1>1, NextConnection
<1>3. made[c] + 1 \in DOMAIN Plan(setting[c])
  BY <1>2, PlanHolds
<1>4. /\ p \in {"failed", "connecting", "making", "ready"}
      /\ p = "making" => made[c] + 1 + 1 \in DOMAIN Plan(setting[c])
  <2>1. /\ After(c, made[c] + 1) \in {"making", "ready"}
        /\ After(c, made[c] + 1) = "making" => made[c] + 1 + 1 \in DOMAIN Plan(setting[c])
    BY <1>2, AfterGoesOn
  <2>. QED BY <2>1
<1> HIDE DEF x, p
<1>5. Types'
  BY <1>1, <1>2, <1>4 DEF Inv, Types
<1>6. phase'[c] = p /\ made'[c] = made[c] + 1
  BY <1>1 DEF Inv, Types
<1>7. \A d \in Clients \ {c} : phase'[d] = phase[d] /\ made'[d] = made[d] /\ open'[d] = open[d]
  BY <1>1 DEF Inv, Types
<1>8. WithinPlan'
  BY <1>1, <1>2, <1>3, <1>4, <1>6, <1>7 DEF Inv, WithinPlan
<1>. QED BY <1>5, <1>8 DEF Inv

\* A step that moves a constructor that is past "new" and changes neither its
\* settings nor its place in the plan, and opens nothing.
LEMMA MoveInv ==
    ASSUME Inv, NEW c \in Clients, NEW p, phase[c] # "new",
           p \in {"making", "connecting", "waiting", "ready", "failed", "closed"},
           p = "making" => made[c] + 1 \in DOMAIN Plan(setting[c]),
           p \in {"connecting", "waiting"} => made[c] \in DOMAIN Plan(setting[c]),
           phase' = [phase EXCEPT ![c] = p], NEW kept, kept \subseteq open[c],
           open' = [open EXCEPT ![c] = kept], UNCHANGED <<setting, made>>
    PROVE  Inv'
<1>1. Types'
  BY DEF Inv, Types
<1>2. phase'[c] = p
  BY DEF Inv, Types
<1>3. \A d \in Clients \ {c} : phase'[d] = phase[d] /\ open'[d] = open[d]
  BY DEF Inv, Types
<1>4. WithinPlan'
  BY <1>2, <1>3 DEF Inv, WithinPlan
<1>. QED BY <1>1, <1>4 DEF Inv

LEMMA OpenAsItIs ==
    ASSUME Inv, NEW c \in Clients, UNCHANGED open
    PROVE  open' = [open EXCEPT ![c] = open[c]]
BY DEF Inv, Types

LEMMA FailConnectInv ==
    ASSUME Inv, NEW c \in Clients, phase[c] \in {"connecting", "waiting"}, FailConnect(c)
    PROVE  Inv'
<1> DEFINE kept == open[c] \ {Plan(setting[c])[made[c]]}
<1>1. phase' = [phase EXCEPT ![c] = "failed"] /\ open' = [open EXCEPT ![c] = kept] /\ UNCHANGED <<setting, made>>
  BY DEF FailConnect
<1>2. kept \subseteq open[c]
  OBVIOUS
<1> HIDE DEF kept
<1>. QED BY <1>1, <1>2, MoveInv

LEMMA CheckInv == ASSUME Inv, NEW c \in Clients, CheckConnection(c) PROVE Inv'
<1>1. phase[c] = "connecting"
  BY DEF CheckConnection
<1>2. setting[c] \in Settings /\ made[c] \in DOMAIN Plan(setting[c]) /\ made[c] \in 1..Len(Plan(setting[c]))
  BY <1>1, PlanHolds DEF Inv, WithinPlan
<1>3. CASE phase' = [phase EXCEPT ![c] = After(c, made[c])] /\ UNCHANGED <<setting, made, open>>
  <2>1. /\ After(c, made[c]) \in {"making", "ready"}
        /\ After(c, made[c]) = "making" => made[c] + 1 \in DOMAIN Plan(setting[c])
    BY <1>2, AfterGoesOn
  <2>. QED BY <1>1, <1>3, <2>1, MoveInv, OpenAsItIs
<1>4. CASE phase' = [phase EXCEPT ![c] = "waiting"] /\ UNCHANGED <<setting, made, open>>
  BY <1>1, <1>2, <1>4, MoveInv, OpenAsItIs
<1>5. CASE FailConnect(c)
  BY <1>1, <1>5, FailConnectInv
<1>. QED BY <1>3, <1>4, <1>5 DEF CheckConnection

LEMMA OtherConstructionInv ==
    ASSUME Inv, NEW c \in Clients,
           CannotMake(c) \/ StateChanged(c) \/ WaitExpires(c) \/ Expire(c) \/ LinkChanges(c)
    PROVE  Inv'
<1>1. CASE CannotMake(c)
  <2>1. phase[c] = "making" /\ phase' = [phase EXCEPT ![c] = "failed"] /\ UNCHANGED <<setting, made, open>>
    BY <1>1 DEF CannotMake, construction
  <2>. QED BY <2>1, MoveInv, OpenAsItIs
<1>2. CASE StateChanged(c)
  <2>1. /\ phase[c] = "waiting" /\ phase' = [phase EXCEPT ![c] = "connecting"]
        /\ UNCHANGED <<setting, made, open>>
    BY <1>2 DEF StateChanged, construction
  <2>2. made[c] \in DOMAIN Plan(setting[c])
    BY <2>1 DEF Inv, WithinPlan
  <2>. QED BY <2>1, <2>2, MoveInv, OpenAsItIs
<1>3. CASE WaitExpires(c)
  BY <1>3, FailConnectInv DEF WaitExpires
<1>4. CASE Expire(c) \/ LinkChanges(c)
  <2>1. UNCHANGED <<setting, phase, made, open>>
    BY <1>4 DEF Expire, LinkChanges
  <2>. QED BY <2>1 DEF Inv, Types, WithinPlan
<1>. QED BY <1>1, <1>2, <1>3, <1>4

LEMMA CloseInv == ASSUME Inv, NEW c \in Clients, Close(c) PROVE Inv'
<1> DEFINE kept == open[c] \ Closing(c)
<1>1. /\ phase[c] \in {"ready", "closed"}
      /\ phase' = [phase EXCEPT ![c] = "closed"]
      /\ open' = [open EXCEPT ![c] = kept]
      /\ UNCHANGED <<setting, made>>
  BY DEF Close, Usable, construction
<1>2. kept \subseteq open[c]
  OBVIOUS
<1> HIDE DEF kept
<1>. QED BY <1>1, <1>2, MoveInv

LEMMA CallsInv ==
    ASSUME Inv, NEW g \in Callers, (\E c \in Clients : Call(g, c)) \/ Served(g) \/ Canceled(g)
    PROVE  Inv'
<1>1. UNCHANGED <<setting, phase, made, open>>
  BY DEF Call, Served, Canceled, Ends, construction
<1>. QED BY <1>1 DEF Inv, Types, WithinPlan

LEMMA NextInv == Inv /\ [Next]_vars => Inv'
<1> SUFFICES ASSUME Inv, [Next]_vars PROVE Inv'
  OBVIOUS
<1>1. CASE UNCHANGED vars
  BY <1>1 DEF vars, Inv, Types, WithinPlan
<1>2. CASE Terminating
  BY <1>2, <1>1 DEF Terminating
<1>3. ASSUME NEW c \in Clients,
             \/ Construct(c) \/ Make(c) \/ CannotMake(c) \/ CheckConnection(c) \/ StateChanged(c)
             \/ WaitExpires(c) \/ Expire(c) \/ LinkChanges(c) \/ Close(c)
      PROVE  Inv'
  BY <1>3, ConstructInv, MakeInv, CheckInv, OtherConstructionInv, CloseInv
<1>4. ASSUME NEW g \in Callers, (\E c \in Clients : Call(g, c)) \/ Served(g) \/ Canceled(g)
      PROVE  Inv'
  BY <1>4, CallsInv
<1>. QED BY <1>1, <1>2, <1>3, <1>4 DEF Next

\* Constructors stay inside their plans, and clients hold only connections
\* there can be (the constructors: cache_client.go:206-279 and its like).
THEOREM StaysWithinPlan == Spec => []Inv
BY InitInv, NextInv, PTL DEF Spec

-----------------------------------------------------------------------------
(* The refinement.  A storage or leaderboard client opens only what its    *)
(* Close closes (Covered).                                                 *)

\* The connections of a client by the pools of its kind.
Owned(s) == {x \in AllConnections : x[1] \in IF s.kind = "storage" THEN {"control", "data"} ELSE {"leaderboard"}}

Covered == \A c \in Clients : Tidy(c) => open[c] \subseteq Owned(setting[c])

LEMMA TidyPlan ==
    ASSUME NEW s \in Settings, s.kind \in {"storage", "leaderboard"}
    PROVE  \A i \in 1..Len(Plan(s)) : Plan(s)[i] \in Owned(s)
<1>1. /\ Channels(s) \in 1..MaxChannels
      /\ MaxChannels \in Nat \ {0}
      /\ 1 \in 1..MaxChannels
  BY ConnectionsAssumption DEF Channels
<1>2. ASSUME NEW p \in Pools, p \in IF s.kind = "storage" THEN {"control", "data"} ELSE {"leaderboard"},
             NEW n \in 1..MaxChannels
      PROVE  Numbered(p, n) \in Seq(Owned(s)) /\ Len(Numbered(p, n)) = n
  <2>1. n \in Nat
    BY <1>1
  <2>2. \A i \in 1..n : <<p, i - 1>> \in Owned(s)
    <3>1. \A i \in 1..n : i - 1 \in 0..(MaxChannels - 1)
      BY <1>1
    <3>. QED BY <1>2, <3>1 DEF AllConnections, Owned
  <2>. QED BY <2>1, <2>2 DEF Numbered
<1>3. ASSUME NEW a \in Seq(Owned(s)), NEW b \in Seq(Owned(s))
      PROVE  a \o b \in Seq(Owned(s))
  BY <1>3
<1>4. Plan(s) \in Seq(Owned(s))
  <2>1. CASE s.kind = "storage"
    <3>1. Plan(s) = Numbered("control", 1) \o Numbered("data", Channels(s))
      BY <2>1 DEF Plan
    <3>2. Numbered("control", 1) \in Seq(Owned(s)) /\ Numbered("data", Channels(s)) \in Seq(Owned(s))
      BY <1>1, <1>2, <2>1 DEF Pools
    <3>. QED BY <1>3, <3>1, <3>2
  <2>2. CASE s.kind = "leaderboard"
    <3>1. Plan(s) = Numbered("leaderboard", 1)
      BY <2>2 DEF Plan
    <3>. QED BY <1>1, <1>2, <2>2, <3>1 DEF Pools
  <2>. QED BY <2>1, <2>2
<1>. QED BY <1>4

\* A step of the other clients' affairs, or one that opens nothing.
LEMMA NothingOpened ==
    ASSUME Covered, UNCHANGED setting, \A c \in Clients : open'[c] \subseteq open[c]
    PROVE  Covered'
BY DEF Covered, Tidy

LEMMA MakeCovered == ASSUME Inv, Covered, NEW c \in Clients, Make(c) PROVE Covered'
<1> DEFINE x == Plan(setting[c])[made[c] + 1]
<1>1. phase[c] = "making" /\ open' = [open EXCEPT ![c] = @ \cup {x}] /\ setting' = setting
  BY DEF Make
<1>2. Tidy(c) => x \in Owned(setting[c])
  BY <1>1, NextConnection, TidyPlan DEF Tidy
<1> HIDE DEF x
<1>3. open'[c] = open[c] \cup {x} /\ \A d \in Clients \ {c} : open'[d] = open[d]
  BY <1>1 DEF Inv, Types
<1>4. ASSUME NEW d \in Clients, Tidy(d)' PROVE open'[d] \subseteq Owned(setting'[d])
  <2>1. Tidy(d) /\ setting'[d] = setting[d] /\ open[d] \subseteq Owned(setting[d])
    BY <1>1, <1>4 DEF Tidy, Covered
  <2>. QED BY <1>2, <1>3, <2>1
<1>. QED BY <1>4 DEF Covered

LEMMA ConstructCovered == ASSUME Inv, Covered, NEW c \in Clients, Construct(c) PROVE Covered'
<1>1. /\ phase[c] = "new" /\ open' = open
      /\ \A d \in Clients \ {c} : setting'[d] = setting[d]
  BY DEF Construct, Inv, Types
<1>2. open[c] = {}
  BY <1>1 DEF Inv, WithinPlan
<1>3. ASSUME NEW d \in Clients, Tidy(d)' PROVE open'[d] \subseteq Owned(setting'[d])
  <2>1. CASE d = c
    BY <1>1, <1>2, <2>1
  <2>2. CASE d # c
    BY <1>1, <1>3, <2>2 DEF Tidy, Covered
  <2>. QED BY <2>1, <2>2
<1>. QED BY <1>3 DEF Covered

LEMMA NextCovered == Inv /\ Covered /\ [Next]_vars => Covered'
<1> SUFFICES ASSUME Inv, Covered, [Next]_vars PROVE Covered'
  OBVIOUS
<1>1. CASE UNCHANGED vars
  BY <1>1 DEF vars, Covered, Tidy
<1>2. CASE Terminating
  BY <1>1, <1>2 DEF Terminating
<1>3. ASSUME NEW c \in Clients,
             \/ CannotMake(c) \/ StateChanged(c) \/ Expire(c) \/ LinkChanges(c)
             \/ \E g \in Callers : Call(g, c) \/ Served(g) \/ Canceled(g)
      PROVE  Covered'
  <2>1. UNCHANGED <<setting, open>>
    BY <1>3 DEF CannotMake, StateChanged, Expire, LinkChanges, Call, Served, Canceled, Ends, construction
  <2>. QED BY <2>1, NothingOpened
<1>4. ASSUME NEW c \in Clients, CheckConnection(c) \/ WaitExpires(c) \/ Close(c)
      PROVE  Covered'
  <2>1. setting' = setting
    BY <1>4 DEF CheckConnection, WaitExpires, FailConnect, Close, construction
  <2>2. open' = open \/ \E gone : open' = [open EXCEPT ![c] = open[c] \ gone]
    BY <1>4 DEF CheckConnection, WaitExpires, FailConnect, Close
  <2>3. \A d \in Clients : open'[d] \subseteq open[d]
    BY <2>2 DEF Inv, Types
  <2>. QED BY <2>1, <2>3, NothingOpened
<1>5. ASSUME NEW g \in Callers, Served(g) \/ Canceled(g) PROVE Covered'
  <2>1. UNCHANGED <<setting, open>>
    BY <1>5 DEF Served, Canceled, Ends, construction
  <2>. QED BY <2>1, NothingOpened
<1>. QED BY <1>1, <1>2, <1>3, <1>4, <1>5, MakeCovered, ConstructCovered DEF Next

\* Two functions that differ at most at one client.
LEMMA OneClient ==
    ASSUME NEW c \in Clients,
           \A d \in Clients \ {c} : setting'[d] = setting[d] /\ phase'[d] = phase[d] /\ open'[d] = open[d]
    PROVE  /\ LifePhase' = [LifePhase EXCEPT ![c] = LifePhase'[c]]
           /\ LifeOpen' = [LifeOpen EXCEPT ![c] = LifeOpen'[c]]
<1>1. \A d \in Clients \ {c} : LifePhase'[d] = LifePhase[d] /\ LifeOpen'[d] = LifeOpen[d]
  BY DEF LifePhase, LifeOpen, Tidy, Constructing
<1>. QED BY <1>1 DEF LifePhase, LifeOpen

LifeStep == Life!Next \/ UNCHANGED <<LifePhase, LifeOpen>>

\* What a client looks like from outside changes, or it does not.
LEMMA NothingSeen ==
    ASSUME \A c \in Clients : LifePhase'[c] = LifePhase[c] /\ LifeOpen'[c] = LifeOpen[c]
    PROVE  LifeStep
BY DEF LifePhase, LifeOpen, LifeStep

LEMMA UntidyStep ==
    ASSUME NEW c \in Clients, ~Tidy(c), setting' = setting,
           \A d \in Clients \ {c} : phase'[d] = phase[d] /\ open'[d] = open[d]
    PROVE  LifeStep
<1>1. \A d \in Clients : LifePhase'[d] = LifePhase[d] /\ LifeOpen'[d] = LifeOpen[d]
  BY DEF LifePhase, LifeOpen, Tidy, Constructing
<1>. QED BY <1>1, NothingSeen

LEMMA ConstructLife == ASSUME Inv, NEW c \in Clients, Construct(c) PROVE LifeStep
<1>1. /\ phase[c] = "new" /\ open' = open /\ phase'[c] \in {"making", "failed"}
      /\ \A d \in Clients \ {c} : setting'[d] = setting[d] /\ phase'[d] = phase[d]
  BY DEF Construct, Inv, Types
<1>2. open[c] = {}
  BY <1>1 DEF Inv, WithinPlan
<1>3. LifePhase[c] = "new" /\ LifeOpen[c] = {} /\ LifeOpen'[c] = {}
  BY <1>1, <1>2 DEF LifePhase, LifeOpen, Constructing
<1>4. /\ LifePhase' = [LifePhase EXCEPT ![c] = LifePhase'[c]]
      /\ LifeOpen' = [LifeOpen EXCEPT ![c] = LifeOpen'[c]]
  BY <1>1, OneClient
<1>5. LifePhase'[c] \in {"new", "making", "failed"}
  BY <1>1 DEF LifePhase, Constructing
<1>6. LifeOpen' = LifeOpen
  BY <1>3, <1>4 DEF LifeOpen
<1>7. CASE LifePhase'[c] = "new"
  <2>1. LifePhase' = LifePhase
    BY <1>3, <1>4, <1>7 DEF LifePhase
  <2>. QED BY <1>6, <2>1 DEF LifeStep
<1>8. CASE LifePhase'[c] \in {"making", "failed"}
  <2>1. Life!Start(c)
    BY <1>3, <1>4, <1>6, <1>8 DEF Life!Start
  <2>. QED BY <2>1 DEF LifeStep, Life!Next
<1>. QED BY <1>5, <1>7, <1>8

LEMMA MakeLife == ASSUME Inv, NEW c \in Clients, Make(c) PROVE LifeStep
<1> DEFINE x == Plan(setting[c])[made[c] + 1]
           p == IF RefusedSetting(c) THEN "failed"
                ELSE IF Eager(c, x) THEN "connecting" ELSE After(c, made[c] + 1)
<1>1. /\ phase[c] = "making" /\ setting' = setting
      /\ open' = [open EXCEPT ![c] = @ \cup {x}]
      /\ phase' = [phase EXCEPT ![c] = p]
  BY DEF Make
<1>2. x \in AllConnections /\ p \in {"failed", "connecting", "making", "ready"}
  <2>1. setting[c] \in Settings /\ made[c] + 1 \in 1..Len(Plan(setting[c])) /\ x \in AllConnections
    BY <1>1, NextConnection
  <2>2. After(c, made[c] + 1) \in {"making", "ready"}
    BY <2>1, AfterGoesOn
  <2>. QED BY <2>1, <2>2
<1> HIDE DEF x, p
<1>3. /\ open'[c] = open[c] \cup {x} /\ phase'[c] = p
      /\ \A d \in Clients \ {c} : setting'[d] = setting[d] /\ phase'[d] = phase[d] /\ open'[d] = open[d]
  BY <1>1 DEF Inv, Types
<1>4. CASE ~Tidy(c)
  BY <1>1, <1>3, <1>4, UntidyStep
<1>5. CASE Tidy(c)
  <2>1. /\ LifePhase[c] = "making" /\ LifeOpen[c] = open[c] /\ LifeOpen'[c] = open[c] \cup {x}
        /\ LifePhase'[c] \in {"making", "ready", "failed"}
    BY <1>1, <1>2, <1>3, <1>5 DEF LifePhase, LifeOpen, Tidy, Constructing
  <2>2. /\ LifePhase' = [LifePhase EXCEPT ![c] = LifePhase'[c]]
        /\ LifeOpen' = [LifeOpen EXCEPT ![c] = LifeOpen'[c]]
    BY <1>3, OneClient
  <2>3. Life!Open(c, x)
    BY <2>1, <2>2 DEF Life!Open
  <2>. QED BY <1>2, <2>3 DEF LifeStep, Life!Next
<1>. QED BY <1>4, <1>5

\* A constructor that goes on without opening, returns, or gives up.
LEMMA MoveLife ==
    ASSUME Inv, NEW c \in Clients, Constructing(c), setting' = setting,
           NEW p, p \in {"making", "connecting", "waiting", "ready", "failed"},
           phase' = [phase EXCEPT ![c] = p], NEW kept, kept \subseteq open[c],
           open' = [open EXCEPT ![c] = kept], p = "failed" \/ kept = open[c]
    PROVE  LifeStep
<1>1. /\ open'[c] = kept /\ phase'[c] = p
      /\ \A d \in Clients \ {c} : setting'[d] = setting[d] /\ phase'[d] = phase[d] /\ open'[d] = open[d]
  BY DEF Inv, Types
<1>2. CASE ~Tidy(c)
  BY <1>1, <1>2, UntidyStep
<1>3. CASE Tidy(c)
  <2>1. /\ LifePhase[c] = "making" /\ LifeOpen[c] = open[c] /\ LifeOpen'[c] = kept
        /\ LifePhase'[c] = IF p \in {"ready", "failed"} THEN p ELSE "making"
    BY <1>1, <1>3 DEF LifePhase, LifeOpen, Tidy, Constructing
  <2>2. /\ LifePhase' = [LifePhase EXCEPT ![c] = LifePhase'[c]]
        /\ LifeOpen' = [LifeOpen EXCEPT ![c] = LifeOpen'[c]]
    BY <1>1, OneClient
  <2>3. CASE p = "failed"
    <3>1. Life!GiveUp(c)
      BY <2>1, <2>2, <2>3 DEF Life!GiveUp
    <3>. QED BY <3>1 DEF LifeStep, Life!Next
  <2>4. CASE p # "failed"
    <3>1. LifeOpen' = LifeOpen
      <4>1. LifeOpen' = [LifeOpen EXCEPT ![c] = LifeOpen[c]]
        BY <2>1, <2>2, <2>4
      <4>. QED BY <4>1 DEF LifeOpen
    <3>2. CASE p = "ready"
      <4>1. Life!Return(c)
        BY <2>1, <2>2, <3>1, <3>2 DEF Life!Return
      <4>. QED BY <4>1 DEF LifeStep, Life!Next
    <3>3. CASE p # "ready"
      <4>1. LifePhase'[c] = LifePhase[c]
        BY <2>1, <2>4, <3>3
      <4>2. LifePhase' = [LifePhase EXCEPT ![c] = LifePhase[c]]
        BY <2>2, <4>1
      <4>3. LifePhase' = LifePhase
        BY <4>2 DEF LifePhase
      <4>. QED BY <3>1, <4>3 DEF LifeStep
    <3>. QED BY <3>2, <3>3
  <2>. QED BY <2>3, <2>4
<1>. QED BY <1>2, <1>3

LEMMA StayLife ==
    ASSUME Inv, NEW c \in Clients, Constructing(c), UNCHANGED <<setting, open>>,
           NEW p, p \in {"making", "connecting", "waiting", "ready", "failed"},
           phase' = [phase EXCEPT ![c] = p]
    PROVE  LifeStep
<1>1. open' = [open EXCEPT ![c] = open[c]]
  BY OpenAsItIs
<1>2. \A kept : kept = open[c] => open' = [open EXCEPT ![c] = kept] /\ kept \subseteq open[c]
  BY <1>1
<1>. QED BY <1>2, MoveLife

LEMMA FailConnectLife ==
    ASSUME Inv, NEW c \in Clients, phase[c] \in {"connecting", "waiting"}, FailConnect(c)
    PROVE  LifeStep
<1> DEFINE kept == open[c] \ {Plan(setting[c])[made[c]]}
<1>1. /\ phase' = [phase EXCEPT ![c] = "failed"] /\ open' = [open EXCEPT ![c] = kept]
      /\ setting' = setting /\ Constructing(c)
  BY DEF FailConnect, Constructing
<1>2. kept \subseteq open[c]
  OBVIOUS
<1> HIDE DEF kept
<1>. QED BY <1>1, <1>2, MoveLife

LEMMA ConstructionLife ==
    ASSUME Inv, NEW c \in Clients,
           \/ CannotMake(c) \/ CheckConnection(c) \/ StateChanged(c) \/ WaitExpires(c)
           \/ Expire(c) \/ LinkChanges(c)
    PROVE  LifeStep
<1>1. CASE CannotMake(c)
  <2>1. Constructing(c) /\ phase' = [phase EXCEPT ![c] = "failed"] /\ UNCHANGED <<setting, open>>
    BY <1>1 DEF CannotMake, construction, Constructing
  <2>. QED BY <2>1, StayLife
<1>2. CASE StateChanged(c)
  <2>1. Constructing(c) /\ phase' = [phase EXCEPT ![c] = "connecting"] /\ UNCHANGED <<setting, open>>
    BY <1>2 DEF StateChanged, construction, Constructing
  <2>. QED BY <2>1, StayLife
<1>3. CASE WaitExpires(c)
  BY <1>3, FailConnectLife DEF WaitExpires
<1>4. CASE Expire(c) \/ LinkChanges(c)
  <2>1. UNCHANGED <<setting, phase, open>>
    BY <1>4 DEF Expire, LinkChanges
  <2>. QED BY <2>1 DEF LifeStep, LifePhase, LifeOpen, Tidy, Constructing
<1>5. CASE CheckConnection(c)
  <2>1. Constructing(c) /\ phase[c] = "connecting"
    BY <1>5 DEF CheckConnection, Constructing
  <2>2. CASE phase' = [phase EXCEPT ![c] = After(c, made[c])] /\ UNCHANGED <<setting, made, open>>
    <3>1. After(c, made[c]) \in {"making", "ready"}
      BY DEF After
    <3>. QED BY <2>1, <2>2, <3>1, StayLife
  <2>3. CASE phase' = [phase EXCEPT ![c] = "waiting"] /\ UNCHANGED <<setting, made, open>>
    BY <2>1, <2>3, StayLife
  <2>4. CASE FailConnect(c)
    BY <2>1, <2>4, FailConnectLife
  <2>. QED BY <1>5, <2>2, <2>3, <2>4 DEF CheckConnection
<1>. QED BY <1>1, <1>2, <1>3, <1>4, <1>5

LEMMA CloseLife == ASSUME Inv, Covered, NEW c \in Clients, Close(c) PROVE LifeStep
<1> DEFINE kept == open[c] \ Closing(c)
<1>1. /\ phase[c] \in {"ready", "closed"} /\ setting' = setting
      /\ phase' = [phase EXCEPT ![c] = "closed"]
      /\ open' = [open EXCEPT ![c] = kept]
  BY DEF Close, Usable, construction
<1>2. Tidy(c) => kept = {}
  <2>1. ASSUME Tidy(c) PROVE open[c] \subseteq Closing(c)
    <3>1. open[c] \subseteq Owned(setting[c])
      BY <2>1 DEF Covered
    <3>2. Owned(setting[c]) \subseteq Closing(c)
      BY <2>1 DEF Owned, Closing, Tidy
    <3>. QED BY <3>1, <3>2
  <2>. QED BY <2>1
<1> HIDE DEF kept
<1>3. /\ open'[c] = kept /\ phase'[c] = "closed"
      /\ \A d \in Clients \ {c} : setting'[d] = setting[d] /\ phase'[d] = phase[d] /\ open'[d] = open[d]
  BY <1>1 DEF Inv, Types
<1>4. CASE ~Tidy(c)
  BY <1>1, <1>3, <1>4, UntidyStep
<1>5. CASE Tidy(c)
  <2>1. LifePhase[c] \in {"ready", "closed"} /\ LifePhase'[c] = "closed" /\ LifeOpen'[c] = {}
    BY <1>1, <1>2, <1>3, <1>5 DEF LifePhase, LifeOpen, Tidy, Constructing
  <2>2. /\ LifePhase' = [LifePhase EXCEPT ![c] = LifePhase'[c]]
        /\ LifeOpen' = [LifeOpen EXCEPT ![c] = LifeOpen'[c]]
    BY <1>3, OneClient
  <2>3. Life!Close(c)
    BY <2>1, <2>2 DEF Life!Close
  <2>. QED BY <2>3 DEF LifeStep, Life!Next
<1>. QED BY <1>4, <1>5

LEMMA NextLife == Inv /\ Covered /\ [Next]_vars => LifeStep
<1> SUFFICES ASSUME Inv, Covered, [Next]_vars PROVE LifeStep
  OBVIOUS
<1>1. CASE UNCHANGED vars
  BY <1>1 DEF vars, LifeStep, LifePhase, LifeOpen, Tidy, Constructing
<1>2. CASE Terminating
  BY <1>1, <1>2 DEF Terminating
<1>3. ASSUME NEW c \in Clients,
             \/ Construct(c) \/ Make(c) \/ CannotMake(c) \/ CheckConnection(c) \/ StateChanged(c)
             \/ WaitExpires(c) \/ Expire(c) \/ LinkChanges(c) \/ Close(c)
      PROVE  LifeStep
  BY <1>3, ConstructLife, MakeLife, ConstructionLife, CloseLife
<1>4. ASSUME NEW g \in Callers, (\E c \in Clients : Call(g, c)) \/ Served(g) \/ Canceled(g)
      PROVE  LifeStep
  <2>1. UNCHANGED <<setting, phase, open>>
    BY <1>4 DEF Call, Served, Canceled, Ends, construction
  <2>. QED BY <2>1 DEF LifeStep, LifePhase, LifeOpen, Tidy, Constructing
<1>. QED BY <1>1, <1>2, <1>3, <1>4 DEF Next

LEMMA InitLife == Init => Life!Init /\ Covered
BY DEF Init, Life!Init, LifePhase, LifeOpen, Covered, Tidy, NoSetting

\* Storage and leaderboard clients keep the promise of ClientLife: a closed one
\* holds no connection (storage_client.go:213-218, leaderboard_client.go:61).
THEOREM TidyClients == Spec => TidyClientsKeepThePromise
<1>1. Inv /\ Covered /\ [Next]_vars => [Life!Next]_<<LifePhase, LifeOpen>>
  BY NextLife DEF LifeStep
<1>2. Spec => [](Inv /\ Covered)
  BY InitInv, InitLife, NextInv, NextCovered, PTL DEF Spec
<1>. QED BY <1>1, <1>2, InitLife, PTL DEF Spec, TidyClientsKeepThePromise, Life!Spec

-----------------------------------------------------------------------------
(* What a plan holds: every channel of every pool of the kind, once.       *)

\* The pools of a kind, and those with a connection for every channel.
Names(s) ==
    CASE s.kind = "cache" -> {"control", "data", "ping"}
      [] s.kind = "storage" -> {"control", "data"}
      [] s.kind = "topic" -> {"stream", "unary"}
      [] s.kind = "auth" -> {"token", "auth"}
      [] s.kind = "leaderboard" -> {"leaderboard"}

Size(s, p) == IF p \in {"data", "stream", "unary"} THEN Channels(s) ELSE 1

Whole(s) == {x \in AllConnections : x[1] \in Names(s) /\ x[2] < Size(s, x[1])}

LEMMA SettingHas ==
    ASSUME NEW s \in Settings
    PROVE  s.kind \in Kinds /\ Channels(s) \in 1..MaxChannels /\ MaxChannels \in Nat \ {0}
BY ConnectionsAssumption DEF Channels

\* The connections of a pool are numbered in their order.
LEMMA NumberedPlaces ==
    ASSUME NEW p \in Pools, NEW n \in 1..MaxChannels
    PROVE  /\ Numbered(p, n) \in Seq(AllConnections) /\ Len(Numbered(p, n)) = n
           /\ \A i \in 1..n : Numbered(p, n)[i] = <<p, i - 1>>
<1>1. n \in Nat /\ MaxChannels \in Nat
  BY ConnectionsAssumption
<1>2. \A i \in 1..n : <<p, i - 1>> \in AllConnections
  <2>1. \A i \in 1..n : i - 1 \in 0..(MaxChannels - 1)
    BY <1>1
  <2>. QED BY <2>1 DEF AllConnections
<1>. QED BY <1>1, <1>2 DEF Numbered

LEMMA OneNumbered ==
    ASSUME NEW p \in Pools
    PROVE  Numbered(p, 1) \in Seq(AllConnections) /\ Len(Numbered(p, 1)) = 1 /\ Numbered(p, 1)[1] = <<p, 0>>
<1>1. 1 \in 1..MaxChannels
  BY ConnectionsAssumption
<1>2. \A i \in 1..1 : Numbered(p, 1)[i] = <<p, i - 1>>
  BY <1>1, NumberedPlaces
<1>3. Numbered(p, 1) \in Seq(AllConnections) /\ Len(Numbered(p, 1)) = 1
  BY <1>1, NumberedPlaces
<1>. QED BY <1>2, <1>3

LEMMA PoolNames ==
    /\ "control" \in Pools /\ "data" \in Pools /\ "ping" \in Pools /\ "stream" \in Pools
    /\ "unary" \in Pools /\ "token" \in Pools /\ "auth" \in Pools /\ "leaderboard" \in Pools
BY DEF Pools

\* The connection at a place of two plans, one after the other.
LEMMA JoinedPlaces ==
    ASSUME NEW a \in Seq(AllConnections), NEW b \in Seq(AllConnections)
    PROVE  /\ a \o b \in Seq(AllConnections) /\ Len(a \o b) = Len(a) + Len(b)
           /\ \A i \in 1..Len(a) : (a \o b)[i] = a[i]
           /\ \A i \in 1..Len(b) : (a \o b)[Len(a) + i] = b[i]
OBVIOUS

\* The connection at a place of a plan.
LEMMA CachePlaces ==
    ASSUME NEW s \in Settings, s.kind = "cache"
    PROVE  LET n == Channels(s)
           IN /\ Len(Plan(s)) = n + 2
              /\ Plan(s)[1] = <<"control", 0>> /\ Plan(s)[n + 2] = <<"ping", 0>>
              /\ \A i \in 1..n : Plan(s)[i + 1] = <<"data", i - 1>>
<1> DEFINE n == Channels(s)
           a == Numbered("control", 1)
           b == Numbered("data", n)
           d == Numbered("ping", 1)
           e == a \o b
<1>1. n \in 1..MaxChannels /\ 1 \in 1..MaxChannels /\ n \in Nat \ {0}
  BY SettingHas
<1>2. Plan(s) = e \o d
  BY DEF Plan
<1>3. a \in Seq(AllConnections) /\ Len(a) = 1 /\ a[1] = <<"control", 0>>
  BY PoolNames, OneNumbered
<1>4. b \in Seq(AllConnections) /\ Len(b) = n /\ \A i \in 1..n : b[i] = <<"data", i - 1>>
  BY <1>1, PoolNames, NumberedPlaces
<1>5. d \in Seq(AllConnections) /\ Len(d) = 1 /\ d[1] = <<"ping", 0>>
  BY PoolNames, OneNumbered
<1> HIDE DEF a, b, d, e, n
<1>6. /\ e \in Seq(AllConnections) /\ Len(e) = 1 + n
      /\ e[1] = a[1] /\ \A i \in 1..n : e[1 + i] = b[i]
  <2>1. /\ e \in Seq(AllConnections) /\ Len(e) = Len(a) + Len(b)
        /\ \A i \in 1..Len(a) : e[i] = a[i]
        /\ \A i \in 1..Len(b) : e[Len(a) + i] = b[i]
    BY <1>3, <1>4, JoinedPlaces, Zenon DEF e
  <2>2. \A i \in 1..n : e[1 + i] = b[i]
    BY <1>3, <1>4, <2>1
  <2>3. 1 \in 1..Len(a)
    BY <1>3
  <2>. QED BY <1>3, <1>4, <2>1, <2>2, <2>3
<1>7. /\ Len(Plan(s)) = n + 2
      /\ \A i \in 1..(n + 1) : Plan(s)[i] = e[i]
      /\ Plan(s)[n + 2] = d[1]
  <2>1. /\ Len(Plan(s)) = Len(e) + Len(d)
        /\ \A i \in 1..Len(e) : Plan(s)[i] = e[i]
        /\ \A i \in 1..Len(d) : Plan(s)[Len(e) + i] = d[i]
    <3>1. e \in Seq(AllConnections) /\ d \in Seq(AllConnections)
      BY <1>5, <1>6
    <3>2. /\ Len(e \o d) = Len(e) + Len(d)
          /\ \A i \in 1..Len(e) : (e \o d)[i] = e[i]
          /\ \A i \in 1..Len(d) : (e \o d)[Len(e) + i] = d[i]
      BY <3>1, JoinedPlaces, Zenon
    <3>. QED BY <1>2, <3>2
  <2>2. 1 + n = n + 1 /\ (n + 1) + 1 = n + 2 /\ 1 \in 1..1
    BY <1>1
  <2>3. Plan(s)[(n + 1) + 1] = d[1]
    <3>1. Len(e) = n + 1 /\ 1 \in 1..Len(d)
      BY <1>5, <1>6, <2>2
    <3>2. Plan(s)[Len(e) + 1] = d[1]
      BY <2>1, <3>1, Zenon
    <3>. QED BY <3>1, <3>2, Zenon
  <2>4. Len(Plan(s)) = (n + 1) + 1
    BY <1>5, <1>6, <2>1, <2>2
  <2>. QED BY <1>6, <2>1, <2>2, <2>3, <2>4
<1>8. \A i \in 1..n : i + 1 \in 1..(n + 1) /\ i + 1 = 1 + i
  BY <1>1
<1>. QED BY <1>1, <1>3, <1>4, <1>5, <1>6, <1>7, <1>8 DEF n

LEMMA StoragePlaces ==
    ASSUME NEW s \in Settings, s.kind = "storage"
    PROVE  LET n == Channels(s)
           IN /\ Len(Plan(s)) = n + 1 /\ Plan(s)[1] = <<"control", 0>>
              /\ \A i \in 1..n : Plan(s)[i + 1] = <<"data", i - 1>>
<1> DEFINE n == Channels(s)
           a == Numbered("control", 1)
           b == Numbered("data", n)
<1>1. n \in 1..MaxChannels /\ 1 \in 1..MaxChannels /\ n \in Nat \ {0}
  BY SettingHas
<1>2. Plan(s) = a \o b
  BY DEF Plan
<1>3. a \in Seq(AllConnections) /\ Len(a) = 1 /\ a[1] = <<"control", 0>>
  BY PoolNames, OneNumbered
<1>4. b \in Seq(AllConnections) /\ Len(b) = n /\ \A i \in 1..n : b[i] = <<"data", i - 1>>
  BY <1>1, PoolNames, NumberedPlaces
<1> HIDE DEF a, b, n
<1>5. /\ Len(a \o b) = 1 + n
      /\ (a \o b)[1] = a[1] /\ \A i \in 1..n : (a \o b)[1 + i] = b[i]
  <2>1. /\ a \o b \in Seq(AllConnections) /\ Len(a \o b) = Len(a) + Len(b)
        /\ \A i \in 1..Len(a) : (a \o b)[i] = a[i]
        /\ \A i \in 1..Len(b) : (a \o b)[Len(a) + i] = b[i]
    BY <1>3, <1>4, JoinedPlaces, Zenon
  <2>. QED BY <1>1, <1>3, <1>4, <2>1
<1>6. \A i \in 1..n : i + 1 = 1 + i
  BY <1>1
<1>. QED BY <1>1, <1>2, <1>3, <1>4, <1>5, <1>6 DEF n

LEMMA TopicPlaces ==
    ASSUME NEW s \in Settings, s.kind = "topic"
    PROVE  LET n == Channels(s)
           IN /\ Len(Plan(s)) = n + n
              /\ \A i \in 1..n : Plan(s)[i] = <<"stream", i - 1>> /\ Plan(s)[n + i] = <<"unary", i - 1>>
<1> DEFINE n == Channels(s)
           a == Numbered("stream", n)
           b == Numbered("unary", n)
<1>1. n \in 1..MaxChannels /\ n \in Nat \ {0}
  BY SettingHas
<1>2. Plan(s) = a \o b
  BY DEF Plan
<1>3. a \in Seq(AllConnections) /\ Len(a) = n /\ \A i \in 1..n : a[i] = <<"stream", i - 1>>
  BY <1>1, PoolNames, NumberedPlaces
<1>4. b \in Seq(AllConnections) /\ Len(b) = n /\ \A i \in 1..n : b[i] = <<"unary", i - 1>>
  BY <1>1, PoolNames, NumberedPlaces
<1> HIDE DEF a, b, n
<1>5. /\ Len(a \o b) = n + n
      /\ \A i \in 1..n : (a \o b)[i] = a[i] /\ (a \o b)[n + i] = b[i]
  <2>1. /\ a \o b \in Seq(AllConnections) /\ Len(a \o b) = Len(a) + Len(b)
        /\ \A i \in 1..Len(a) : (a \o b)[i] = a[i]
        /\ \A i \in 1..Len(b) : (a \o b)[Len(a) + i] = b[i]
    BY <1>3, <1>4, JoinedPlaces, Zenon
  <2>. QED BY <1>1, <1>3, <1>4, <2>1
<1>. QED BY <1>1, <1>2, <1>3, <1>4, <1>5 DEF n

LEMMA AuthPlaces ==
    ASSUME NEW s \in Settings, s.kind = "auth"
    PROVE  Len(Plan(s)) = 2 /\ Plan(s)[1] = <<"token", 0>> /\ Plan(s)[2] = <<"auth", 0>>
<1> DEFINE a == Numbered("token", 1)
           b == Numbered("auth", 1)
<1>1. 1 \in 1..MaxChannels
  BY SettingHas
<1>2. Plan(s) = a \o b
  BY DEF Plan
<1>3. a \in Seq(AllConnections) /\ Len(a) = 1 /\ a[1] = <<"token", 0>>
  BY PoolNames, OneNumbered
<1>4. b \in Seq(AllConnections) /\ Len(b) = 1 /\ b[1] = <<"auth", 0>>
  BY PoolNames, OneNumbered
<1> HIDE DEF a, b
<1>. QED BY <1>2, <1>3, <1>4, JoinedPlaces

LEMMA LeaderboardPlaces ==
    ASSUME NEW s \in Settings, s.kind = "leaderboard"
    PROVE  Len(Plan(s)) = 1 /\ Plan(s)[1] = <<"leaderboard", 0>>
<1>1. 1 \in 1..MaxChannels
  BY SettingHas
<1>2. Plan(s) = Numbered("leaderboard", 1)
  BY DEF Plan
<1>. QED BY <1>2, PoolNames, OneNumbered

\* What a client of the settings is made of, one connection at a time.
LEMMA WholeIs ==
    ASSUME NEW s \in Settings
    PROVE  /\ \A p \in Names(s) : \A k \in 0..(Size(s, p) - 1) : <<p, k>> \in Whole(s)
           /\ \A x \in Whole(s) : \E p \in Names(s) : \E k \in 0..(Size(s, p) - 1) : x = <<p, k>>
           /\ Whole(s) \subseteq AllConnections
<1>1. /\ \A p : Size(s, p) \in 1..MaxChannels
      /\ MaxChannels \in Nat \ {0}
      /\ Names(s) \subseteq Pools
  <2>1. s.kind \in Kinds /\ Channels(s) \in 1..MaxChannels /\ MaxChannels \in Nat \ {0}
    BY SettingHas
  <2>2. \A p : Size(s, p) \in 1..MaxChannels
    BY <2>1 DEF Size
  <2>3. Names(s) \subseteq Pools
    BY <2>1 DEF Names, Pools, Kinds
  <2>. QED BY <2>1, <2>2, <2>3
<1>2. ASSUME NEW p \in Names(s), NEW k \in 0..(Size(s, p) - 1)
      PROVE  <<p, k>> \in Whole(s)
  <2>1. Size(s, p) \in 1..MaxChannels
    BY <1>1
  <2>2. k \in 0..(MaxChannels - 1) /\ k < Size(s, p)
    BY <1>1, <2>1
  <2>3. <<p, k>> \in AllConnections
    BY <1>1, <2>2 DEF AllConnections
  <2>. QED BY <2>2, <2>3 DEF Whole
<1>3. ASSUME NEW x \in Whole(s)
      PROVE  \E p \in Names(s) : \E k \in 0..(Size(s, p) - 1) : x = <<p, k>>
  <2>1. x \in AllConnections /\ x[1] \in Names(s) /\ x[2] < Size(s, x[1])
    BY DEF Whole
  <2>2. x = <<x[1], x[2]>> /\ x[2] \in 0..(MaxChannels - 1)
    BY <2>1 DEF AllConnections
  <2>3. Size(s, x[1]) \in 1..MaxChannels
    BY <1>1
  <2>4. x[2] \in 0..(Size(s, x[1]) - 1)
    BY <1>1, <2>1, <2>2, <2>3
  <2>. QED BY <2>1, <2>2, <2>4
<1>. QED BY <1>2, <1>3 DEF Whole

\* A plan holds the whole of the client, and every connection once.
PlanIsWhole(s) ==
    /\ \A i \in 1..Len(Plan(s)) : Plan(s)[i] \in Whole(s)
    /\ \A x \in Whole(s) : \E i \in 1..Len(Plan(s)) : Plan(s)[i] = x
    /\ \A i, j \in 1..Len(Plan(s)) : Plan(s)[i] = Plan(s)[j] => i = j
    /\ Plan(s)[1][1] # "data"

LEMMA CacheWhole == ASSUME NEW s \in Settings, s.kind = "cache" PROVE PlanIsWhole(s)
<1> DEFINE n == Channels(s)
           P == Plan(s)
<1>1. n \in Nat \ {0}
  BY SettingHas
<1>2. /\ Len(P) = n + 2 /\ P[1] = <<"control", 0>> /\ P[n + 2] = <<"ping", 0>>
      /\ \A i \in 1..n : P[i + 1] = <<"data", i - 1>>
  BY CachePlaces
<1>3. /\ Names(s) = {"control", "data", "ping"}
      /\ Size(s, "control") = 1 /\ Size(s, "ping") = 1 /\ Size(s, "data") = n
  BY DEF Names, Size
<1>4. /\ <<"control", 0>> \in Whole(s) /\ <<"ping", 0>> \in Whole(s)
      /\ \A k \in 0..(n - 1) : <<"data", k>> \in Whole(s)
  <2>1. 0 \in 0..(1 - 1)
    OBVIOUS
  <2>. QED BY <1>3, <2>1, WholeIs
<1>5. \A x \in Whole(s) : x = <<"control", 0>> \/ x = <<"ping", 0>> \/ \E k \in 0..(n - 1) : x = <<"data", k>>
  <2>1. \A k \in 0..(1 - 1) : k = 0
    OBVIOUS
  <2>. QED BY <1>3, <2>1, WholeIs
<1> HIDE DEF n, P
<1>6. ASSUME NEW i \in 1..(n + 2), i # 1, i # n + 2 PROVE i - 2 \in 0..(n - 1) /\ P[i] = <<"data", i - 2>>
  <2>1. i - 1 \in 1..n /\ (i - 1) + 1 = i /\ (i - 1) - 1 = i - 2 /\ i - 2 \in 0..(n - 1)
    BY <1>1, <1>6
  <2>2. P[(i - 1) + 1] = <<"data", (i - 1) - 1>>
    BY <1>2, <2>1
  <2>. QED BY <2>1, <2>2
<1>7. \A i \in 1..Len(P) : P[i] \in Whole(s)
  BY <1>2, <1>4, <1>6
<1>8. \A x \in Whole(s) : \E i \in 1..Len(P) : P[i] = x
  <2>1. 1 \in 1..(n + 2) /\ n + 2 \in 1..(n + 2)
    BY <1>1
  <2>2. ASSUME NEW k \in 0..(n - 1) PROVE \E i \in 1..(n + 2) : P[i] = <<"data", k>>
    <3>1. k + 2 \in 1..(n + 2) /\ k + 2 # 1 /\ k + 2 # n + 2 /\ (k + 2) - 2 = k
      BY <1>1
    <3>2. P[k + 2] = <<"data", (k + 2) - 2>>
      BY <1>6, <3>1
    <3>. QED BY <3>1, <3>2
  <2>. QED BY <1>2, <1>5, <2>1, <2>2
<1>9. ASSUME NEW i \in 1..Len(P), NEW j \in 1..Len(P), P[i] = P[j] PROVE i = j
  <2>1. i \in 1..(n + 2) /\ j \in 1..(n + 2)
    BY <1>2
  <2>2. \A k : <<"control", 0>> # <<"data", k>> /\ <<"ping", 0>> # <<"data", k>> /\ <<"control", 0>> # <<"ping", 0>>
    OBVIOUS
  <2>3. CASE i = 1 \/ i = n + 2 \/ j = 1 \/ j = n + 2
    BY <1>2, <1>6, <1>9, <2>1, <2>2, <2>3
  <2>4. CASE i # 1 /\ i # n + 2 /\ j # 1 /\ j # n + 2
    <3>1. <<"data", i - 2>> = <<"data", j - 2>>
      BY <1>6, <1>9, <2>1, <2>4
    <3>2. i - 2 = j - 2
      BY <3>1
    <3>. QED BY <1>1, <2>1, <3>2
  <2>. QED BY <2>3, <2>4
<1>10. P[1][1] # "data"
  BY <1>2
<1>. QED BY <1>7, <1>8, <1>9, <1>10 DEF PlanIsWhole, P

LEMMA StorageWhole == ASSUME NEW s \in Settings, s.kind = "storage" PROVE PlanIsWhole(s)
<1> DEFINE n == Channels(s)
           P == Plan(s)
<1>1. n \in Nat \ {0}
  BY SettingHas
<1>2. /\ Len(P) = n + 1 /\ P[1] = <<"control", 0>>
      /\ \A i \in 1..n : P[i + 1] = <<"data", i - 1>>
  BY StoragePlaces
<1>3. Names(s) = {"control", "data"} /\ Size(s, "control") = 1 /\ Size(s, "data") = n
  BY DEF Names, Size
<1>4. <<"control", 0>> \in Whole(s) /\ \A k \in 0..(n - 1) : <<"data", k>> \in Whole(s)
  <2>1. 0 \in 0..(1 - 1)
    OBVIOUS
  <2>. QED BY <1>3, <2>1, WholeIs
<1>5. \A x \in Whole(s) : x = <<"control", 0>> \/ \E k \in 0..(n - 1) : x = <<"data", k>>
  <2>1. \A k \in 0..(1 - 1) : k = 0
    OBVIOUS
  <2>. QED BY <1>3, <2>1, WholeIs
<1> HIDE DEF n, P
<1>6. ASSUME NEW i \in 1..(n + 1), i # 1 PROVE i - 2 \in 0..(n - 1) /\ P[i] = <<"data", i - 2>>
  <2>1. i - 1 \in 1..n /\ (i - 1) + 1 = i /\ (i - 1) - 1 = i - 2 /\ i - 2 \in 0..(n - 1)
    BY <1>1, <1>6
  <2>2. P[(i - 1) + 1] = <<"data", (i - 1) - 1>>
    BY <1>2, <2>1
  <2>. QED BY <2>1, <2>2
<1>7. \A i \in 1..Len(P) : P[i] \in Whole(s)
  BY <1>2, <1>4, <1>6
<1>8. \A x \in Whole(s) : \E i \in 1..Len(P) : P[i] = x
  <2>1. 1 \in 1..(n + 1)
    BY <1>1
  <2>2. ASSUME NEW k \in 0..(n - 1) PROVE \E i \in 1..(n + 1) : P[i] = <<"data", k>>
    <3>1. k + 2 \in 1..(n + 1) /\ k + 2 # 1 /\ (k + 2) - 2 = k
      BY <1>1
    <3>2. P[k + 2] = <<"data", (k + 2) - 2>>
      BY <1>6, <3>1
    <3>. QED BY <3>1, <3>2
  <2>. QED BY <1>2, <1>5, <2>1, <2>2
<1>9. ASSUME NEW i \in 1..Len(P), NEW j \in 1..Len(P), P[i] = P[j] PROVE i = j
  <2>1. i \in 1..(n + 1) /\ j \in 1..(n + 1)
    BY <1>2
  <2>2. CASE i = 1 \/ j = 1
    BY <1>2, <1>6, <1>9, <2>1, <2>2
  <2>3. CASE i # 1 /\ j # 1
    <3>1. <<"data", i - 2>> = <<"data", j - 2>>
      BY <1>6, <1>9, <2>1, <2>3
    <3>2. i - 2 = j - 2
      BY <3>1
    <3>. QED BY <1>1, <2>1, <3>2
  <2>. QED BY <2>2, <2>3
<1>10. P[1][1] # "data"
  BY <1>2
<1>. QED BY <1>7, <1>8, <1>9, <1>10 DEF PlanIsWhole, P

LEMMA TopicWhole == ASSUME NEW s \in Settings, s.kind = "topic" PROVE PlanIsWhole(s)
<1> DEFINE n == Channels(s)
           P == Plan(s)
<1>1. n \in Nat \ {0}
  BY SettingHas
<1>2. /\ Len(P) = n + n
      /\ \A i \in 1..n : P[i] = <<"stream", i - 1>> /\ P[n + i] = <<"unary", i - 1>>
  BY TopicPlaces
<1>3. Names(s) = {"stream", "unary"} /\ Size(s, "stream") = n /\ Size(s, "unary") = n
  BY DEF Names, Size
<1>4. \A k \in 0..(n - 1) : <<"stream", k>> \in Whole(s) /\ <<"unary", k>> \in Whole(s)
  BY <1>3, WholeIs
<1>5. \A x \in Whole(s) : \E k \in 0..(n - 1) : x = <<"stream", k>> \/ x = <<"unary", k>>
  BY <1>3, WholeIs
<1> HIDE DEF n, P
<1>6. ASSUME NEW i \in 1..(n + n), i <= n PROVE i - 1 \in 0..(n - 1) /\ P[i] = <<"stream", i - 1>>
  <2>1. i \in 1..n /\ i - 1 \in 0..(n - 1)
    BY <1>1, <1>6
  <2>. QED BY <1>2, <2>1
<1>7. ASSUME NEW i \in 1..(n + n), ~(i <= n) PROVE i - n - 1 \in 0..(n - 1) /\ P[i] = <<"unary", i - n - 1>>
  <2>1. i - n \in 1..n /\ i - n - 1 \in 0..(n - 1) /\ n + (i - n) = i
    BY <1>1, <1>7
  <2>2. P[n + (i - n)] = <<"unary", (i - n) - 1>>
    BY <1>2, <2>1
  <2>. QED BY <2>1, <2>2
<1>8. \A i \in 1..Len(P) : P[i] \in Whole(s)
  BY <1>2, <1>4, <1>6, <1>7
<1>9. \A x \in Whole(s) : \E i \in 1..Len(P) : P[i] = x
  <2>1. ASSUME NEW k \in 0..(n - 1)
        PROVE  (\E i \in 1..(n + n) : P[i] = <<"stream", k>>) /\ (\E i \in 1..(n + n) : P[i] = <<"unary", k>>)
    <3>1. k + 1 \in 1..n /\ k + 1 \in 1..(n + n) /\ n + (k + 1) \in 1..(n + n) /\ (k + 1) - 1 = k
      BY <1>1
    <3>2. P[k + 1] = <<"stream", k>> /\ P[n + (k + 1)] = <<"unary", k>>
      BY <1>2, <3>1
    <3>. QED BY <3>1, <3>2
  <2>2. ASSUME NEW x \in Whole(s) PROVE \E i \in 1..(n + n) : P[i] = x
    <3>1. PICK k \in 0..(n - 1) : x = <<"stream", k>> \/ x = <<"unary", k>>
      BY <1>5
    <3>. QED BY <2>1, <3>1
  <2>. QED BY <1>2, <2>2
<1>10. ASSUME NEW i \in 1..Len(P), NEW j \in 1..Len(P), P[i] = P[j] PROVE i = j
  <2>1. i \in 1..(n + n) /\ j \in 1..(n + n)
    BY <1>2
  <2>2. CASE i <= n /\ j <= n
    <3>1. <<"stream", i - 1>> = <<"stream", j - 1>>
      BY <1>6, <1>10, <2>1, <2>2
    <3>2. i - 1 = j - 1
      BY <3>1
    <3>. QED BY <1>1, <2>1, <3>2
  <2>3. CASE ~(i <= n) /\ ~(j <= n)
    <3>1. <<"unary", i - n - 1>> = <<"unary", j - n - 1>>
      BY <1>7, <1>10, <2>1, <2>3
    <3>2. i - n - 1 = j - n - 1
      BY <3>1
    <3>. QED BY <1>1, <2>1, <3>2
  <2>4. CASE (i <= n) # (j <= n)
    BY <1>6, <1>7, <1>10, <2>1, <2>4
  <2>. QED BY <2>2, <2>3, <2>4
<1>11. P[1][1] # "data"
  <2>1. 1 \in 1..n
    BY <1>1
  <2>2. P[1] = <<"stream", 1 - 1>>
    BY <1>2, <2>1
  <2>. QED BY <2>2
<1>. QED BY <1>8, <1>9, <1>10, <1>11 DEF PlanIsWhole, P

LEMMA AuthWhole == ASSUME NEW s \in Settings, s.kind = "auth" PROVE PlanIsWhole(s)
<1> DEFINE P == Plan(s)
<1>1. Len(P) = 2 /\ P[1] = <<"token", 0>> /\ P[2] = <<"auth", 0>>
  BY AuthPlaces
<1>2. Names(s) = {"token", "auth"} /\ Size(s, "token") = 1 /\ Size(s, "auth") = 1
  BY DEF Names, Size
<1>3. <<"token", 0>> \in Whole(s) /\ <<"auth", 0>> \in Whole(s)
  <2>1. 0 \in 0..(1 - 1)
    OBVIOUS
  <2>. QED BY <1>2, <2>1, WholeIs
<1>4. \A x \in Whole(s) : x = <<"token", 0>> \/ x = <<"auth", 0>>
  <2>1. \A k \in 0..(1 - 1) : k = 0
    OBVIOUS
  <2>. QED BY <1>2, <2>1, WholeIs
<1>5. \A i \in 1..2 : i = 1 \/ i = 2
  OBVIOUS
<1> HIDE DEF P
<1>6. \A i, j \in 1..Len(P) : P[i] = P[j] => i = j
  BY <1>1, <1>5
<1>. QED BY <1>1, <1>3, <1>4, <1>5, <1>6 DEF PlanIsWhole, P

LEMMA LeaderboardWhole == ASSUME NEW s \in Settings, s.kind = "leaderboard" PROVE PlanIsWhole(s)
<1> DEFINE P == Plan(s)
<1>1. Len(P) = 1 /\ P[1] = <<"leaderboard", 0>>
  BY LeaderboardPlaces
<1>2. Names(s) = {"leaderboard"} /\ Size(s, "leaderboard") = 1
  BY DEF Names, Size
<1>3. <<"leaderboard", 0>> \in Whole(s)
  <2>1. 0 \in 0..(1 - 1)
    OBVIOUS
  <2>. QED BY <1>2, <2>1, WholeIs
<1>4. \A x \in Whole(s) : x = <<"leaderboard", 0>>
  <2>1. \A k \in 0..(1 - 1) : k = 0
    OBVIOUS
  <2>. QED BY <1>2, <2>1, WholeIs
<1> HIDE DEF P
<1>. QED BY <1>1, <1>3, <1>4 DEF PlanIsWhole, P

LEMMA EveryWhole == ASSUME NEW s \in Settings PROVE PlanIsWhole(s)
BY SettingHas, CacheWhole, StorageWhole, TopicWhole, AuthWhole, LeaderboardWhole DEF Kinds

LEMMA PoolsAreNames == ASSUME NEW s \in Settings PROVE PoolsOf(s) = Names(s)
<1>1. DOMAIN Plan(s) = 1..Len(Plan(s))
  BY PlanHolds
<1>2. \A i \in 1..Len(Plan(s)) : Plan(s)[i] \in Whole(s)
  BY EveryWhole DEF PlanIsWhole
<1>3. \A x \in Whole(s) : x[1] \in Names(s)
  BY DEF Whole
<1>4. ASSUME NEW p \in Names(s) PROVE \E i \in 1..Len(Plan(s)) : Plan(s)[i][1] = p
  <2>1. 0 \in 0..(Size(s, p) - 1)
    BY SettingHas DEF Size
  <2>2. <<p, 0>> \in Whole(s)
    BY <2>1, WholeIs
  <2>3. PICK i \in 1..Len(Plan(s)) : Plan(s)[i] = <<p, 0>>
    BY <2>2, EveryWhole DEF PlanIsWhole
  <2>. QED BY <2>3
<1>. QED BY <1>1, <1>2, <1>3, <1>4 DEF PoolsOf

-----------------------------------------------------------------------------
(* Type correctness.                                                       *)

States == {"none", "idle", "connecting", "ready", "failing", "lost"}

ConnectTypes ==
    /\ link \in [Clients -> States]
    /\ seen \in [Clients -> {"none", "idle", "connecting"}]
    /\ expired \in [Clients -> BOOLEAN]
    /\ reached \in [Clients -> SUBSET AllConnections]

CountingTypes ==
    /\ tickets \in [Clients \cup {"cache", "storage"} -> Nat]
    /\ drawn \in [Clients -> Nat]
    /\ picks \in [Clients -> [0..(MaxChannels - 1) -> Nat]]

Flights ==
    [what : {"flying", "served", "canceled"}, client : Clients, late : BOOLEAN, on : AllConnections]

CallTypes ==
    /\ call \in [Callers -> Flights \cup {NoCall}]
    /\ calls \in [Callers -> Nat]
    /\ closes \in [Clients -> Nat]

OtherTypes == ConnectTypes /\ CountingTypes /\ CallTypes

LEMMA InitTypes == Init => OtherTypes
<1> SUFFICES ASSUME Init PROVE OtherTypes
  OBVIOUS
<1>1. ConnectTypes
  BY DEF Init, ConnectTypes, States
<1>2. CountingTypes
  BY ConnectionsAssumption DEF Init, CountingTypes
<1>3. CallTypes
  BY DEF Init, CallTypes, NoCall
<1>. QED BY <1>1, <1>2, <1>3 DEF OtherTypes

\* The connection that is being connected is one that can be.
LEMMA CurrentConnection ==
    ASSUME Inv, NEW c \in Clients, phase[c] \in {"connecting", "waiting"}
    PROVE  /\ setting[c] \in Settings /\ made[c] \in 1..Len(Plan(setting[c]))
           /\ Plan(setting[c])[made[c]] \in AllConnections
<1>1. setting[c] \in Settings /\ made[c] \in DOMAIN Plan(setting[c])
  BY DEF Inv, WithinPlan
<1>. QED BY <1>1, PlanHolds

LEMMA ConnectReturnsTypes ==
    ASSUME ConnectTypes, NEW c \in Clients, ConnectReturns(c)
    PROVE  /\ link' \in [Clients -> States] /\ seen' \in [Clients -> {"none", "idle", "connecting"}]
           /\ expired' \in [Clients -> BOOLEAN]
BY DEF ConnectTypes, ConnectReturns, States

LEMMA ConstructionTypes ==
    ASSUME Inv, ConnectTypes, NEW c \in Clients,
           \/ Construct(c) \/ Make(c) \/ CannotMake(c) \/ CheckConnection(c) \/ StateChanged(c)
           \/ WaitExpires(c) \/ Expire(c) \/ LinkChanges(c)
    PROVE  ConnectTypes'
<1>1. CASE Construct(c) \/ CannotMake(c) \/ StateChanged(c)
  <2>1. UNCHANGED <<link, seen, expired, reached>>
    BY <1>1 DEF Construct, CannotMake, StateChanged, construction
  <2>. QED BY <2>1 DEF ConnectTypes
<1>2. CASE Make(c)
  <2>1. UNCHANGED <<seen, expired, reached>> /\ \E l \in {"idle", "none"} : link' = [link EXCEPT ![c] = l]
    BY <1>2 DEF Make
  <2>. QED BY <2>1 DEF ConnectTypes, States
<1>3. ASSUME FailConnect(c) PROVE ConnectTypes'
  <2>1. ConnectReturns(c) /\ reached' = reached
    BY <1>3 DEF FailConnect
  <2>. QED BY <2>1, ConnectReturnsTypes DEF ConnectTypes
<1>4. CASE CheckConnection(c)
  <2>1. Plan(setting[c])[made[c]] \in AllConnections
    BY <1>4, CurrentConnection DEF CheckConnection
  <2>2. CASE /\ reached' = [reached EXCEPT ![c] = @ \cup {Plan(setting[c])[made[c]]}]
             /\ ConnectReturns(c)
    <3>1. reached' \in [Clients -> SUBSET AllConnections]
      BY <2>1, <2>2 DEF ConnectTypes
    <3>. QED BY <2>2, <3>1, ConnectReturnsTypes DEF ConnectTypes
  <2>3. CASE /\ GetState(c) \in {"idle", "connecting"} /\ seen' = [seen EXCEPT ![c] = GetState(c)]
             /\ UNCHANGED <<link, expired, reached>>
    BY <2>3 DEF ConnectTypes
  <2>. QED BY <1>3, <1>4, <2>2, <2>3 DEF CheckConnection
<1>5. CASE WaitExpires(c)
  BY <1>3, <1>5 DEF WaitExpires
<1>6. CASE Expire(c)
  BY <1>6 DEF Expire, ConnectTypes
<1>7. CASE LinkChanges(c)
  <2>1. PICK s \in LinkSteps : link' = [link EXCEPT ![c] = s[2]]
    BY <1>7 DEF LinkChanges
  <2>2. s[2] \in States
    BY DEF LinkSteps, States
  <2>3. UNCHANGED <<seen, expired, reached>>
    BY <1>7 DEF LinkChanges
  <2>. QED BY <2>1, <2>2, <2>3 DEF ConnectTypes
<1>. QED BY <1>1, <1>2, <1>4, <1>5, <1>6, <1>7

\* The kinds with pools that calls are spread over.
Spreads(c) == setting[c].kind \in {"cache", "storage", "topic"}

LEMMA CounterOf ==
    ASSUME NEW c \in Clients, setting[c] \in Settings, Spreads(c), CountingTypes
    PROVE  /\ Counter(c) \in Clients \cup {"cache", "storage"}
           /\ tickets[Counter(c)] \in Nat
           /\ Index(c) \in 0..(Channels(setting[c]) - 1) /\ Index(c) \in 0..(MaxChannels - 1)
<1>1. Counter(c) \in Clients \cup {"cache", "storage"}
  BY DEF Counter, Spreads
<1>2. tickets[Counter(c)] \in Nat
  BY <1>1 DEF CountingTypes
<1>3. Channels(setting[c]) \in 1..MaxChannels /\ MaxChannels \in Nat \ {0}
  BY SettingHas
<1>4. Index(c) \in 0..(Channels(setting[c]) - 1)
  BY <1>2, <1>3 DEF Index
<1>. QED BY <1>1, <1>2, <1>3, <1>4

\* What a pick does to the counter of the client and to its account.
LEMMA PickDoes ==
    ASSUME NEW c \in Clients, setting[c] \in Settings, Spreads(c), CountingTypes, Pick(c)
    PROVE  /\ CountingTypes'
           /\ tickets'[Counter(c)] = tickets[Counter(c)] + 1
           /\ \A k \in (Clients \cup {"cache", "storage"}) \ {Counter(c)} : tickets'[k] = tickets[k]
           /\ drawn'[c] = drawn[c] + 1 /\ picks'[c][Index(c)] = picks[c][Index(c)] + 1
           /\ \A i \in 0..(MaxChannels - 1) : i # Index(c) => picks'[c][i] = picks[c][i]
           /\ \A d \in Clients \ {c} : drawn'[d] = drawn[d] /\ picks'[d] = picks[d]
<1> DEFINE i == Index(c)
           k == Counter(c)
<1>1. k \in Clients \cup {"cache", "storage"} /\ i \in 0..(MaxChannels - 1)
  BY CounterOf
<1>2. /\ tickets' = [tickets EXCEPT ![k] = @ + 1] /\ drawn' = [drawn EXCEPT ![c] = @ + 1]
      /\ picks' = [picks EXCEPT ![c][i] = @ + 1]
  BY DEF Pick
<1> HIDE DEF i, k
<1>3. /\ tickets' \in [Clients \cup {"cache", "storage"} -> Nat] /\ tickets'[k] = tickets[k] + 1
      /\ \A j \in (Clients \cup {"cache", "storage"}) \ {k} : tickets'[j] = tickets[j]
  BY <1>1, <1>2 DEF CountingTypes
<1>4. /\ drawn' \in [Clients -> Nat] /\ drawn'[c] = drawn[c] + 1
      /\ \A d \in Clients \ {c} : drawn'[d] = drawn[d]
  BY <1>2 DEF CountingTypes
<1>5. /\ picks' \in [Clients -> [0..(MaxChannels - 1) -> Nat]] /\ picks'[c][i] = picks[c][i] + 1
      /\ \A j \in 0..(MaxChannels - 1) : j # i => picks'[c][j] = picks[c][j]
      /\ \A d \in Clients \ {c} : picks'[d] = picks[d]
  <2> DEFINE row == [picks[c] EXCEPT ![i] = @ + 1]
  <2>1. picks' = [picks EXCEPT ![c] = row]
    BY <1>2, Zenon
  <2>2. picks[c] \in [0..(MaxChannels - 1) -> Nat]
    BY DEF CountingTypes
  <2>3. /\ row \in [0..(MaxChannels - 1) -> Nat] /\ row[i] = picks[c][i] + 1
        /\ \A j \in 0..(MaxChannels - 1) : j # i => row[j] = picks[c][j]
    <3>1. \A r \in [0..(MaxChannels - 1) -> Nat] : LET e == [r EXCEPT ![i] = @ + 1]
             IN /\ e \in [0..(MaxChannels - 1) -> Nat] /\ e[i] = r[i] + 1
                /\ \A j \in 0..(MaxChannels - 1) : j # i => e[j] = r[j]
      BY <1>1
    <3>. QED BY <2>2, <3>1
  <2> HIDE DEF row
  <2>4. picks'[c] = row /\ \A d \in Clients \ {c} : picks'[d] = picks[d]
    BY <2>1 DEF CountingTypes
  <2>5. picks' \in [Clients -> [0..(MaxChannels - 1) -> Nat]]
    BY <2>1, <2>3 DEF CountingTypes
  <2>. QED BY <2>3, <2>4, <2>5
<1>6. CountingTypes'
  BY <1>3, <1>4, <1>5 DEF CountingTypes
<1>. QED BY <1>3, <1>4, <1>5, <1>6 DEF i, k

\* Which client picks: a call on a pool that is spread over, or the Close of a
\* cache client.
LEMMA WhoPicks ==
    ASSUME Inv, NEW c \in Clients, Close(c) \/ \E g \in Callers : Call(g, c)
    PROVE  /\ setting[c] \in Settings
           /\ UNCHANGED counting \/ (Spreads(c) /\ Pick(c))
<1>1. setting[c] \in Settings
  BY DEF Call, Close, Usable, Inv, WithinPlan
<1>2. CASE Close(c)
  BY <1>1, <1>2 DEF Close, Spreads
<1>3. ASSUME NEW g \in Callers, Call(g, c) PROVE UNCHANGED counting \/ (Spreads(c) /\ Pick(c))
  <2>1. PICK pool \in PoolsOf(setting[c]) \ {"stream"} :
          IF pool \in Spread THEN Pick(c) ELSE UNCHANGED counting
    BY <1>3 DEF Call
  <2>2. pool \in Names(setting[c])
    BY <1>1, <2>1, PoolsAreNames
  <2>3. setting[c].kind \in Kinds
    BY <1>1, SettingHas
  <2>4. ASSUME pool \in Spread PROVE Spreads(c)
    BY <2>2, <2>3, <2>4 DEF Names, Spread, Spreads, Kinds
  <2>. QED BY <2>1, <2>4
<1>. QED BY <1>1, <1>2, <1>3

LEMMA NewFlight ==
    ASSUME NEW c \in Clients, NEW late \in BOOLEAN, NEW on \in AllConnections
    PROVE  LET f == [what |-> "flying", client |-> c, late |-> late, on |-> on]
           IN f \in Flights /\ f.what = "flying" /\ f.client = c /\ (f.late <=> late) /\ f.on = on
BY DEF Flights

LEMMA EndedFlight ==
    ASSUME NEW f \in Flights, NEW w \in {"served", "canceled"}
    PROVE  LET e == [f EXCEPT !.what = w]
           IN e \in Flights /\ e.what = w /\ e.client = f.client /\ (e.late <=> f.late) /\ e.on = f.on
BY DEF Flights

\* A call takes a connection of its client.
LEMMA CallTakes ==
    ASSUME Inv, OtherTypes, NEW c \in Clients, NEW g \in Callers, Call(g, c)
    PROVE  /\ call' \in [Callers -> Flights \cup {NoCall}]
           /\ \A h \in Callers \ {g} : call'[h] = call[h]
           /\ call'[g] \in Flights /\ call'[g].what = "flying" /\ call'[g].client = c
           /\ call'[g].late <=> phase[c] = "closed"
           /\ call'[g].on \in Whole(setting[c]) /\ call'[g].on[1] # "stream"
<1>1. PICK pool \in PoolsOf(setting[c]) \ {"stream"} :
        call' = [call EXCEPT ![g] = [what |-> "flying", client |-> c, late |-> phase[c] = "closed",
                                     on |-> <<pool, IF pool \in Spread THEN Index(c) ELSE 0>>]]
  BY DEF Call
<1> DEFINE n == IF pool \in Spread THEN Index(c) ELSE 0
           on == <<pool, n>>
           f == [what |-> "flying", client |-> c, late |-> phase[c] = "closed", on |-> on]
<1>2. setting[c] \in Settings /\ setting[c].kind \in Kinds /\ pool \in Names(setting[c]) \ {"stream"}
  <2>1. setting[c] \in Settings
    BY DEF Call, Usable, Inv, WithinPlan
  <2>. QED BY <1>1, <2>1, SettingHas, PoolsAreNames
<1>3. n \in 0..(Size(setting[c], pool) - 1)
  <2>1. CASE pool \in Spread
    <3>1. Spreads(c) /\ pool \in {"data", "stream", "unary"}
      BY <1>2, <2>1 DEF Names, Spread, Spreads, Kinds
    <3>2. Size(setting[c], pool) = Channels(setting[c])
      BY <3>1 DEF Size
    <3>. QED BY <1>2, <2>1, <3>1, <3>2, CounterOf DEF OtherTypes
  <2>2. CASE pool \notin Spread
    <3>1. pool \notin {"data", "stream", "unary"}
      BY <1>2, <2>2 DEF Spread
    <3>. QED BY <2>2, <3>1 DEF Size
  <2>. QED BY <2>1, <2>2
<1>4. on \in Whole(setting[c]) /\ on \in AllConnections /\ on[1] # "stream"
  <2> HIDE DEF n
  <2>1. on \in Whole(setting[c])
    BY <1>2, <1>3, WholeIs
  <2>. QED BY <1>2, <2>1 DEF Whole
<1>5. f \in Flights /\ f.what = "flying" /\ f.client = c /\ (f.late <=> phase[c] = "closed") /\ f.on = on
  <2> HIDE DEF on, n
  <2>1. (phase[c] = "closed") \in BOOLEAN
    OBVIOUS
  <2>. QED BY <1>4, <2>1, NewFlight, Zenon
<1>6. call' = [call EXCEPT ![g] = f]
  BY <1>1
<1> HIDE DEF f, on, n
<1>7. call'[g] = f /\ \A h \in Callers \ {g} : call'[h] = call[h]
  BY <1>6 DEF OtherTypes, CallTypes
<1>8. call' \in [Callers -> Flights \cup {NoCall}]
  BY <1>5, <1>6 DEF OtherTypes, CallTypes
<1>. QED BY <1>4, <1>5, <1>7, <1>8

LEMMA CallEnds ==
    ASSUME CallTypes, NEW g \in Callers, NEW w \in {"served", "canceled"}, Ends(g, w)
    PROVE  /\ call' \in [Callers -> Flights \cup {NoCall}]
           /\ \A h \in Callers \ {g} : call'[h] = call[h]
           /\ call[g] \in Flights /\ call'[g] \in Flights
           /\ call'[g].what = w /\ call'[g].client = call[g].client
           /\ (call'[g].late <=> call[g].late) /\ call'[g].on = call[g].on
<1>1. call[g] \in Flights
  BY DEF CallTypes, Ends, NoCall
<1> DEFINE e == [call[g] EXCEPT !.what = w]
<1>2. call' = [call EXCEPT ![g] = e]
  BY DEF Ends
<1>3. /\ e \in Flights /\ e.what = w /\ e.client = call[g].client
      /\ (e.late <=> call[g].late) /\ e.on = call[g].on
  BY <1>1, EndedFlight, Zenon
<1> HIDE DEF e
<1>4. call'[g] = e /\ \A h \in Callers \ {g} : call'[h] = call[h]
  BY <1>2 DEF CallTypes
<1>5. call' \in [Callers -> Flights \cup {NoCall}]
  BY <1>2, <1>3 DEF CallTypes
<1>. QED BY <1>1, <1>3, <1>4, <1>5

LEMMA NextTypes == Inv /\ OtherTypes /\ [Next]_vars => OtherTypes'
<1> SUFFICES ASSUME Inv, OtherTypes, [Next]_vars PROVE OtherTypes'
  OBVIOUS
<1> USE DEF OtherTypes
<1>1. CASE UNCHANGED vars
  BY <1>1 DEF vars, ConnectTypes, CountingTypes, CallTypes
<1>2. CASE Terminating
  BY <1>1, <1>2 DEF Terminating
<1>3. ASSUME NEW c \in Clients,
             \/ Construct(c) \/ Make(c) \/ CannotMake(c) \/ CheckConnection(c) \/ StateChanged(c)
             \/ WaitExpires(c) \/ Expire(c) \/ LinkChanges(c)
      PROVE  OtherTypes'
  <2>1. UNCHANGED using
    BY <1>3 DEF Construct, Make, CannotMake, CheckConnection, StateChanged, WaitExpires, FailConnect,
                Expire, LinkChanges
  <2>2. CountingTypes' /\ CallTypes'
    BY <2>1 DEF using, counting, CountingTypes, CallTypes
  <2>. QED BY <1>3, <2>2, ConstructionTypes
<1>4. ASSUME NEW c \in Clients, NEW g \in Callers, Call(g, c) PROVE OtherTypes'
  <2>1. ConnectTypes'
    BY <1>4 DEF Call, construction, ConnectTypes
  <2>2. CountingTypes'
    BY <1>4, WhoPicks, PickDoes DEF counting, CountingTypes
  <2>3. call' \in [Callers -> Flights \cup {NoCall}]
    BY <1>4, CallTakes
  <2>4. calls' = [calls EXCEPT ![g] = @ + 1] /\ closes' = closes
    BY <1>4 DEF Call
  <2>. QED BY <2>1, <2>2, <2>3, <2>4 DEF CallTypes
<1>5. ASSUME NEW g \in Callers, Served(g) \/ Canceled(g) PROVE OtherTypes'
  <2>1. PICK w \in {"served", "canceled"} : Ends(g, w)
    BY <1>5 DEF Served, Canceled
  <2>2. call' \in [Callers -> Flights \cup {NoCall}]
    BY <2>1, CallEnds
  <2>3. UNCHANGED <<construction, counting, calls, closes>>
    BY <2>1 DEF Ends
  <2>4. ConnectTypes' /\ CountingTypes'
    BY <2>3 DEF construction, counting, ConnectTypes, CountingTypes
  <2>. QED BY <2>2, <2>3, <2>4 DEF CallTypes
<1>6. ASSUME NEW c \in Clients, Close(c) PROVE OtherTypes'
  <2>1. ConnectTypes'
    BY <1>6 DEF Close, construction, ConnectTypes
  <2>2. CountingTypes'
    BY <1>6, WhoPicks, PickDoes DEF counting, CountingTypes
  <2>3. CallTypes'
    BY <1>6 DEF Close, CallTypes
  <2>. QED BY <2>1, <2>2, <2>3
<1>. QED BY <1>1, <1>2, <1>3, <1>4, <1>5, <1>6 DEF Next

\* Every variable keeps its type; above all, a counter that never stops names a
\* channel there is (the round robins of cache_client.go:328-332,
\* storage_client.go:97-101 and pubsub_client.go:79-89), and a call is made
\* with a connection of its client.
THEOREM TypeCorrect == Spec => []TypeOK
<1>1. Inv /\ OtherTypes => TypeOK
  <2> SUFFICES ASSUME Inv, OtherTypes PROVE TypeOK
    OBVIOUS
  <2>1. \A g \in Callers : call[g].what \in {"none", "flying", "served", "canceled"}
    BY DEF OtherTypes, CallTypes, Flights, NoCall
  <2>. QED BY <2>1 DEF Inv, Types, OtherTypes, ConnectTypes, CountingTypes, CallTypes, States, TypeOK
<1>. QED BY <1>1, InitInv, InitTypes, NextInv, NextTypes, PTL DEF Spec

-----------------------------------------------------------------------------
(* Constructors: what they have opened and what they have connected.       *)

Held(c) == {Plan(setting[c])[i] : i \in 1..made[c]}
ToConnect(c) == {x \in Held(c) : Eager(c, x)}
Current(c) == Plan(setting[c])[made[c]]

\* A client that has not given up holds all it has made, and has connected what
\* is to be connected, but for the connection that Connect waits for.
Stands(c) ==
    /\ phase[c] = "new" => reached[c] = {}
    /\ phase[c] # "closed" => closes[c] = 0
    /\ phase[c] \in {"making", "connecting", "waiting", "ready"} => open[c] = Held(c)
    /\ phase[c] \in {"making", "ready", "closed"} => reached[c] = ToConnect(c)
    /\ phase[c] = "making" /\ RefusedSetting(c) => made[c] = 0
    /\ phase[c] \in {"connecting", "waiting"} =>
         ~RefusedSetting(c) /\ Eager(c, Current(c)) /\ reached[c] = ToConnect(c) \ {Current(c)}
    /\ phase[c] = "failed" => open[c] = {x \in Held(c) : Eager(c, x) => x \in reached[c]}
    /\ phase[c] \in {"ready", "closed"} => made[c] = Len(Plan(setting[c]))

Standing == \A c \in Clients : Stands(c)

LEMMA StandsAsBefore ==
    ASSUME NEW d \in Clients, Stands(d), setting'[d] = setting[d], phase'[d] = phase[d], made'[d] = made[d],
           open'[d] = open[d], reached'[d] = reached[d], closes'[d] = closes[d]
    PROVE  Stands(d)'
BY DEF Stands, Held, ToConnect, Current, Eager, RefusedSetting

LEMMA InitStanding == Init => Standing
BY DEF Init, Standing, Stands

LEMMA ConstructStands ==
    ASSUME Inv, OtherTypes, Standing, NEW c \in Clients, Construct(c) PROVE Standing'
<1>1. PICK s \in Settings :
        /\ setting' = [setting EXCEPT ![c] = s]
        /\ phase' = [phase EXCEPT ![c] =
             IF s.kind \in {"cache", "storage"} /\ ~s.timeout THEN "failed" ELSE "making"]
  BY DEF Construct
<1>2. phase[c] = "new" /\ UNCHANGED <<made, open, reached, closes>>
  BY DEF Construct, using
<1>3. /\ phase'[c] \in {"failed", "making"}
      /\ \A d \in Clients \ {c} : phase'[d] = phase[d] /\ setting'[d] = setting[d]
  BY <1>1 DEF Inv, Types
<1>4. made'[c] = 0 /\ open'[c] = {} /\ reached'[c] = {} /\ closes'[c] = 0
  BY <1>2 DEF Inv, WithinPlan, Standing, Stands
<1>5. Held(c)' = {}
  BY <1>4 DEF Held
<1>6. Stands(c)'
  BY <1>3, <1>4, <1>5 DEF Stands, ToConnect
<1>7. \A d \in Clients \ {c} : Stands(d)'
  BY <1>2, <1>3, StandsAsBefore DEF Standing
<1>. QED BY <1>6, <1>7 DEF Standing

\* The next connection was not made before.
LEMMA NextIsNew ==
    ASSUME Inv, NEW c \in Clients, phase[c] = "making"
    PROVE  LET x == Plan(setting[c])[made[c] + 1]
           IN /\ {Plan(setting[c])[i] : i \in 1..(made[c] + 1)} = Held(c) \cup {x}
              /\ x \notin Held(c)
              /\ made[c] = 0 => ~Eager(c, x)
<1> DEFINE m == made[c]
           P == Plan(setting[c])
<1>1. setting[c] \in Settings /\ m + 1 \in 1..Len(P)
  BY NextConnection
<1>2. m \in Nat /\ Len(P) \in Nat
  BY <1>1, PlanHolds DEF Inv, Types
<1>3. (\A i, j \in 1..Len(P) : P[i] = P[j] => i = j) /\ P[1][1] # "data"
  BY <1>1, EveryWhole DEF PlanIsWhole
<1>4. Held(c) = {P[i] : i \in 1..m}
  BY DEF Held
<1>5. m = 0 => ~Eager(c, P[m + 1])
  BY <1>3 DEF Eager
<1> HIDE DEF m, P
<1>6. {P[i] : i \in 1..(m + 1)} = {P[i] : i \in 1..m} \cup {P[m + 1]}
  <2>1. \A i : i \in 1..(m + 1) <=> i \in 1..m \/ i = m + 1
    BY <1>2
  <2>. QED BY <2>1
<1>7. P[m + 1] \notin {P[i] : i \in 1..m}
  <2>1. \A i \in 1..m : i \in 1..Len(P) /\ i # m + 1
    BY <1>1, <1>2
  <2>. QED BY <1>1, <1>3, <2>1
<1>. QED BY <1>4, <1>5, <1>6, <1>7 DEF m, P

LEMMA MakeStands ==
    ASSUME Inv, OtherTypes, Standing, NEW c \in Clients, Make(c) PROVE Standing'
<1> DEFINE x == Plan(setting[c])[made[c] + 1]
           p == IF RefusedSetting(c) THEN "failed"
                ELSE IF Eager(c, x) THEN "connecting" ELSE After(c, made[c] + 1)
<1>1. /\ phase[c] = "making"
      /\ made' = [made EXCEPT ![c] = @ + 1]
      /\ open' = [open EXCEPT ![c] = @ \cup {x}]
      /\ phase' = [phase EXCEPT ![c] = p]
      /\ UNCHANGED <<setting, reached, closes>>
  BY DEF Make, using
<1>2. /\ {Plan(setting[c])[i] : i \in 1..(made[c] + 1)} = Held(c) \cup {x}
      /\ x \notin Held(c)
      /\ made[c] = 0 => ~Eager(c, x)
  BY <1>1, NextIsNew
<1>3. /\ p \in {"failed", "connecting", "making", "ready"}
      /\ p = "failed" <=> RefusedSetting(c)
      /\ p = "connecting" <=> ~RefusedSetting(c) /\ Eager(c, x)
      /\ p = "ready" => made[c] + 1 = Len(Plan(setting[c]))
  BY DEF After
<1>4. /\ open[c] = Held(c) /\ reached[c] = ToConnect(c) /\ closes[c] = 0
      /\ RefusedSetting(c) => made[c] = 0
  BY <1>1 DEF Standing, Stands
<1> HIDE DEF p
<1>5. /\ phase'[c] = p /\ made'[c] = made[c] + 1 /\ open'[c] = open[c] \cup {x}
      /\ \A d \in Clients \ {c} : phase'[d] = phase[d] /\ made'[d] = made[d] /\ open'[d] = open[d]
  BY <1>1 DEF Inv, Types
<1>6. /\ Held(c)' = Held(c) \cup {x} /\ Current(c)' = x
      /\ \A y : Eager(c, y)' <=> Eager(c, y)
      /\ RefusedSetting(c)' <=> RefusedSetting(c)
  BY <1>1, <1>2, <1>5 DEF Held, Current, Eager, RefusedSetting
<1>7. Plan(setting[c])' = Plan(setting[c])
  BY <1>1
<1> HIDE DEF x
<1>8. ToConnect(c)' = ToConnect(c) \cup (IF Eager(c, x) THEN {x} ELSE {}) /\ x \notin ToConnect(c)
  BY <1>2, <1>6 DEF ToConnect
<1>9. Stands(c)'
  <2>1. RefusedSetting(c) => ~Eager(c, x)
    BY <1>2, <1>4
  <2>2. open'[c] = Held(c)' /\ reached'[c] = ToConnect(c) /\ closes'[c] = 0
    BY <1>1, <1>4, <1>5, <1>6
  <2>3. CASE p = "failed"
    <3>1. {y \in Held(c)' : Eager(c, y)' => y \in reached'[c]} = Held(c)'
      BY <1>3, <1>6, <2>1, <2>2, <2>3 DEF ToConnect
    <3>. QED BY <1>5, <2>2, <2>3, <3>1 DEF Stands
  <2>4. CASE p = "connecting"
    BY <1>3, <1>5, <1>6, <1>8, <2>2, <2>4 DEF Stands
  <2>5. CASE p \in {"making", "ready"}
    BY <1>1, <1>3, <1>5, <1>6, <1>7, <1>8, <2>2, <2>5 DEF Stands
  <2>. QED BY <1>3, <2>3, <2>4, <2>5
<1>10. \A d \in Clients \ {c} : Stands(d)'
  BY <1>1, <1>5, StandsAsBefore DEF Standing
<1>. QED BY <1>9, <1>10 DEF Standing

\* Connect gives up: the connection it closes is the one that was not reached.
LEMMA FailConnectStands ==
    ASSUME Inv, OtherTypes, Standing, NEW c \in Clients, phase[c] \in {"connecting", "waiting"}, FailConnect(c),
           closes' = closes
    PROVE  Standing'
<1>1. /\ phase' = [phase EXCEPT ![c] = "failed"] /\ open' = [open EXCEPT ![c] = @ \ {Current(c)}]
      /\ UNCHANGED <<setting, made, reached>>
  BY DEF FailConnect, Current
<1>2. /\ open[c] = Held(c) /\ closes[c] = 0
      /\ Eager(c, Current(c)) /\ reached[c] = ToConnect(c) \ {Current(c)}
  BY DEF Standing, Stands
<1>3. /\ phase'[c] = "failed" /\ open'[c] = open[c] \ {Current(c)}
      /\ \A d \in Clients \ {c} : phase'[d] = phase[d] /\ open'[d] = open[d]
  BY <1>1 DEF Inv, Types
<1>4. Held(c)' = Held(c) /\ \A y : Eager(c, y)' <=> Eager(c, y)
  BY <1>1 DEF Held, Eager
<1>5. open'[c] = {y \in Held(c)' : Eager(c, y)' => y \in reached'[c]}
  BY <1>1, <1>2, <1>3, <1>4 DEF ToConnect
<1>6. Stands(c)'
  BY <1>1, <1>2, <1>3, <1>5 DEF Stands
<1>7. \A d \in Clients \ {c} : Stands(d)'
  BY <1>1, <1>3, StandsAsBefore DEF Standing
<1>. QED BY <1>6, <1>7 DEF Standing

\* A constructor goes elsewhere and changes nothing else of the account.
PhaseMoves(c) ==
    /\ \A d \in Clients \ {c} : phase'[d] = phase[d]
    /\ UNCHANGED <<setting, made, open, reached, closes>>

LEMMA PhaseMovesStands ==
    ASSUME Standing, NEW c \in Clients, PhaseMoves(c),
           \/ phase[c] \in {"connecting", "waiting"} /\ phase'[c] \in {"connecting", "waiting"}
           \/ phase[c] = "making" /\ phase'[c] = "failed"
    PROVE  Standing'
<1>1. \A d \in Clients \ {c} : phase'[d] = phase[d]
  BY DEF PhaseMoves
<1>2. /\ Held(c)' = Held(c) /\ ToConnect(c)' = ToConnect(c) /\ Current(c)' = Current(c)
      /\ (RefusedSetting(c)' <=> RefusedSetting(c)) /\ \A y : Eager(c, y)' <=> Eager(c, y)
  BY DEF PhaseMoves, Held, ToConnect, Current, Eager, RefusedSetting
<1>3. Stands(c)
  BY DEF Standing
<1>4. Stands(c)'
  <2>1. CASE phase[c] \in {"connecting", "waiting"} /\ phase'[c] \in {"connecting", "waiting"}
    BY <1>1, <1>2, <1>3, <2>1 DEF Stands, PhaseMoves
  <2>2. CASE phase[c] = "making" /\ phase'[c] = "failed"
    <3>1. {x \in Held(c) : Eager(c, x) => x \in reached[c]} = Held(c)
      BY <1>3, <2>2 DEF Stands, ToConnect
    <3>. QED BY <1>1, <1>2, <1>3, <2>2, <3>1 DEF Stands, PhaseMoves
  <2>. QED BY <2>1, <2>2
<1>5. \A d \in Clients \ {c} : Stands(d)'
  BY <1>1, StandsAsBefore DEF Standing, PhaseMoves
<1>. QED BY <1>4, <1>5 DEF Standing

LEMMA CheckStands ==
    ASSUME Inv, OtherTypes, Standing, NEW c \in Clients, CheckConnection(c) PROVE Standing'
<1>1. phase[c] = "connecting"
  BY DEF CheckConnection
<1>2. /\ open[c] = Held(c) /\ closes[c] = 0
      /\ Eager(c, Current(c)) /\ reached[c] = ToConnect(c) \ {Current(c)}
  BY <1>1 DEF Standing, Stands
<1>3. Current(c) \in Held(c) /\ made[c] # 0
  <2>1. made[c] \in 1..Len(Plan(setting[c])) /\ Len(Plan(setting[c])) \in Nat
    BY <1>1, CurrentConnection, PlanHolds
  <2>2. made[c] \in 1..made[c] /\ made[c] # 0
    BY <2>1
  <2>. QED BY <2>2 DEF Current, Held
<1>4. CASE /\ phase' = [phase EXCEPT ![c] = After(c, made[c])]
           /\ reached' = [reached EXCEPT ![c] = @ \cup {Current(c)}]
           /\ UNCHANGED <<setting, made, open, using>>
  <2>1. /\ phase'[c] = After(c, made[c]) /\ reached'[c] = ToConnect(c)
        /\ \A d \in Clients \ {c} : phase'[d] = phase[d] /\ reached'[d] = reached[d]
    BY <1>2, <1>3, <1>4 DEF Inv, Types, OtherTypes, ConnectTypes, ToConnect
  <2>2. /\ Held(c)' = Held(c) /\ ToConnect(c)' = ToConnect(c) /\ ~RefusedSetting(c)'
        /\ made'[c] = made[c] /\ setting'[c] = setting[c] /\ open'[c] = open[c] /\ closes'[c] = 0
    BY <1>1, <1>2, <1>4 DEF Held, ToConnect, Eager, RefusedSetting, using, Standing, Stands
  <2>3. /\ After(c, made[c]) \in {"making", "ready"}
        /\ After(c, made[c]) = "ready" => made[c] = Len(Plan(setting[c]))
    BY DEF After
  <2>4. Stands(c)'
    BY <1>2, <2>1, <2>2, <2>3 DEF Stands
  <2>5. \A d \in Clients \ {c} : Stands(d)'
    BY <1>4, <2>1, StandsAsBefore DEF Standing, using
  <2>. QED BY <2>4, <2>5 DEF Standing
<1>5. CASE phase' = [phase EXCEPT ![c] = "waiting"] /\ UNCHANGED <<setting, made, open, reached, using>>
  <2>1. phase'[c] = "waiting" /\ PhaseMoves(c)
    BY <1>5 DEF PhaseMoves, using, Inv, Types
  <2>. QED BY <1>1, <2>1, PhaseMovesStands
<1>6. CASE FailConnect(c)
  BY <1>1, <1>6, FailConnectStands DEF FailConnect, using
<1>. QED BY <1>4, <1>5, <1>6 DEF CheckConnection, Current

LEMMA OtherConstructionStands ==
    ASSUME Inv, OtherTypes, Standing, NEW c \in Clients,
           CannotMake(c) \/ StateChanged(c) \/ WaitExpires(c) \/ Expire(c) \/ LinkChanges(c)
    PROVE  Standing'
<1>1. CASE CannotMake(c)
  <2>1. phase[c] = "making" /\ phase'[c] = "failed" /\ PhaseMoves(c)
    BY <1>1 DEF CannotMake, PhaseMoves, construction, using, Inv, Types
  <2>. QED BY <2>1, PhaseMovesStands
<1>2. CASE StateChanged(c)
  <2>1. phase[c] = "waiting" /\ phase'[c] = "connecting" /\ PhaseMoves(c)
    BY <1>2 DEF StateChanged, PhaseMoves, construction, using, Inv, Types
  <2>. QED BY <2>1, PhaseMovesStands
<1>3. CASE WaitExpires(c)
  BY <1>3, FailConnectStands DEF WaitExpires, FailConnect, using
<1>4. CASE Expire(c) \/ LinkChanges(c)
  <2>1. UNCHANGED <<setting, phase, made, open, reached, closes>>
    BY <1>4 DEF Expire, LinkChanges, using
  <2>. QED BY <2>1, StandsAsBefore DEF Standing
<1>. QED BY <1>1, <1>2, <1>3, <1>4

LEMMA CloseStands ==
    ASSUME Inv, OtherTypes, Standing, NEW c \in Clients, Close(c) PROVE Standing'
<1>1. /\ phase[c] \in {"ready", "closed"} /\ phase' = [phase EXCEPT ![c] = "closed"]
      /\ open' = [open EXCEPT ![c] = @ \ Closing(c)] /\ closes' = [closes EXCEPT ![c] = @ + 1]
      /\ UNCHANGED <<setting, made, reached>>
  BY DEF Close, Usable, construction
<1>2. /\ phase'[c] = "closed"
      /\ \A d \in Clients \ {c} : phase'[d] = phase[d] /\ open'[d] = open[d] /\ closes'[d] = closes[d]
  BY <1>1 DEF Inv, Types, OtherTypes, CallTypes
<1>3. reached[c] = ToConnect(c) /\ made[c] = Len(Plan(setting[c]))
  BY <1>1 DEF Standing, Stands
<1>4. Held(c)' = Held(c) /\ ToConnect(c)' = ToConnect(c) /\ Plan(setting[c])' = Plan(setting[c])
  BY <1>1 DEF Held, ToConnect, Eager
<1>5. Stands(c)'
  BY <1>1, <1>2, <1>3, <1>4 DEF Stands
<1>6. \A d \in Clients \ {c} : Stands(d)'
  BY <1>1, <1>2, StandsAsBefore DEF Standing
<1>. QED BY <1>5, <1>6 DEF Standing

LEMMA NextStanding == Inv /\ OtherTypes /\ Standing /\ [Next]_vars => Standing'
<1> SUFFICES ASSUME Inv, OtherTypes, Standing, [Next]_vars PROVE Standing'
  OBVIOUS
<1>1. ASSUME UNCHANGED <<setting, phase, made, open, reached, closes>> PROVE Standing'
  BY <1>1, StandsAsBefore DEF Standing
<1>2. CASE UNCHANGED vars
  BY <1>1, <1>2 DEF vars
<1>3. CASE Terminating
  BY <1>2, <1>3 DEF Terminating
<1>4. ASSUME NEW c \in Clients,
             \/ Construct(c) \/ Make(c) \/ CannotMake(c) \/ CheckConnection(c) \/ StateChanged(c)
             \/ WaitExpires(c) \/ Expire(c) \/ LinkChanges(c) \/ Close(c)
      PROVE  Standing'
  BY <1>4, ConstructStands, MakeStands, CheckStands, OtherConstructionStands, CloseStands
<1>5. ASSUME NEW g \in Callers, (\E c \in Clients : Call(g, c)) \/ Served(g) \/ Canceled(g)
      PROVE  Standing'
  BY <1>1, <1>5 DEF Call, Served, Canceled, Ends, construction
<1>. QED BY <1>2, <1>3, <1>4, <1>5 DEF Next

\* A client that is through with its plan has made the whole of it.
LEMMA ReadyHoldsWhole ==
    ASSUME Inv, Standing, NEW c \in Clients, Usable(c)
    PROVE  setting[c] \in Settings /\ Held(c) = Whole(setting[c])
<1>1. setting[c] \in Settings /\ made[c] = Len(Plan(setting[c]))
  BY DEF Inv, WithinPlan, Usable, Standing, Stands
<1>. QED BY <1>1, EveryWhole DEF PlanIsWhole, Held

\* The connections of a pool with a channel for each number.
LEMMA DataChannels ==
    ASSUME NEW s \in Settings, s.kind \in {"cache", "storage"}
    PROVE  {x \in Whole(s) : x[1] = "data"} = {<<"data", i>> : i \in 0..(Channels(s) - 1)}
<1>1. "data" \in Names(s) /\ Size(s, "data") = Channels(s)
  BY DEF Names, Size
<1>2. \A i \in 0..(Channels(s) - 1) : <<"data", i>> \in Whole(s)
  BY <1>1, WholeIs
<1>3. ASSUME NEW x \in Whole(s), x[1] = "data" PROVE \E i \in 0..(Channels(s) - 1) : x = <<"data", i>>
  <2>1. PICK p \in Names(s) : \E k \in 0..(Size(s, p) - 1) : x = <<p, k>>
    BY WholeIs
  <2>2. PICK k \in 0..(Size(s, p) - 1) : x = <<p, k>>
    BY <2>1
  <2>3. p = "data"
    BY <1>3, <2>2
  <2>. QED BY <1>1, <2>2, <2>3
<1>. QED BY <1>2, <1>3

LEMMA ClientsWereConnected == Inv /\ Standing => EagerClientsWereConnected
<1> SUFFICES ASSUME Inv, Standing, NEW c \in Clients, Usable(c), setting[c].kind = "cache", setting[c].eager = "some"
             PROVE  reached[c] = {<<"data", i>> : i \in 0..(Channels(setting[c]) - 1)}
  BY DEF EagerClientsWereConnected
<1>1. setting[c] \in Settings /\ Held(c) = Whole(setting[c])
  BY ReadyHoldsWhole
<1>2. reached[c] = {x \in Held(c) : x[1] = "data"}
  BY DEF Standing, Stands, Usable, ToConnect, Eager
<1>. QED BY <1>1, <1>2, DataChannels

\* A cache client that was asked to connect eagerly has connected every data
\* channel when its constructor returns (cache_client.go:245-263).
THEOREM EagerlyConnected == Spec => []EagerClientsWereConnected
BY InitInv, InitTypes, InitStanding, NextInv, NextTypes, NextStanding, ClientsWereConnected, PTL DEF Spec

-----------------------------------------------------------------------------
(* Closed clients.                                                         *)

Pool(s, p) == {x \in Whole(s) : x[1] = p}

\* What is open after as many calls of Close as there were.
LeftOpen(c) ==
    /\ closes[c] > 0
    /\ setting[c].kind = "cache" =>
         /\ open[c] \ Pool(setting[c], "data") = Pool(setting[c], "ping")
         /\ Cardinality(open[c] \cap Pool(setting[c], "data")) < Channels(setting[c])
         /\ Cardinality(open[c] \cap Pool(setting[c], "data")) + closes[c] >= Channels(setting[c])
    /\ setting[c].kind = "topic" => open[c] = Pool(setting[c], "unary")
    /\ setting[c].kind = "auth" => open[c] = Pool(setting[c], "auth")
    /\ setting[c].kind \in {"storage", "leaderboard"} => open[c] = {}

Closed == \A c \in Clients : phase[c] = "closed" => LeftOpen(c)

LEMMA DataCount ==
    ASSUME NEW s \in Settings, s.kind = "cache"
    PROVE  IsFiniteSet(Pool(s, "data")) /\ Cardinality(Pool(s, "data")) = Channels(s)
<1> DEFINE n == Channels(s)
           f == [i \in 0..(n - 1) |-> <<"data", i>>]
<1>1. n \in Nat \ {0} /\ IsFiniteSet(0..(n - 1)) /\ Cardinality(0..(n - 1)) = n
  <2>1. n \in Nat \ {0}
    BY SettingHas
  <2>2. n - 1 \in Int /\ ~(0 > n - 1) /\ (n - 1) - 0 + 1 = n
    BY <2>1
  <2>. QED BY <2>1, <2>2, FS_Interval
<1>2. Pool(s, "data") = {<<"data", i>> : i \in 0..(n - 1)}
  BY DataChannels DEF Pool
<1> HIDE DEF n
<1>3. f \in Bijection(0..(n - 1), Pool(s, "data"))
  <2>1. \A i \in 0..(n - 1) : <<"data", i>> \in Pool(s, "data")
    BY <1>2
  <2>2. f \in [0..(n - 1) -> Pool(s, "data")] /\ \A i \in 0..(n - 1) : f[i] = <<"data", i>>
    BY <2>1
  <2> HIDE DEF f
  <2>3. \A i, j \in 0..(n - 1) : f[i] = f[j] => i = j
    BY <2>2
  <2>4. \A x \in Pool(s, "data") : \E i \in 0..(n - 1) : f[i] = x
    BY <1>2, <2>2
  <2>. QED BY <2>2, <2>3, <2>4 DEF Bijection, Injection, IsInjective, Surjection
<1>4. ExistsBijection(0..(n - 1), Pool(s, "data"))
  BY <1>3 DEF ExistsBijection
<1>. QED BY <1>1, <1>4, FS_Bijection DEF n

LEMMA CloseTakesOneChannel ==
    ASSUME Inv, OtherTypes, NEW c \in Clients, setting[c] \in Settings, setting[c].kind = "cache"
    PROVE  <<"data", Index(c)>> \in Pool(setting[c], "data")
<1>1. "data" \in Names(setting[c]) /\ Size(setting[c], "data") = Channels(setting[c])
  BY DEF Names, Size
<1>2. Index(c) \in 0..(Channels(setting[c]) - 1)
  BY CounterOf DEF Spreads, OtherTypes
<1>3. <<"data", Index(c)>> \in Whole(setting[c])
  BY <1>1, <1>2, WholeIs
<1>. QED BY <1>3 DEF Pool

\* One Close of a cache client: the control client goes, the ping client stays,
\* and one data channel goes if its turn has not come before.
LEMMA CacheCloses ==
    ASSUME Inv, OtherTypes, NEW c \in Clients, setting[c] \in Settings, setting[c].kind = "cache",
           NEW o, o = Whole(setting[c]) \/ o \ Pool(setting[c], "data") = Pool(setting[c], "ping")
    PROVE  LET D == Pool(setting[c], "data")
               k == o \ Closing(c)
           IN /\ k \ D = Pool(setting[c], "ping")
              /\ k \cap D = (o \cap D) \ {<<"data", Index(c)>>}
<1> DEFINE s == setting[c]
           D == Pool(s, "data")
           turn == <<"data", Index(c)>>
<1>1. turn \in D
  BY CloseTakesOneChannel
<1>2. \A x : x \in Closing(c) <=> (x \in AllConnections /\ x[1] = "control") \/ x = turn
  BY DEF Closing
<1>3. \A x \in Whole(s) : x \in AllConnections /\ x[1] \in {"control", "data", "ping"}
  BY DEF Whole, Names
<1>4. Whole(s) \ D = Pool(s, "ping") \cup Pool(s, "control") /\ D \subseteq Whole(s)
  BY <1>3 DEF Pool
<1>5. /\ \A x \in D : x[1] = "data" /\ x \in Whole(s)
      /\ \A x \in Pool(s, "ping") : x[1] = "ping" /\ x \in Whole(s)
      /\ \A x \in Pool(s, "control") : x[1] = "control" /\ x \in Whole(s)
  BY DEF Pool
<1> HIDE DEF s, D, turn
<1>6. o \ D = Pool(s, "ping") \/ o \ D = Pool(s, "ping") \cup Pool(s, "control")
  BY <1>4 DEF s, D
<1>7. (o \ Closing(c)) \ D = Pool(s, "ping")
  <2>1. \A x \in Pool(s, "ping") : x \notin Closing(c)
    BY <1>1, <1>2, <1>5
  <2>2. \A x \in Pool(s, "control") : x \in Closing(c)
    BY <1>2, <1>3, <1>5
  <2>. QED BY <1>6, <2>1, <2>2
<1>8. (o \ Closing(c)) \cap D = (o \cap D) \ {turn}
  <2>1. \A x \in D : x \in Closing(c) <=> x = turn
    BY <1>2, <1>5
  <2>. QED BY <2>1
<1>. QED BY <1>7, <1>8 DEF s, D, turn

LEMMA CloseLeaves ==
    ASSUME Inv, OtherTypes, Standing, Closed, NEW c \in Clients, Close(c) PROVE LeftOpen(c)'
<1> DEFINE s == setting[c]
           k == open[c] \ Closing(c)
<1>1. /\ phase[c] \in {"ready", "closed"} /\ Usable(c)
      /\ open' = [open EXCEPT ![c] = k] /\ closes' = [closes EXCEPT ![c] = @ + 1]
      /\ setting' = setting
  BY DEF Close, Usable, construction
<1>2. open'[c] = k /\ closes'[c] = closes[c] + 1 /\ setting'[c] = s /\ closes[c] \in Nat
  BY <1>1 DEF Inv, Types, OtherTypes, CallTypes
<1>3. s \in Settings /\ s.kind \in Kinds /\ Held(c) = Whole(s) /\ Channels(s) \in Nat \ {0}
  BY <1>1, ReadyHoldsWhole, SettingHas
<1>4. \/ open[c] = Whole(s) /\ closes[c] = 0
      \/ LeftOpen(c)
  BY <1>1, <1>3 DEF Standing, Stands, Closed
<1>5. ASSUME s.kind = "cache"
      PROVE  /\ k \ Pool(s, "data") = Pool(s, "ping")
             /\ Cardinality(k \cap Pool(s, "data")) < Channels(s)
             /\ Cardinality(k \cap Pool(s, "data")) + (closes[c] + 1) >= Channels(s)
  <2> DEFINE D == Pool(s, "data")
             turn == <<"data", Index(c)>>
  <2>1. open[c] = Whole(s) \/ open[c] \ D = Pool(s, "ping")
    BY <1>4, <1>5 DEF LeftOpen
  <2>2. k \ D = Pool(s, "ping") /\ k \cap D = (open[c] \cap D) \ {turn}
    BY <1>3, <1>5, <2>1, CacheCloses
  <2>3. turn \in D /\ IsFiniteSet(D) /\ Cardinality(D) = Channels(s)
    BY <1>3, <1>5, CloseTakesOneChannel, DataCount
  <2>4. \/ open[c] \cap D = D /\ closes[c] = 0
        \/ /\ Cardinality(open[c] \cap D) < Channels(s)
           /\ Cardinality(open[c] \cap D) + closes[c] >= Channels(s)
    <3>1. D \subseteq Whole(s)
      BY DEF Pool
    <3>. QED BY <1>4, <1>5, <3>1 DEF LeftOpen
  <2> DEFINE e == open[c] \cap D
  <2>5. IsFiniteSet(e)
    BY <2>3, FS_Subset
  <2>6. Cardinality(e \ {turn}) = IF turn \in e THEN Cardinality(e) - 1 ELSE Cardinality(e)
    BY <2>5, FS_RemoveElement
  <2>7. Cardinality(e) \in Nat /\ (e = D => Cardinality(e) = Channels(s) /\ turn \in e)
    BY <2>3, <2>5, FS_CardinalityType
  <2> HIDE DEF e, D, turn, k, s
  <2>8. Cardinality(e \ {turn}) < Channels(s) /\ Cardinality(e \ {turn}) + (closes[c] + 1) >= Channels(s)
    <3>1. \/ e = D /\ closes[c] = 0
          \/ Cardinality(e) < Channels(s) /\ Cardinality(e) + closes[c] >= Channels(s)
      BY <2>4 DEF e
    <3>2. Channels(s) \in Nat \ {0} /\ closes[c] \in Nat
      BY <1>2, <1>3
    <3>3. CASE turn \in e
      <4>1. Cardinality(e \ {turn}) = Cardinality(e) - 1
        BY <2>6, <3>3
      <4>. QED BY <2>7, <3>1, <3>2, <4>1
    <3>4. CASE turn \notin e
      <4>1. Cardinality(e \ {turn}) = Cardinality(e) /\ e # D
        BY <2>6, <2>7, <3>4
      <4>. QED BY <2>7, <3>1, <3>2, <4>1
    <3>. QED BY <3>3, <3>4
  <2>. QED BY <2>2, <2>8 DEF e, D
<1>6. ASSUME s.kind = "topic" PROVE k = Pool(s, "unary")
  <2>1. \A x : x \in Closing(c) <=> x \in AllConnections /\ x[1] = "stream"
    BY <1>6 DEF Closing
  <2>2. \A x \in Whole(s) : x \in AllConnections /\ x[1] \in {"stream", "unary"}
    BY <1>6 DEF Whole, Names
  <2>3. open[c] = Whole(s) \/ open[c] = Pool(s, "unary")
    BY <1>4, <1>6 DEF LeftOpen
  <2>. QED BY <2>1, <2>2, <2>3 DEF Pool
<1>7. ASSUME s.kind = "auth" PROVE k = Pool(s, "auth")
  <2>1. \A x : x \in Closing(c) <=> x \in AllConnections /\ x[1] = "token"
    BY <1>7 DEF Closing
  <2>2. \A x \in Whole(s) : x \in AllConnections /\ x[1] \in {"token", "auth"}
    BY <1>7 DEF Whole, Names
  <2>3. open[c] = Whole(s) \/ open[c] = Pool(s, "auth")
    BY <1>4, <1>7 DEF LeftOpen
  <2>. QED BY <2>1, <2>2, <2>3 DEF Pool
<1>8. ASSUME s.kind \in {"storage", "leaderboard"} PROVE k = {}
  <2>1. \A x \in Whole(s) : x \in Closing(c)
    BY <1>8 DEF Whole, Names, Closing
  <2>2. open[c] = Whole(s) \/ open[c] = {}
    BY <1>4, <1>8 DEF LeftOpen
  <2>. QED BY <2>1, <2>2
<1>9. closes[c] + 1 > 0
  BY <1>2
<1> HIDE DEF k
<1>10. /\ s.kind = "cache" =>
            /\ k \ Pool(s, "data") = Pool(s, "ping")
            /\ Cardinality(k \cap Pool(s, "data")) < Channels(s)
            /\ Cardinality(k \cap Pool(s, "data")) + (closes[c] + 1) >= Channels(s)
       /\ s.kind = "topic" => k = Pool(s, "unary")
       /\ s.kind = "auth" => k = Pool(s, "auth")
       /\ s.kind \in {"storage", "leaderboard"} => k = {}
  BY <1>5, <1>6, <1>7, <1>8
<1> HIDE DEF s
<1>11. closes'[c] > 0
  BY <1>2, <1>9
<1>12. /\ setting'[c].kind = "cache" =>
            /\ open'[c] \ Pool(setting'[c], "data") = Pool(setting'[c], "ping")
            /\ Cardinality(open'[c] \cap Pool(setting'[c], "data")) < Channels(setting'[c])
            /\ Cardinality(open'[c] \cap Pool(setting'[c], "data")) + closes'[c] >= Channels(setting'[c])
       /\ setting'[c].kind = "topic" => open'[c] = Pool(setting'[c], "unary")
       /\ setting'[c].kind = "auth" => open'[c] = Pool(setting'[c], "auth")
       /\ setting'[c].kind \in {"storage", "leaderboard"} => open'[c] = {}
  <2>1. open'[c] = k /\ closes'[c] = closes[c] + 1 /\ setting'[c] = s
    BY <1>2
  <2>. QED BY <1>10, <2>1, Zenon
<1>. QED BY <1>11, <1>12 DEF LeftOpen

\* A step of a constructor concerns its client only, which cannot be used yet.
LEMMA ConstructionFrame ==
    ASSUME Inv, NEW c \in Clients,
           \/ Construct(c) \/ Make(c) \/ CannotMake(c) \/ CheckConnection(c) \/ StateChanged(c)
           \/ WaitExpires(c) \/ Expire(c) \/ LinkChanges(c)
    PROVE  /\ ~Usable(c) /\ phase'[c] # "closed" /\ UNCHANGED using
           /\ \A d \in Clients \ {c} : setting'[d] = setting[d] /\ phase'[d] = phase[d] /\ open'[d] = open[d]
<1>1. ~Usable(c) /\ UNCHANGED using
  BY DEF Usable, Construct, Make, CannotMake, CheckConnection, StateChanged, WaitExpires, FailConnect,
         Expire, LinkChanges
<1>2. PICK s : setting' = setting \/ setting' = [setting EXCEPT ![c] = s]
  BY DEF Construct, Make, CannotMake, CheckConnection, StateChanged, WaitExpires, FailConnect,
         Expire, LinkChanges, construction
<1>3. PICK o : open' = open \/ open' = [open EXCEPT ![c] = o]
  BY DEF Construct, Make, CannotMake, CheckConnection, StateChanged, WaitExpires, FailConnect,
         Expire, LinkChanges
<1>4. phase' = phase \/ \E p : p # "closed" /\ phase' = [phase EXCEPT ![c] = p]
  BY DEF Construct, Make, CannotMake, CheckConnection, StateChanged, WaitExpires, FailConnect,
         Expire, LinkChanges, After
<1>5. phase'[c] # "closed" /\ \A d \in Clients \ {c} : phase'[d] = phase[d]
  BY <1>1, <1>4 DEF Inv, Types, Usable
<1>6. \A d \in Clients \ {c} : setting'[d] = setting[d] /\ open'[d] = open[d]
  BY <1>2, <1>3 DEF Inv, Types
<1>. QED BY <1>1, <1>5, <1>6

LEMMA NextClosed == Inv /\ OtherTypes /\ Standing /\ Closed /\ [Next]_vars => Closed'
<1> SUFFICES ASSUME Inv, OtherTypes, Standing, Closed, [Next]_vars, NEW d \in Clients, phase'[d] = "closed"
             PROVE  LeftOpen(d)'
  BY DEF Closed
<1>1. ASSUME phase[d] = "closed", setting'[d] = setting[d], open'[d] = open[d], closes'[d] = closes[d]
      PROVE  LeftOpen(d)'
  <2>1. LeftOpen(d)
    BY <1>1 DEF Closed
  <2>. QED BY <1>1, <2>1 DEF LeftOpen, Pool, Whole, Names, Size, Channels
<1>2. ASSUME NEW c \in Clients, Close(c) PROVE LeftOpen(d)'
  <2>1. CASE d = c
    BY <1>2, <2>1, CloseLeaves
  <2>2. CASE d # c
    <3>1. /\ phase' = [phase EXCEPT ![c] = "closed"] /\ setting' = setting
          /\ \E k : open' = [open EXCEPT ![c] = k] /\ \E n : closes' = [closes EXCEPT ![c] = n]
      BY <1>2 DEF Close, construction
    <3>2. phase'[d] = phase[d] /\ setting'[d] = setting[d] /\ open'[d] = open[d] /\ closes'[d] = closes[d]
      BY <2>2, <3>1 DEF Inv, Types, OtherTypes, CallTypes
    <3>. QED BY <1>1, <3>2
  <2>. QED BY <2>1, <2>2
<1>3. ASSUME NEW c \in Clients,
             \/ Construct(c) \/ Make(c) \/ CannotMake(c) \/ CheckConnection(c) \/ StateChanged(c)
             \/ WaitExpires(c) \/ Expire(c) \/ LinkChanges(c)
      PROVE  LeftOpen(d)'
  <2>1. d # c
    BY <1>3, ConstructionFrame
  <2>2. setting'[d] = setting[d] /\ phase'[d] = phase[d] /\ open'[d] = open[d] /\ closes'[d] = closes[d]
    BY <1>3, <2>1, ConstructionFrame DEF using
  <2>. QED BY <1>1, <2>2
<1>4. ASSUME UNCHANGED <<setting, phase, open, closes>> PROVE LeftOpen(d)'
  BY <1>1, <1>4
<1>5. CASE UNCHANGED vars \/ Terminating
  BY <1>4, <1>5 DEF vars, Terminating
<1>6. ASSUME NEW g \in Callers, (\E c \in Clients : Call(g, c)) \/ Served(g) \/ Canceled(g)
      PROVE  LeftOpen(d)'
  BY <1>4, <1>6 DEF Call, Served, Canceled, Ends, construction
<1>. QED BY <1>2, <1>3, <1>5, <1>6 DEF Next

LEMMA InitClosed == Init => Closed
BY DEF Init, Closed

\* The account, from what stands and what was left open.
LEMMA AccountHolds == Inv /\ Standing /\ Closed => LeaksAreAccounted
<1> SUFFICES ASSUME Inv, Standing, Closed, NEW c \in Clients
             PROVE  LET plan == Plan(setting[c])
                        all == {plan[i] : i \in 1..made[c]}
                        of(pool) == {x \in all : x[1] = pool}
                        data == Cardinality(open[c] \cap of("data"))
                    IN /\ phase[c] \in {"making", "ready", "connecting", "waiting"} => open[c] = all
                       /\ phase[c] = "failed" => open[c] = {x \in all : Eager(c, x) => x \in reached[c]}
                       /\ phase[c] = "closed" =>
                            CASE setting[c].kind = "cache" ->
                                    /\ open[c] \ of("data") = of("ping")
                                    /\ data <= Channels(setting[c]) - 1 /\ data + closes[c] >= Channels(setting[c])
                              [] setting[c].kind = "topic" -> open[c] = of("unary")
                              [] setting[c].kind = "auth" -> open[c] = of("auth")
                              [] OTHER -> open[c] = {}
  BY DEF LeaksAreAccounted
<1> DEFINE all == {Plan(setting[c])[i] : i \in 1..made[c]}
           of(pool) == {x \in all : x[1] = pool}
<1>1. all = Held(c)
  BY DEF Held
<1>2. /\ phase[c] \in {"making", "ready", "connecting", "waiting"} => open[c] = all
      /\ phase[c] = "failed" => open[c] = {x \in all : Eager(c, x) => x \in reached[c]}
  BY <1>1 DEF Standing, Stands
<1>3. ASSUME phase[c] = "closed"
      PROVE  /\ setting[c].kind = "cache" =>
                  /\ open[c] \ of("data") = of("ping")
                  /\ Cardinality(open[c] \cap of("data")) <= Channels(setting[c]) - 1
                  /\ Cardinality(open[c] \cap of("data")) + closes[c] >= Channels(setting[c])
             /\ setting[c].kind = "topic" => open[c] = of("unary")
             /\ setting[c].kind = "auth" => open[c] = of("auth")
             /\ setting[c].kind \in {"storage", "leaderboard"} => open[c] = {}
             /\ setting[c].kind \in Kinds
  <2>1. setting[c] \in Settings /\ all = Whole(setting[c]) /\ setting[c].kind \in Kinds
        /\ Channels(setting[c]) \in Nat
    BY <1>1, <1>3, ReadyHoldsWhole, SettingHas DEF Usable
  <2>2. \A p : of(p) = Pool(setting[c], p)
    BY <2>1 DEF Pool
  <2>3. LeftOpen(c)
    BY <1>3 DEF Closed
  <2> HIDE DEF of
  <2>4. setting[c].kind = "cache" =>
                  /\ open[c] \ of("data") = of("ping")
                  /\ Cardinality(open[c] \cap of("data")) < Channels(setting[c])
                  /\ Cardinality(open[c] \cap of("data")) + closes[c] >= Channels(setting[c])
    BY <2>2, <2>3, Zenon DEF LeftOpen
  <2>5. setting[c].kind = "cache" =>
                  Cardinality(open[c] \cap of("data")) <= Channels(setting[c]) - 1
    <3>1. SUFFICES ASSUME setting[c].kind = "cache"
                   PROVE  Cardinality(open[c] \cap of("data")) <= Channels(setting[c]) - 1
      OBVIOUS
    <3>2. IsFiniteSet(of("data"))
      BY <2>1, <2>2, <3>1, DataCount
    <3>3. Cardinality(open[c] \cap of("data")) \in Nat
      <4>1. IsFiniteSet(open[c] \cap of("data"))
        BY <3>2, FS_Subset
      <4>. QED BY <4>1, FS_CardinalityType
    <3>. QED BY <2>1, <2>4, <3>1, <3>3
  <2>. QED BY <2>1, <2>2, <2>3, <2>4, <2>5 DEF LeftOpen
<1> HIDE DEF of, all
<1>. QED BY <1>2, <1>3 DEF Kinds, of, all

\* The exact account of what every client leaves open: nothing but what the
\* constructor that gave up had made, or what Close does not name
\* (cache_client.go:218-271 and :945-948, storage_client.go:213-218,
\* topic_client.go:177-179, auth_client.go:105-107).
THEOREM LeaksAccounted == Spec => []LeaksAreAccounted
BY InitInv, InitTypes, InitStanding, InitClosed, NextInv, NextTypes, NextStanding, NextClosed, AccountHolds,
   PTL DEF Spec

-----------------------------------------------------------------------------
(* Calls.                                                                  *)

\* What a closed client of a kind still serves.
Survivors(s) ==
    CASE s.kind = "cache" -> {"ping", "data"}
      [] s.kind = "topic" -> {"unary"}
      [] s.kind = "auth" -> {"auth"}
      [] OTHER -> {}

\* A call has a connection of its client, and knows whether the client was closed.
Keeps(g) ==
    call[g] \in Flights =>
        LET c == call[g].client
            pool == call[g].on[1]
        IN /\ Usable(c) /\ call[g].on \in Whole(setting[c]) /\ pool # "stream"
           /\ call[g].late => phase[c] = "closed"
           /\ call[g].what = "canceled" => phase[c] = "closed" /\ pool \notin Survivors(setting[c]) \ {"data"}
           /\ call[g].what = "served" /\ call[g].late => pool \in Survivors(setting[c])

Called == \A g \in Callers : Keeps(g)

\* Nothing a client does later changes what a call kept.
LEMMA KeepsAsBefore ==
    ASSUME NEW g \in Callers, Keeps(g), CallTypes, call'[g] = call[g],
           \A c \in Clients : Usable(c) =>
               /\ setting'[c] = setting[c] /\ phase'[c] \in {"ready", "closed"}
               /\ phase[c] = "closed" => phase'[c] = "closed"
    PROVE  Keeps(g)'
<1> SUFFICES ASSUME call[g] \in Flights PROVE Keeps(g)'
  BY DEF Keeps
<1>1. call[g].client \in Clients
  BY DEF Flights
<1>. QED BY <1>1 DEF Keeps, Usable, Survivors

\* What is open of a client that is closed is what a closed client serves.
LEMMA ServedLate ==
    ASSUME Inv, OtherTypes, Standing, Closed, NEW c \in Clients, phase[c] = "closed",
           NEW x \in open[c] \cap Whole(setting[c])
    PROVE  x[1] \in Survivors(setting[c])
<1>1. LeftOpen(c) /\ setting[c].kind \in Kinds
  <2>1. setting[c] \in Settings
    BY DEF Inv, WithinPlan
  <2>. QED BY <2>1, SettingHas DEF Closed
<1>2. CASE setting[c].kind = "cache"
  <2>1. x \in Pool(setting[c], "data") \/ x \in Pool(setting[c], "ping")
    BY <1>1, <1>2 DEF LeftOpen
  <2>. QED BY <1>2, <2>1 DEF Pool, Survivors
<1>3. CASE setting[c].kind = "topic"
  BY <1>1, <1>3 DEF LeftOpen, Pool, Survivors
<1>4. CASE setting[c].kind = "auth"
  BY <1>1, <1>4 DEF LeftOpen, Pool, Survivors
<1>5. CASE setting[c].kind \in {"storage", "leaderboard"}
  BY <1>1, <1>5 DEF LeftOpen
<1>. QED BY <1>1, <1>2, <1>3, <1>4, <1>5 DEF Kinds

\* What is not open of a client that can be used was closed.
LEMMA CanceledByClose ==
    ASSUME Inv, OtherTypes, Standing, Closed, NEW c \in Clients, Usable(c),
           NEW x \in Whole(setting[c]), x \notin open[c]
    PROVE  phase[c] = "closed" /\ x[1] \notin Survivors(setting[c]) \ {"data"}
<1>1. Held(c) = Whole(setting[c]) /\ setting[c] \in Settings /\ setting[c].kind \in Kinds
  BY ReadyHoldsWhole, SettingHas
<1>2. phase[c] = "closed"
  BY <1>1 DEF Standing, Stands, Usable
<1>3. LeftOpen(c)
  BY <1>2 DEF Closed
<1>4. CASE setting[c].kind = "cache"
  <2>1. x \notin Pool(setting[c], "ping")
    BY <1>3, <1>4 DEF LeftOpen
  <2>. QED BY <1>2, <1>4, <2>1 DEF Pool, Survivors
<1>5. CASE setting[c].kind = "topic"
  BY <1>2, <1>3, <1>5 DEF LeftOpen, Pool, Survivors
<1>6. CASE setting[c].kind = "auth"
  BY <1>2, <1>3, <1>6 DEF LeftOpen, Pool, Survivors
<1>7. CASE setting[c].kind \in {"storage", "leaderboard"}
  BY <1>2, <1>7 DEF Survivors
<1>. QED BY <1>1, <1>4, <1>5, <1>6, <1>7 DEF Kinds

LEMMA NextCalled == Inv /\ OtherTypes /\ Standing /\ Closed /\ Called /\ [Next]_vars => Called'
<1> SUFFICES ASSUME Inv, OtherTypes, Standing, Closed, Called, [Next]_vars, NEW h \in Callers PROVE Keeps(h)'
  BY DEF Called
<1>1. Keeps(h) /\ CallTypes
  BY DEF Called, OtherTypes
<1>2. ASSUME UNCHANGED <<setting, phase>>, call'[h] = call[h] PROVE Keeps(h)'
  BY <1>1, <1>2, KeepsAsBefore DEF Usable
<1>3. CASE UNCHANGED vars \/ Terminating
  BY <1>2, <1>3 DEF vars, Terminating
<1>4. ASSUME NEW c \in Clients,
             \/ Construct(c) \/ Make(c) \/ CannotMake(c) \/ CheckConnection(c) \/ StateChanged(c)
             \/ WaitExpires(c) \/ Expire(c) \/ LinkChanges(c)
      PROVE  Keeps(h)'
  <2>1. \A d \in Clients : Usable(d) => setting'[d] = setting[d] /\ phase'[d] = phase[d]
    BY <1>4, ConstructionFrame
  <2>2. call' = call
    BY <1>4, ConstructionFrame DEF using
  <2>. QED BY <1>1, <2>1, <2>2, KeepsAsBefore DEF Usable
<1>5. ASSUME NEW c \in Clients, Close(c) PROVE Keeps(h)'
  <2>1. phase' = [phase EXCEPT ![c] = "closed"] /\ UNCHANGED <<setting, call>>
    BY <1>5 DEF Close, construction
  <2>2. \A d \in Clients : phase'[d] = IF d = c THEN "closed" ELSE phase[d]
    BY <2>1 DEF Inv, Types
  <2>. QED BY <1>1, <2>1, <2>2, KeepsAsBefore DEF Usable
<1>6. ASSUME NEW c \in Clients, NEW g \in Callers, Call(g, c) PROVE Keeps(h)'
  <2>1. UNCHANGED <<setting, phase>> /\ Usable(c)
    BY <1>6 DEF Call, construction
  <2>2. CASE h = g
    <3>1. /\ call'[g].what = "flying" /\ call'[g].client = c /\ (call'[g].late <=> phase[c] = "closed")
          /\ call'[g].on \in Whole(setting[c]) /\ call'[g].on[1] # "stream"
      BY <1>6, CallTakes
    <3>. QED BY <2>1, <2>2, <3>1 DEF Keeps, Usable
  <2>3. CASE h # g
    <3>1. call'[h] = call[h]
      BY <1>6, <2>3, CallTakes
    <3>. QED BY <1>2, <2>1, <3>1
  <2>. QED BY <2>2, <2>3
<1>7. ASSUME NEW g \in Callers, NEW w \in {"served", "canceled"}, Ends(g, w),
             w = "served" <=> call[g].on \in open[call[g].client]
      PROVE  Keeps(h)'
  <2>1. UNCHANGED <<setting, phase>>
    BY <1>7 DEF Ends, construction
  <2>2. CASE h # g
    <3>1. call'[h] = call[h]
      BY <1>1, <1>7, <2>2, CallEnds
    <3>. QED BY <1>2, <2>1, <3>1
  <2>3. CASE h = g
    <3> DEFINE c == call[g].client
               x == call[g].on
    <3>1. /\ call[g] \in Flights /\ call'[g] \in Flights /\ call'[g].what = w /\ call'[g].client = c
          /\ (call'[g].late <=> call[g].late) /\ call'[g].on = x
      BY <1>1, <1>7, CallEnds
    <3>2. c \in Clients
      BY <3>1 DEF Flights
    <3>3. /\ Usable(c) /\ x \in Whole(setting[c]) /\ x[1] # "stream"
          /\ call[g].late => phase[c] = "closed"
      BY <1>1, <2>3, <3>1 DEF Keeps
    <3>4. w = "canceled" => phase[c] = "closed" /\ x[1] \notin Survivors(setting[c]) \ {"data"}
      BY <1>7, <3>2, <3>3, CanceledByClose
    <3>5. w = "served" /\ call[g].late => x[1] \in Survivors(setting[c])
      BY <1>7, <3>2, <3>3, ServedLate
    <3> HIDE DEF c, x
    <3>. QED BY <2>1, <2>3, <3>1, <3>3, <3>4, <3>5 DEF Keeps, Usable, Survivors
  <2>. QED BY <2>2, <2>3
<1>8. ASSUME NEW g \in Callers, Served(g) \/ Canceled(g) PROVE Keeps(h)'
  <2>1. CASE Served(g)
    BY <1>7, <2>1 DEF Served
  <2>2. CASE Canceled(g)
    BY <1>7, <2>2 DEF Canceled
  <2>. QED BY <1>8, <2>1, <2>2
<1>. QED BY <1>3, <1>4, <1>5, <1>6, <1>8 DEF Next

LEMMA InitCalled == Init => Called
BY DEF Init, Called, Keeps, Flights, NoCall

LEMMA CallsKeep == Inv /\ OtherTypes /\ Standing /\ Closed /\ Called => CallsAfterClose
<1> SUFFICES ASSUME Inv, OtherTypes, Standing, Closed, Called, NEW g \in Callers,
                    call[g].what \in {"served", "canceled"}
             PROVE  LET c == call[g].client
                        survivors == CASE setting[c].kind = "cache" -> {"ping", "data"}
                                       [] setting[c].kind = "topic" -> {"unary"}
                                       [] setting[c].kind = "auth" -> {"auth"}
                                       [] OTHER -> {}
                    IN /\ call[g].what = "canceled" => closes[c] > 0 /\ call[g].on[1] \notin survivors \ {"data"}
                       /\ call[g].what = "served" /\ call[g].late => call[g].on[1] \in survivors
  BY DEF CallsAfterClose
<1>1. call[g] \in Flights /\ call[g].client \in Clients
  <2>1. call[g] \in Flights
    BY DEF OtherTypes, CallTypes, NoCall
  <2>. QED BY <2>1 DEF Flights
<1>2. Keeps(g)
  BY DEF Called
<1>3. phase[call[g].client] = "closed" => closes[call[g].client] > 0
  BY <1>1 DEF Closed, LeftOpen
<1>. QED BY <1>1, <1>2, <1>3 DEF Keeps, Survivors

\* A call is cut off only by the Close of its own client, and what a closed
\* client still serves is what its Close leaves open.
THEOREM CallsWhenClosed == Spec => []CallsAfterClose
BY InitInv, InitTypes, InitStanding, InitClosed, InitCalled, NextInv, NextTypes, NextStanding, NextClosed,
   NextCalled, CallsKeep, PTL DEF Spec

-----------------------------------------------------------------------------
(* The shares of the channels.                                             *)

\* How often t tickets fall on channel i of n.
Turns(n, t, i) == (t \div n) + (IF i > 0 /\ i <= t % n THEN 1 ELSE 0)

LEMMA TurnsBounds ==
    ASSUME NEW n \in Nat \ {0}, NEW t \in Nat, NEW i \in 0..(n - 1)
    PROVE  /\ Turns(n, t, i) \in Nat /\ Turns(n, t, i) <= t
           /\ \A j \in 0..(n - 1) : Turns(n, t, i) <= Turns(n, t, j) + 1
<1>1. t \div n \in Nat /\ t % n \in 0..(n - 1)
  OBVIOUS
<1>2. (t \div n) + (t % n) <= t
  OBVIOUS
<1>. QED BY <1>1, <1>2 DEF Turns

\* One more ticket falls on one channel.
LEMMA TurnsStep ==
    ASSUME NEW n \in Nat \ {0}, NEW t \in Nat, NEW i \in 0..(n - 1)
    PROVE  Turns(n, t + 1, i) = Turns(n, t, i) + (IF i = (t + 1) % n THEN 1 ELSE 0)
<1>1. t \div n \in Nat /\ t % n \in 0..(n - 1)
  OBVIOUS
<1>2. \/ t % n = n - 1 /\ (t + 1) % n = 0 /\ (t + 1) \div n = (t \div n) + 1
      \/ t % n < n - 1 /\ (t + 1) % n = (t % n) + 1 /\ (t + 1) \div n = t \div n
  OBVIOUS
<1>. QED BY <1>1, <1>2 DEF Turns

\* A channel was picked at most as often as its turn came, and as often but for
\* the tickets that other clients drew.
Shares(c) ==
    LET n == Channels(setting[c])
        t == tickets[Counter(c)]
    IN /\ drawn[c] <= t
       /\ setting[c].kind = "topic" => drawn[c] = t
       /\ \A i \in 0..(n - 1) :
            picks[c][i] <= Turns(n, t, i) /\ Turns(n, t, i) <= picks[c][i] + (t - drawn[c])

Sharing == \A c \in Clients :
    /\ phase[c] = "new" => /\ drawn[c] = 0 /\ tickets[c] = 0
                           /\ \A i \in 0..(MaxChannels - 1) : picks[c][i] = 0
    /\ phase[c] # "new" /\ Spreads(c) => Shares(c)

LEMMA InitSharing == Init => Sharing
<1> SUFFICES ASSUME Init, NEW c \in Clients PROVE phase[c] = "new" /\ drawn[c] = 0 /\ tickets[c] = 0
                 /\ \A i \in 0..(MaxChannels - 1) : picks[c][i] = 0
  BY DEF Sharing
<1>. QED BY DEF Init

\* A client begins with an even share of the tickets that others drew.
LEMMA BeginsShare ==
    ASSUME OtherTypes, Sharing, NEW c \in Clients, phase[c] = "new", UNCHANGED counting,
           setting'[c] \in Settings, Spreads(c)'
    PROVE  Shares(c)'
<1> DEFINE n == Channels(setting'[c])
           t == tickets[Counter(c)']
<1>1. drawn'[c] = 0 /\ tickets'[c] = 0 /\ \A i \in 0..(MaxChannels - 1) : picks'[c][i] = 0
  BY DEF Sharing, counting
<1>2. n \in Nat \ {0} /\ n <= MaxChannels /\ MaxChannels \in Nat
  BY SettingHas
<1>3. Counter(c)' \in Clients \cup {"cache", "storage"} /\ (setting'[c].kind = "topic" => Counter(c)' = c)
  BY DEF Counter, Spreads
<1>4. t \in Nat /\ tickets'[Counter(c)'] = t /\ (setting'[c].kind = "topic" => t = 0)
  BY <1>1, <1>3 DEF OtherTypes, CountingTypes, counting
<1> HIDE DEF n, t
<1>5. \A i \in 0..(n - 1) : i \in 0..(MaxChannels - 1)
  BY <1>2
<1>6. \A i \in 0..(n - 1) : Turns(n, t, i) \in Nat /\ Turns(n, t, i) <= t
  BY <1>2, <1>4, TurnsBounds
<1>7. \A i \in 0..(n - 1) : picks'[c][i] <= Turns(n, t, i) /\ Turns(n, t, i) <= picks'[c][i] + (t - drawn'[c])
  <2>1. \A i \in 0..(n - 1) : picks'[c][i] = 0
    BY <1>1, <1>5
  <2>. QED BY <1>1, <1>4, <1>6, <2>1
<1>8. drawn'[c] <= t /\ (setting'[c].kind = "topic" => drawn'[c] = t)
  BY <1>1, <1>4
<1>. QED BY <1>4, <1>7, <1>8 DEF Shares, n

LEMMA SharesAsBefore ==
    ASSUME NEW d \in Clients, Shares(d), setting'[d] = setting[d], drawn'[d] = drawn[d], picks'[d] = picks[d],
           tickets'[Counter(d)] = tickets[Counter(d)]
    PROVE  Shares(d)'
<1>1. Counter(d)' = Counter(d)
  BY DEF Counter
<1>. QED BY <1>1 DEF Shares

\* Another client draws from the counter.
LEMMA OthersTicket ==
    ASSUME OtherTypes, NEW d \in Clients, Shares(d), Spreads(d), setting[d] \in Settings, setting'[d] = setting[d],
           drawn'[d] = drawn[d], picks'[d] = picks[d], setting[d].kind # "topic",
           tickets'[Counter(d)] = tickets[Counter(d)] + 1
    PROVE  Shares(d)'
<1> DEFINE n == Channels(setting[d])
           t == tickets[Counter(d)]
<1>1. Counter(d)' = Counter(d) /\ t \in Nat /\ drawn[d] \in Nat /\ n \in Nat \ {0} /\ n <= MaxChannels
      /\ MaxChannels \in Nat
  <2>1. Counter(d)' = Counter(d)
    BY DEF Counter
  <2>2. t \in Nat
    BY CounterOf DEF OtherTypes
  <2>3. n \in Nat \ {0} /\ n <= MaxChannels /\ MaxChannels \in Nat
    BY SettingHas
  <2>4. drawn[d] \in Nat
    BY DEF OtherTypes, CountingTypes
  <2>. QED BY <2>1, <2>2, <2>3, <2>4
<1>2. /\ drawn[d] <= t
      /\ \A i \in 0..(n - 1) :
            picks[d][i] <= Turns(n, t, i) /\ Turns(n, t, i) <= picks[d][i] + (t - drawn[d])
  BY DEF Shares
<1>3. \A i \in 0..(n - 1) : picks[d][i] \in Nat
  BY <1>1 DEF OtherTypes, CountingTypes
<1> HIDE DEF n, t
<1>4. \A i \in 0..(n - 1) : /\ Turns(n, t, i) \in Nat /\ Turns(n, t + 1, i) \in Nat
                            /\ Turns(n, t, i) <= Turns(n, t + 1, i) /\ Turns(n, t + 1, i) <= Turns(n, t, i) + 1
  <2>1. \A i \in 0..(n - 1) : Turns(n, t, i) \in Nat /\ Turns(n, t + 1, i) \in Nat
    <3>1. t + 1 \in Nat
      BY <1>1
    <3>. QED BY <1>1, <3>1, TurnsBounds
  <2>2. \A i \in 0..(n - 1) : Turns(n, t + 1, i) = Turns(n, t, i) + (IF i = (t + 1) % n THEN 1 ELSE 0)
    BY <1>1, TurnsStep
  <2>3. \A i \in 0..(n - 1) : Turns(n, t + 1, i) \in {Turns(n, t, i), Turns(n, t, i) + 1}
    BY <2>1, <2>2
  <2>. QED BY <2>1, <2>3
<1>5. \A i \in 0..(n - 1) : picks[d][i] <= Turns(n, t + 1, i)
                            /\ Turns(n, t + 1, i) <= picks[d][i] + ((t + 1) - drawn[d])
  BY <1>1, <1>2, <1>3, <1>4
<1>6. tickets'[Counter(d)'] = t + 1 /\ Channels(setting'[d]) = n
  BY <1>1 DEF n, t
<1>7. drawn'[d] = drawn[d] /\ picks'[d] = picks[d] /\ setting'[d].kind # "topic"
  OBVIOUS
<1>8. /\ drawn'[d] <= t + 1
      /\ \A i \in 0..(n - 1) : picks'[d][i] <= Turns(n, t + 1, i)
                               /\ Turns(n, t + 1, i) <= picks'[d][i] + ((t + 1) - drawn'[d])
  <2>1. drawn[d] <= t + 1
    BY <1>1, <1>2
  <2>. QED BY <1>5, <1>7, <2>1, Zenon
<1>. QED BY <1>6, <1>7, <1>8 DEF Shares

\* A client draws a ticket, and takes the channel it falls on.
LEMMA OwnTicket ==
    ASSUME OtherTypes, NEW c \in Clients, Shares(c), Spreads(c), setting[c] \in Settings, setting'[c] = setting[c],
           Pick(c)
    PROVE  Shares(c)'
<1> DEFINE n == Channels(setting[c])
           t == tickets[Counter(c)]
           k == Index(c)
<1>1. Counter(c)' = Counter(c) /\ t \in Nat /\ drawn[c] \in Nat /\ n \in Nat \ {0} /\ n <= MaxChannels
      /\ MaxChannels \in Nat
  <2>1. Counter(c)' = Counter(c)
    BY DEF Counter
  <2>2. t \in Nat
    BY CounterOf DEF OtherTypes
  <2>3. n \in Nat \ {0} /\ n <= MaxChannels /\ MaxChannels \in Nat
    BY SettingHas
  <2>4. drawn[c] \in Nat
    BY DEF OtherTypes, CountingTypes
  <2>. QED BY <2>1, <2>2, <2>3, <2>4
<1>2. /\ drawn[c] <= t /\ (setting[c].kind = "topic" => drawn[c] = t)
      /\ \A i \in 0..(n - 1) :
            picks[c][i] <= Turns(n, t, i) /\ Turns(n, t, i) <= picks[c][i] + (t - drawn[c])
  BY DEF Shares
<1>3. \A i \in 0..(n - 1) : picks[c][i] \in Nat /\ i \in 0..(MaxChannels - 1)
  BY <1>1 DEF OtherTypes, CountingTypes
<1>4. /\ tickets'[Counter(c)] = t + 1 /\ drawn'[c] = drawn[c] + 1 /\ picks'[c][k] = picks[c][k] + 1
      /\ \A i \in 0..(MaxChannels - 1) : i # k => picks'[c][i] = picks[c][i]
  BY PickDoes DEF OtherTypes
<1>5. k = (t + 1) % n
  BY DEF Index
<1> HIDE DEF n, t, k
<1>6. \A i \in 0..(n - 1) : /\ Turns(n, t, i) \in Nat
                            /\ Turns(n, t + 1, i) = Turns(n, t, i) + (IF i = k THEN 1 ELSE 0)
  BY <1>1, <1>5, TurnsBounds, TurnsStep
<1>7. \A i \in 0..(n - 1) : picks'[c][i] = picks[c][i] + (IF i = k THEN 1 ELSE 0)
  BY <1>3, <1>4
<1>8. \A i \in 0..(n - 1) : picks'[c][i] <= Turns(n, t + 1, i)
                            /\ Turns(n, t + 1, i) <= picks'[c][i] + ((t + 1) - drawn'[c])
  BY <1>1, <1>2, <1>3, <1>4, <1>6, <1>7
<1>9. drawn'[c] <= t + 1 /\ (setting[c].kind = "topic" => drawn'[c] = t + 1)
  BY <1>1, <1>2, <1>4
<1>10. tickets'[Counter(c)'] = t + 1 /\ Channels(setting'[c]) = n
  BY <1>1, <1>4 DEF n
<1>. QED BY <1>8, <1>9, <1>10 DEF Shares

\* A step of a client that can be used: it picks, or the counters stand still.
LEMMA UseShares ==
    ASSUME Inv, OtherTypes, Sharing, NEW c \in Clients, Usable(c), setting' = setting,
           UNCHANGED counting \/ (Spreads(c) /\ Pick(c)),
           \A d \in Clients : phase'[d] = "new" <=> phase[d] = "new"
    PROVE  Sharing'
<1>1. CASE UNCHANGED counting
  <2>1. \A d \in Clients : Shares(d) => Shares(d)'
    BY <1>1, SharesAsBefore DEF counting
  <2>. QED BY <1>1, <2>1 DEF Sharing, counting, Spreads
<1>2. CASE Spreads(c) /\ Pick(c)
  <2>1. phase[c] # "new" /\ \A d \in Clients : phase[d] # "new" => setting[d] \in Settings
    BY DEF Usable, Inv, WithinPlan
  <2>2. /\ \A k \in (Clients \cup {"cache", "storage"}) \ {Counter(c)} : tickets'[k] = tickets[k]
        /\ tickets'[Counter(c)] = tickets[Counter(c)] + 1
        /\ \A d \in Clients \ {c} : drawn'[d] = drawn[d] /\ picks'[d] = picks[d]
    BY <1>2, <2>1, PickDoes DEF OtherTypes
  <2>3. \A d \in Clients : d = Counter(c) => d = c
    BY <1>2, ConnectionsAssumption DEF Counter, Spreads
  <2>4. ASSUME NEW d \in Clients, phase[d] = "new"
        PROVE  drawn'[d] = 0 /\ tickets'[d] = 0 /\ \A i \in 0..(MaxChannels - 1) : picks'[d][i] = 0
    <3>1. d # c /\ d # Counter(c)
      BY <2>1, <2>3, <2>4
    <3>. QED BY <2>2, <2>4, <3>1 DEF Sharing
  <2>5. ASSUME NEW d \in Clients, phase[d] # "new", Spreads(d) PROVE Shares(d)'
    <3>1. Shares(d) /\ setting[d] \in Settings
      BY <2>1, <2>5 DEF Sharing
    <3>2. CASE d = c
      BY <1>2, <3>1, <3>2, OwnTicket
    <3>3. CASE d # c /\ Counter(d) = Counter(c)
      <4>1. setting[d].kind # "topic"
        BY <1>2, <2>3, <2>5, <3>3 DEF Counter
      <4>. QED BY <2>2, <2>5, <3>1, <3>3, <4>1, OthersTicket
    <3>4. CASE d # c /\ Counter(d) # Counter(c)
      <4>1. Counter(d) \in Clients \cup {"cache", "storage"}
        BY <2>5 DEF Counter, Spreads
      <4>. QED BY <2>2, <3>1, <3>4, <4>1, SharesAsBefore
    <3>. QED BY <3>2, <3>3, <3>4
  <2>. QED BY <2>4, <2>5 DEF Sharing, Spreads
<1>. QED BY <1>1, <1>2

LEMMA NextSharing == Inv /\ OtherTypes /\ Sharing /\ [Next]_vars => Sharing'
<1> SUFFICES ASSUME Inv, OtherTypes, Sharing, [Next]_vars PROVE Sharing'
  OBVIOUS
<1>1. ASSUME UNCHANGED <<setting, phase, counting>> PROVE Sharing'
  <2>1. \A d \in Clients : Shares(d) => Shares(d)'
    BY <1>1, SharesAsBefore DEF counting
  <2>. QED BY <1>1, <2>1 DEF Sharing, counting, Spreads
<1>2. CASE UNCHANGED vars \/ Terminating
  BY <1>1, <1>2 DEF vars, Terminating, counting
<1>3. ASSUME NEW c \in Clients, Construct(c) PROVE Sharing'
  <2>1. /\ phase[c] = "new" /\ UNCHANGED counting /\ setting'[c] \in Settings /\ phase'[c] # "new"
        /\ \A d \in Clients \ {c} : setting'[d] = setting[d] /\ phase'[d] = phase[d]
    BY <1>3 DEF Construct, using, Inv, Types
  <2>2. Spreads(c)' => Shares(c)'
    BY <2>1, BeginsShare
  <2>3. \A d \in Clients \ {c} : Shares(d) => Shares(d)'
    BY <2>1, SharesAsBefore DEF counting
  <2>. QED BY <2>1, <2>2, <2>3 DEF Sharing, counting, Spreads
<1>4. ASSUME NEW c \in Clients,
             \/ Make(c) \/ CannotMake(c) \/ CheckConnection(c) \/ StateChanged(c)
             \/ WaitExpires(c) \/ Expire(c) \/ LinkChanges(c)
      PROVE  Sharing'
  <2>1. setting' = setting /\ UNCHANGED counting
    BY <1>4 DEF Make, CannotMake, CheckConnection, StateChanged, WaitExpires, FailConnect,
                Expire, LinkChanges, construction, using
  <2>2. phase[c] # "new" /\ phase'[c] # "new" /\ \A d \in Clients \ {c} : phase'[d] = phase[d]
    <3>1. phase[c] # "new" /\ (phase' = phase \/ \E p : p # "new" /\ phase' = [phase EXCEPT ![c] = p])
      BY <1>4 DEF Make, CannotMake, CheckConnection, StateChanged, WaitExpires, FailConnect,
                  Expire, LinkChanges, After
    <3>. QED BY <3>1 DEF Inv, Types
  <2>3. \A d \in Clients : Shares(d) => Shares(d)'
    BY <2>1, SharesAsBefore DEF counting
  <2>. QED BY <2>1, <2>2, <2>3 DEF Sharing, counting, Spreads
<1>5. ASSUME NEW c \in Clients, Close(c) \/ \E g \in Callers : Call(g, c) PROVE Sharing'
  <2>1. Usable(c) /\ setting' = setting /\ (phase' = phase \/ phase' = [phase EXCEPT ![c] = "closed"])
    BY <1>5 DEF Close, Call, construction
  <2>2. \A d \in Clients : phase'[d] = "new" <=> phase[d] = "new"
    BY <2>1 DEF Inv, Types, Usable
  <2>. QED BY <1>5, <2>1, <2>2, WhoPicks, UseShares
<1>6. ASSUME NEW g \in Callers, Served(g) \/ Canceled(g) PROVE Sharing'
  BY <1>1, <1>6 DEF Served, Canceled, Ends, construction
<1>. QED BY <1>2, <1>3, <1>4, <1>5, <1>6 DEF Next

LEMMA SharesAreEven == Inv /\ OtherTypes /\ Sharing => SpreadUpToOthers
<1> SUFFICES ASSUME Inv, OtherTypes, Sharing, NEW c \in Clients, Usable(c),
                    setting[c].kind \in {"cache", "storage", "topic"}
             PROVE  LET channels == 0..(Channels(setting[c]) - 1)
                        others == tickets[Counter(c)] - drawn[c]
                    IN /\ others >= 0
                       /\ setting[c].kind = "topic" => others = 0
                       /\ \A i, j \in channels : picks[c][i] <= picks[c][j] + others + 1
  BY DEF SpreadUpToOthers
<1> DEFINE n == Channels(setting[c])
           t == tickets[Counter(c)]
<1>1. Shares(c) /\ setting[c] \in Settings /\ Spreads(c)
  BY DEF Sharing, Usable, Spreads, Inv, WithinPlan
<1>2. t \in Nat /\ drawn[c] \in Nat /\ n \in Nat \ {0} /\ n <= MaxChannels /\ MaxChannels \in Nat
  BY <1>1, CounterOf, SettingHas DEF OtherTypes, CountingTypes
<1>3. /\ drawn[c] <= t /\ (setting[c].kind = "topic" => drawn[c] = t)
      /\ \A i \in 0..(n - 1) :
            picks[c][i] <= Turns(n, t, i) /\ Turns(n, t, i) <= picks[c][i] + (t - drawn[c])
  BY <1>1 DEF Shares
<1>4. \A i \in 0..(n - 1) : picks[c][i] \in Nat
  BY <1>2 DEF OtherTypes, CountingTypes
<1> HIDE DEF n, t
<1>5. \A i, j \in 0..(n - 1) : Turns(n, t, i) \in Nat /\ Turns(n, t, i) <= Turns(n, t, j) + 1
  BY <1>2, TurnsBounds
<1>6. \A i, j \in 0..(n - 1) : picks[c][i] <= picks[c][j] + (t - drawn[c]) + 1
  BY <1>2, <1>3, <1>4, <1>5
<1>. QED BY <1>2, <1>3, <1>6 DEF n, t

\* Calls are spread evenly over a client's channels, up to the tickets that other
\* clients of the process drew from the same counter (cache_client.go:328-332,
\* storage_client.go:97-101, pubsub_client.go:79-89).
THEOREM SpreadEvenly == Spec => []SpreadUpToOthers
BY InitInv, InitTypes, InitSharing, NextInv, NextTypes, NextSharing, SharesAreEven, PTL DEF Spec

=============================================================================
