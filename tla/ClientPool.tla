----------------------------- MODULE ClientPool -----------------------------
(***************************************************************************)
(* The pool of grpc clients of containerd (ctrd/client.go,                 *)
(* wrapper_client.go, pkg/scheduler): Get picks the client with the        *)
(* largest stream quota; watch.add takes one stream of it for a container  *)
(* and the goroutine that waits for the task gives it back.                *)
(***************************************************************************)
EXTENDS Integers, FiniteSets, Scenario

CONSTANTS
    Watched,     \* containers
    PoolSize,    \* grpcClientPoolCapacity
    MaxStreams   \* maxStreamsClient

(* The cases: "poolOverlap" containers are created at the same time;       *)
(* "broken" the connections to containerd may break.                       *)

ASSUME PoolAssumption ==
    IsFiniteSet(Watched) /\ PoolSize \in Nat \ {0} /\ MaxStreams \in Nat

VARIABLES
    quota,   \* quota[i]: WrapperClient.streamQuota
    use      \* use[w]: where the creation of a container is, and its client

poolVars == <<quota, use>>

PoolClients == 1..PoolSize

\* While Schedule scans the pool, upto is the last client it has read and
\* least the quota it had read of the one it prefers so far, client.
Use(at, client, upto, least) == [at |-> at, client |-> client, upto |-> upto, least |-> least]

NoUse == Use("idle", 1, 0, 0)

Uses(i) == {w \in Watched : use[w].at = "watched" /\ use[w].client = i}

Get(w) ==
    /\ use[w].at = "idle"
    /\ On("poolOverlap") \/ \A v \in Watched : use[v].at \in {"idle", "watched"}
    /\ use' = [use EXCEPT ![w] = Use("scan", 1, 1, quota[1])]
    /\ UNCHANGED quota

Schedule(w) ==
    /\ use[w].at = "scan" /\ use[w].upto < PoolSize
    /\ LET next == use[w].upto + 1
       IN use' = [use EXCEPT ![w] = IF quota[next] > @.least
                                    THEN Use("scan", next, next, quota[next])
                                    ELSE [@ EXCEPT !.upto = next]]
    /\ UNCHANGED quota

Scheduled(w) ==
    /\ use[w].at = "scan" /\ use[w].upto = PoolSize
    /\ use' = [use EXCEPT ![w] = IF @.least <= 0 THEN NoUse ELSE Use("create", @.client, 0, 0)]
    /\ UNCHANGED quota

CreateFails(w) ==
    /\ use[w].at = "create" /\ use' = [use EXCEPT ![w] = NoUse]
    /\ UNCHANGED quota

\* The error of Consume, when no stream is left, is ignored.
WatchAdd(w) ==
    /\ use[w].at = "create" /\ use' = [use EXCEPT ![w].at = "watched"]
    /\ quota' = [quota EXCEPT ![use[w].client] = IF @ < 1 THEN @ ELSE @ - 1]

MutantProduceOther(w) ==
    /\ use[w].at = "watched" /\ use' = [use EXCEPT ![w] = NoUse]
    /\ quota' = [quota EXCEPT ![1] = @ + 1]

TaskQuits(w) ==
    /\ use[w].at = "watched" /\ use' = [use EXCEPT ![w] = NoUse]
    /\ quota' = [quota EXCEPT ![use[w].client] = @ + 1]

\* The exit channel is closed by the connection: the goroutine returns.
ChannelBreaks(w) ==
    /\ On("broken") /\ use[w].at = "watched"
    /\ use' = [use EXCEPT ![w].at = "lost"]
    /\ UNCHANGED quota

PoolInit ==
    /\ quota = [i \in PoolClients |-> MaxStreams]
    /\ use = [w \in Watched |-> NoUse]

PoolNext ==
    \E w \in Watched :
        \/ Get(w) \/ Schedule(w) \/ Scheduled(w) \/ CreateFails(w) \/ WatchAdd(w)
        \/ TaskQuits(w) \/ ChannelBreaks(w)

PoolSpec == PoolInit /\ [][PoolNext /\ UNCHANGED cases]_<<poolVars, cases>>

-----------------------------------------------------------------------------
(* Properties *)

\* Every variable has its type.
PoolTypeOK ==
    /\ quota \in [PoolClients -> Nat]
    /\ \A w \in Watched :
           /\ use[w].at \in {"idle", "scan", "create", "watched", "lost"}
           /\ use[w].client \in PoolClients /\ use[w].upto \in 0..PoolSize

\* A client is refused for want of streams only when all its streams are in
\* use: no order of creations and exits loses a stream, though Schedule, the
\* creation and Consume are three steps and the error of Consume is ignored.
\* (A connection that breaks loses the streams of its containers for good.)
NoStreamIsLost ==
    NoneOf({"broken"}) =>
        \A i \in PoolClients : quota[i] + Cardinality(Uses(i)) >= MaxStreams

\* When containers are created one after another, no client carries more
\* streams than its quota, and its count is exact.
StreamsAreBounded ==
    NoneOf({"poolOverlap", "broken"}) =>
        \A i \in PoolClients : quota[i] + Cardinality(Uses(i)) = MaxStreams

\* The quotas of the connections count the streams in use.
StreamsAreCounted == PoolTypeOK /\ NoStreamIsLost /\ StreamsAreBounded
=============================================================================
