---------------------------- MODULE PortForward ----------------------------
(***************************************************************************)
(* One port-forward connection of the CRI stream server                    *)
(* (cri/stream/portforward/httpstream.go).  The client opens an error and  *)
(* a data stream for each connection it forwards, in any order.  The       *)
(* workers of the spdy connection hand the streams over a channel to run,  *)
(* which pairs them by request id; a goroutine per pair waits until the    *)
(* pair is complete or a timer fires, and removes it from streamPairs.     *)
(***************************************************************************)
EXTENDS Integers, Sequences, FiniteSets, Scenario

CONSTANTS
    Forwards,   \* the connections the client forwards
    NoStream    \* nil

(* The cases: "repeats" the client forwards one connection, and opens its  *)
(* streams once more; "oldClient" it sets no request id; "badHeaders" the  *)
(* headers of a stream may be wrong.                                       *)

Kinds == {"error", "data"}
PFStreams == Forwards \X Kinds \X {1, 2}
Forwarded(s) == s[1]
StreamType(s) == s[2]
Opens(s) == IF On("repeats") THEN Forwarded(s) = CHOOSE f \in Forwards : TRUE ELSE s[3] = 1

RequestIDs == Forwards \cup {""}
RequestID(s) == IF On("oldClient") THEN "" ELSE Forwarded(s)

VARIABLES
    stream,       \* stream[s]: how far a stream has come
    streamChan,   \* the channel, with room for one stream
    run,          \* the loop: where it is, the stream it has read and its pair
    pairs,        \* the pairs made so far
    streamPairs,  \* streamPairs[id]: the pair in the map, 0 for none
    connected     \* the connection is open

pfVars == <<stream, streamChan, run, pairs, streamPairs, connected>>

AtSelect == [at |-> "select", stream |-> NoStream, pair |-> 0]

\* newPortForwardPair, and the goroutine that monitors the pair.
NewPair(id) ==
    [id |-> id, error |-> NoStream, data |-> NoStream, monitor |-> "wait", late |-> FALSE,
     forward |-> "no"]

Complete(p) == pairs[p].error # NoStream /\ pairs[p].data # NoStream

-----------------------------------------------------------------------------
(* The workers of the spdy connection *)

\* A stream whose headers are wrong is reset.
OpenStream(s) ==
    /\ connected /\ Opens(s) /\ stream[s] = "none"
    /\ \/ stream' = [stream EXCEPT ![s] = "sending"]
       \/ On("badHeaders") /\ stream' = [stream EXCEPT ![s] = "reset"]
    /\ UNCHANGED <<streamChan, run, pairs, streamPairs, connected>>

\* The worker waits for room in the channel, also when run has returned.
HttpStreamReceived(s) ==
    /\ stream[s] = "sending" /\ streamChan = <<>>
    /\ streamChan' = <<s>> /\ stream' = [stream EXCEPT ![s] = "accepted"]
    /\ UNCHANGED <<run, pairs, streamPairs, connected>>

Disconnect ==
    /\ connected /\ connected' = FALSE
    /\ UNCHANGED <<stream, streamChan, run, pairs, streamPairs>>

-----------------------------------------------------------------------------
(* run *)

\* getStreamPair: nobody but run puts a pair into the map.
GetStreamPair ==
    /\ run.at = "select" /\ streamChan # <<>>
    /\ LET s == Head(streamChan)
           id == RequestID(s)
           found == streamPairs[id] # 0
           p == IF found THEN streamPairs[id] ELSE Len(pairs) + 1
       IN /\ run' = [at |-> "add", stream |-> s, pair |-> p]
          /\ pairs' = IF found THEN pairs ELSE Append(pairs, NewPair(id))
          /\ streamPairs' = [streamPairs EXCEPT ![id] = p]
    /\ streamChan' = <<>>
    /\ UNCHANGED <<stream, connected>>

MutantDataCompletes ==
    /\ run.at = "add"
    /\ LET p == run.pair
           type == StreamType(run.stream)
           other == CHOOSE k \in Kinds : k # type
       IN IF pairs[p][type] # NoStream
          THEN UNCHANGED pairs
          ELSE pairs' = [pairs EXCEPT ![p][type] = run.stream,
                                      ![p].forward = IF pairs[p][other] # NoStream /\ type = "data"
                                                      THEN "run" ELSE @]
    /\ run' = AtSelect
    /\ UNCHANGED <<stream, streamChan, streamPairs, connected>>

\* add refuses a second stream of a type, and says so on the error stream;
\* the stream that completes the pair starts portForward.
AddStream ==
    /\ run.at = "add"
    /\ LET p == run.pair
           type == StreamType(run.stream)
           other == CHOOSE k \in Kinds : k # type
       IN IF pairs[p][type] # NoStream
          THEN UNCHANGED pairs
          ELSE pairs' = [pairs EXCEPT ![p][type] = run.stream,
                                      ![p].forward = IF pairs[p][other] # NoStream THEN "run" ELSE @]
    /\ run' = AtSelect
    /\ UNCHANGED <<stream, streamChan, streamPairs, connected>>

\* The deferred conn.Close resets the streams of the connection.
RunReturns ==
    /\ run.at = "select" /\ ~connected
    /\ run' = [AtSelect EXCEPT !.at = "returned"]
    /\ stream' = [s \in PFStreams |-> IF stream[s] = "accepted" THEN "reset" ELSE stream[s]]
    /\ UNCHANGED <<streamChan, pairs, streamPairs, connected>>

-----------------------------------------------------------------------------
(* The goroutines of a pair *)

\* The timer fires; also when the pair has just been completed.
MonitorTimesOut(p) ==
    /\ pairs[p].monitor = "wait"
    /\ pairs' = [pairs EXCEPT ![p].monitor = "remove", ![p].late = TRUE]
    /\ UNCHANGED <<stream, streamChan, run, streamPairs, connected>>

MonitorCompletes(p) ==
    /\ pairs[p].monitor = "wait" /\ Complete(p)
    /\ pairs' = [pairs EXCEPT ![p].monitor = "remove"]
    /\ UNCHANGED <<stream, streamChan, run, streamPairs, connected>>

\* The map is told the request id only.
RemoveStreamPair(p) ==
    /\ pairs[p].monitor = "remove"
    /\ streamPairs' = [streamPairs EXCEPT ![pairs[p].id] = 0]
    /\ pairs' = [pairs EXCEPT ![p].monitor = "gone"]
    /\ UNCHANGED <<stream, streamChan, run, connected>>

\* forwarder.PortForward returns, with an error or not, and both streams of
\* the pair are closed.
PortForwardEnds(p) ==
    /\ pairs[p].forward = "run"
    /\ pairs' = [pairs EXCEPT ![p].forward = "done"]
    /\ stream' = [s \in PFStreams |->
                     IF s \in {pairs[p].error, pairs[p].data} /\ stream[s] = "accepted"
                     THEN "closed" ELSE stream[s]]
    /\ UNCHANGED <<streamChan, run, streamPairs, connected>>

-----------------------------------------------------------------------------
PFInit ==
    /\ stream = [s \in PFStreams |-> "none"] /\ streamChan = <<>>
    /\ run = AtSelect /\ pairs = <<>> /\ streamPairs = [id \in RequestIDs |-> 0]
    /\ connected = TRUE

RunStep == GetStreamPair \/ AddStream \/ RunReturns
MonitorStep(p) == MonitorTimesOut(p) \/ MonitorCompletes(p) \/ RemoveStreamPair(p)

PFNext ==
    \/ \E s \in PFStreams : OpenStream(s) \/ HttpStreamReceived(s)
    \/ Disconnect \/ RunStep
    \/ \E p \in DOMAIN pairs : MonitorStep(p) \/ PortForwardEnds(p)

\* Goroutines go on and timers fire.  Nothing is assumed of the client or of a
\* forwarded connection.  (The streams are finitely many, so it is enough that
\* some worker, and some monitor, goes on.)
PFFairness ==
    /\ WF_pfVars(On("portforward") /\ RunStep)
    /\ WF_pfVars(On("portforward") /\ \E s \in PFStreams : HttpStreamReceived(s))
    /\ WF_pfVars(On("portforward") /\ \E p \in DOMAIN pairs : MonitorStep(p))

-----------------------------------------------------------------------------
(* Properties *)

\* Every variable has its type.
PFTypeOK ==
    /\ stream \in [PFStreams -> {"none", "sending", "accepted", "reset", "closed"}]
    /\ Len(streamChan) <= 1
    /\ run.at \in {"select", "add", "returned"} /\ run.pair \in 0..Len(pairs)
    /\ streamPairs \in [RequestIDs -> 0..Len(pairs)]
    /\ \A p \in DOMAIN pairs :
           /\ pairs[p].monitor \in {"wait", "remove", "gone"}
           /\ pairs[p].forward \in {"no", "run", "done"}

\* monitorStreamPair removes a pair by its request id alone; the pair in the
\* map under that id is always its own, never the one made for a late stream.
MonitorOwnsEntry ==
    \A p \in DOMAIN pairs : pairs[p].monitor # "gone" <=> streamPairs[pairs[p].id] = p

\* A stream is in one pair at most; what is forwarded has the two streams of one
\* connection of the client, and no connection is forwarded twice, however the
\* timer, the map and a late stream race.  (Without request ids the streams of
\* different connections are paired; with repeated streams a pair may time out
\* and be made anew.)
ForwardedIsOne ==
    /\ \A p, q \in DOMAIN pairs, k \in Kinds :
           pairs[p][k] # NoStream /\ pairs[p][k] = pairs[q][k] => p = q
    /\ NoneOf({"oldClient"}) =>
           \A p \in DOMAIN pairs :
               pairs[p].forward # "no" => Forwarded(pairs[p].error) = Forwarded(pairs[p].data)
    /\ NoneOf({"oldClient", "repeats"}) =>
           \A p, q \in DOMAIN pairs :
               pairs[p].id = pairs[q].id /\ pairs[p].forward # "no" /\ pairs[q].forward # "no" => p = q

\* No pair stays in streamPairs: its streams come, or its timer fires, and as
\* the client opens finitely many streams the map is empty again and again.
PairIsRemoved == []<>(\A id \in RequestIDs : streamPairs[id] = 0)

\* A connection both of whose streams are opened is forwarded, unless the timer
\* of its pair fires or the client disconnects.
RequestIsServed ==
    []<>(NoneOf({"oldClient", "repeats"}) =>
            \A f \in Forwards :
               (\A k \in Kinds : stream[<<f, k, 1>>] \in {"sending", "accepted", "closed"}) =>
                  \/ ~connected
                  \/ \E p \in DOMAIN pairs :
                        pairs[p].id = f /\ (pairs[p].late \/ pairs[p].forward # "no"))

\* What the client opens is paired, forwarded once, and forgotten.
PairsAreServed ==
    [](PFTypeOK /\ MonitorOwnsEntry /\ ForwardedIsOne) /\ PairIsRemoved /\ RequestIsServed
=============================================================================
