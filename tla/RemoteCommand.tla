--------------------------- MODULE RemoteCommand ---------------------------
(***************************************************************************)
(* Exec and attach over the CRI stream server (cri/stream).  A request of  *)
(* the kubelet is kept in the RequestCache under a token; the client that  *)
(* comes with the token opens the streams, the server waits until it has   *)
(* all of them and their replies are sent, runs the command, writes its    *)
(* status and closes the connection.  Sizes of the terminal go from        *)
(* handleResizeEvents over a channel to the goroutine of handleResizing.   *)
(* Sessions share the cache alone, so the streams of one are followed.     *)
(***************************************************************************)
EXTENDS Integers, Sequences, FiniteSets, Scenario

CONSTANTS
    Tokens,        \* the tokens generateUniqueToken returns
    MaxInFlight,   \* the capacity of the cache
    CacheTTL,      \* the life of an entry
    MaxTime,       \* bound on the clock
    MaxSizes       \* bound on the sizes a client sends

(* The cases: "websocket" the streams are those of a websocket; "tty" the  *)
(* command has a terminal; "v1" the first protocol; "attach" the request   *)
(* is an attach; "createFails" the exec cannot be created; "odd" the       *)
(* client also opens a second stream of some kind and one of an unknown    *)
(* kind; "many" there are several requests, and the sessions are not       *)
(* followed.                                                               *)

\* What the client opens: the error stream and the streams of the options; a
\* websocket always has a channel for sizes.
StreamTypes == {"error", "stdin", "stdout", "resize", "second", "unknown"}
Expected ==
    {"error"} \cup (IF On("tty") THEN {"stdout", "resize"} ELSE {"stdin"})
    \cup (IF On("websocket") THEN {"resize"} ELSE {})
Odd == IF On("odd") THEN {"second", "unknown"} ELSE {}

VARIABLES
    now,
    cache,     \* the list ll, the newest entry first; tokens has the same entries
    issued,    \* the tokens given out
    served,    \* served[t]: how often the request of t was served
    room,      \* how many entries could be consumed when Insert last refused
    session,   \* where ServeExec or ServeAttach is
    opened,    \* opened[s]: how far a stream of the session has come
    conn,      \* the connection is open
    resizer,   \* the goroutine of handleResizeEvents
    reader,    \* the goroutine of handleResizing
    sizes

cacheVars == <<now, cache, issued, served, room>>
sessionVars == <<session, opened, conn, resizer, reader, sizes>>
rcVars == <<cacheVars, sessionVars>>

-----------------------------------------------------------------------------
(* RequestCache *)

Live(entry) == now <= entry.expire

\* gc drops entries from the back until it meets one that has not expired.
Gc ==
    LET keep == {i \in DOMAIN cache : \E j \in i..Len(cache) : Live(cache[j])}
    IN SubSeq(cache, 1, Cardinality(keep))

Insert(t) ==
    /\ t \notin issued /\ (On("many") \/ t = CHOOSE u \in Tokens : TRUE)
    /\ IF Len(Gc) = MaxInFlight
       THEN /\ room' = Cardinality({i \in DOMAIN Gc : Live(Gc[i])})
            /\ cache' = Gc /\ UNCHANGED issued
       ELSE /\ cache' = <<[token |-> t, expire |-> now + CacheTTL]>> \o Gc
            /\ issued' = issued \cup {t} /\ UNCHANGED room
    /\ UNCHANGED <<now, served, sessionVars>>

\* An entry that has expired is removed as well, and not served.
Consume(t) ==
    \E i \in DOMAIN cache :
        /\ cache[i].token = t
        /\ cache' = SubSeq(cache, 1, i - 1) \o SubSeq(cache, i + 1, Len(cache))
        /\ IF Live(cache[i])
           THEN /\ served' = [served EXCEPT ![t] = @ + 1]
                /\ session' = IF session = "none" THEN "create" ELSE session
                /\ conn' = (conn \/ session = "none")
           ELSE UNCHANGED <<served, session, conn>>
        /\ UNCHANGED <<now, issued, room, opened, resizer, reader, sizes>>

Tick ==
    /\ now < MaxTime /\ now' = now + 1
    /\ UNCHANGED <<cache, issued, served, room, sessionVars>>

-----------------------------------------------------------------------------
(* createStreams *)

\* The streams of a websocket are there at once.
CreateStreams ==
    /\ session = "create" /\ ~On("many")
    /\ IF On("websocket")
       THEN /\ session' = "start" /\ resizer' = "decode"
            /\ opened' = [s \in StreamTypes |-> IF s \in Expected THEN "counted" ELSE "none"]
       ELSE session' = "wait" /\ UNCHANGED <<resizer, opened>>
    /\ UNCHANGED <<cacheVars, conn, reader, sizes>>

\* A worker of the spdy connection offers the stream on a channel without a buffer.
OpenStreamOf(s) ==
    /\ session = "wait" /\ conn /\ s \in Expected \cup Odd /\ opened[s] = "none"
    /\ opened' = [opened EXCEPT ![s] = "offered"]
    /\ UNCHANGED <<cacheVars, session, conn, resizer, reader, sizes>>

\* waitForStreams takes it, and starts a goroutine of waitStreamReply; of an
\* unknown kind it only logs.
ReceiveStream(s) ==
    /\ session = "wait" /\ opened[s] = "offered"
    /\ opened' = [opened EXCEPT ![s] = IF s = "unknown" THEN "ignored" ELSE "received"]
    /\ UNCHANGED <<cacheVars, session, conn, resizer, reader, sizes>>

\* newSpdyStream sends the reply once the handler has returned.
SendReply(s) ==
    /\ opened[s] = "received"
    /\ opened' = [opened EXCEPT ![s] = "replied"]
    /\ UNCHANGED <<cacheVars, session, conn, resizer, reader, sizes>>

Received(s) == opened[s] \notin {"none", "offered"}

\* The replies are counted, whatever their streams: with the expected number the
\* session starts with the streams it has received, and createStreams starts the
\* goroutine for the sizes.  The first protocol closes stdin.
Counted(now_opened) ==
    IF Cardinality({s \in StreamTypes : now_opened[s] = "counted"}) = Cardinality(Expected)
    THEN /\ session' = "start"
         /\ resizer' = IF Received("resize") THEN "decode" ELSE "none"
         /\ opened' = IF On("v1") /\ Received("stdin") THEN [now_opened EXCEPT !["stdin"] = "closed"]
                      ELSE now_opened
    ELSE opened' = now_opened /\ UNCHANGED <<session, resizer>>

CountReply(s) ==
    /\ session = "wait" /\ opened[s] = "replied"
    /\ Counted([opened EXCEPT ![s] = "counted"])
    /\ UNCHANGED <<cacheVars, conn, reader, sizes>>

\* The request ends without a word to the client, and leaves the connection
\* and the workers that offer a stream as they are.
StreamsExpire ==
    /\ session = "wait"
    /\ session' = "expired"
    /\ UNCHANGED <<cacheVars, opened, conn, resizer, reader, sizes>>

\* The goroutine of waitStreamReply sees that waitForStreams has stopped, whether
\* in time or not; if the reply was sent too, it may try to notify, and nobody
\* listens any more.
WaitReplyStops(s) ==
    /\ session \notin {"none", "create", "wait"}
    /\ \/ opened[s] \in {"received", "replied"} /\ opened' = [opened EXCEPT ![s] = "stopped"]
       \/ opened[s] = "replied" /\ opened' = [opened EXCEPT ![s] = "stuck"]
    /\ UNCHANGED <<cacheVars, session, conn, resizer, reader, sizes>>

-----------------------------------------------------------------------------
(* Exec and Attach *)

\* Attach is not given the channel of the sizes, and an Exec that cannot be
\* created does not read it.
StartCommand ==
    /\ session = "start"
    /\ IF On("createFails") THEN session' = "status" /\ UNCHANGED reader
       ELSE /\ session' = "running"
            /\ reader' = IF On("attach") \/ resizer = "none" THEN "none" ELSE "receive"
    /\ UNCHANGED <<cacheVars, opened, conn, resizer, sizes>>

CommandEnds ==
    /\ session = "running" /\ session' = "status"
    /\ UNCHANGED <<cacheVars, opened, conn, resizer, reader, sizes>>

WriteStatus ==
    /\ session = "status" /\ session' = "closed"
    /\ conn' = FALSE
    /\ UNCHANGED <<cacheVars, opened, resizer, reader, sizes>>

\* The client leaves, or the connection was idle for too long.
ConnectionDrops ==
    /\ conn /\ session \notin {"none", "create"} /\ conn' = FALSE
    /\ UNCHANGED <<cacheVars, session, opened, resizer, reader, sizes>>

DecodeSize ==
    /\ resizer = "decode" /\ conn /\ sizes < MaxSizes
    /\ sizes' = sizes + 1 /\ resizer' = "send"
    /\ UNCHANGED <<cacheVars, session, opened, conn, reader>>

MutantDecodeReturns ==
    /\ resizer = "decode" /\ ~conn /\ resizer' = "none"
    /\ UNCHANGED <<cacheVars, session, opened, conn, reader, sizes>>

\* The stream ends, and the channel is closed.
DecodeFails ==
    /\ resizer = "decode" /\ ~conn /\ resizer' = "closed"
    /\ UNCHANGED <<cacheVars, session, opened, conn, reader, sizes>>

ReceiveSize ==
    /\ reader = "receive"
    /\ \/ resizer = "send" /\ resizer' = "decode" /\ reader' = "resize"
       \/ resizer = "closed" /\ reader' = "ended" /\ UNCHANGED resizer
    /\ UNCHANGED <<cacheVars, session, opened, conn, sizes>>

\* ResizeExec, or nothing for a size of zero.
ResizeDone ==
    /\ reader = "resize" /\ reader' = "receive"
    /\ UNCHANGED <<cacheVars, session, opened, conn, resizer, sizes>>

-----------------------------------------------------------------------------
RCInit ==
    /\ now = 0 /\ cache = <<>> /\ issued = {} /\ served = [t \in Tokens |-> 0]
    /\ room = MaxInFlight
    /\ session = "none" /\ opened = [s \in StreamTypes |-> "none"] /\ conn = FALSE
    /\ resizer = "none" /\ reader = "none" /\ sizes = 0

StreamStep(s) == ReceiveStream(s) \/ SendReply(s) \/ CountReply(s) \/ WaitReplyStops(s)
Resizing == DecodeFails \/ ReceiveSize \/ ResizeDone

RCNext ==
    \/ Tick \/ \E t \in Tokens : Insert(t) \/ Consume(t)
    \/ CreateStreams \/ StreamsExpire \/ StartCommand \/ CommandEnds \/ WriteStatus
    \/ ConnectionDrops \/ DecodeSize \/ Resizing
    \/ \E s \in StreamTypes : OpenStreamOf(s) \/ StreamStep(s)

\* Goroutines go on; the command, the clock and the client may take for ever.
RCFairness ==
    /\ WF_rcVars(On("remote") /\ (CreateStreams \/ StartCommand \/ WriteStatus))
    /\ WF_rcVars(On("remote") /\ \E s \in StreamTypes : StreamStep(s))
    /\ WF_rcVars(On("remote") /\ Resizing)

-----------------------------------------------------------------------------
(* Properties *)

\* Every variable has its type.
RCTypeOK ==
    /\ now \in 0..MaxTime /\ issued \subseteq Tokens /\ sizes \in 0..MaxSizes
    /\ \A i \in DOMAIN cache : cache[i].token \in issued
    /\ session \in {"none", "create", "wait", "expired", "start", "running", "status", "closed"}
    /\ opened \in [StreamTypes -> {"none", "offered", "received", "replied", "counted",
                                   "ignored", "closed", "stopped", "stuck"}]
    /\ resizer \in {"none", "decode", "send", "closed"}
    /\ reader \in {"none", "receive", "resize", "ended"}

\* A token is good for one connection; the cache is bounded, ordered by age, and
\* refuses a request only when it is full of requests that can still be served:
\* gc stops at the first entry that has not expired.
TokensAreSingleUse ==
    /\ \A t \in Tokens : served[t] <= 1
    /\ \A i \in DOMAIN cache : served[cache[i].token] = 0
    /\ Len(cache) <= MaxInFlight
    /\ \A i, j \in DOMAIN cache : i < j => cache[i].expire >= cache[j].expire
    /\ room = MaxInFlight

\* Once a command starts, each of its streams is there and its reply has been sent,
\* although only a number is compared: a connection that is closed right after
\* cannot overtake a reply.  (The client must open each kind once: with a second
\* stream of a kind the number is reached before another kind has come.)
RepliesComeFirst ==
    ~On("odd") /\ session \in {"start", "running", "status", "closed"} =>
        \A s \in Expected : opened[s] \in {"counted", "closed"}

\* When all streams were opened the session gets on, and when the command has
\* ended it closes the connection and every goroutine ends.  (A size that
\* nobody reads, in an attach or when the exec cannot be created, keeps the
\* goroutine of handleResizeEvents for ever.)
SessionGetsOn ==
    /\ (On("remote") /\ session = "wait" /\ \A s \in Expected : opened[s] # "none") ~>
           (session # "wait")
    /\ (On("remote") /\ session = "status") ~>
           /\ session = "closed"
           /\ NoneOf({"attach", "createFails"}) =>
                  resizer \in {"none", "closed"} /\ reader \in {"none", "ended"}

\* A session of the stream server is entered once, starts whole, and ends.
SessionIsServed ==
    [](RCTypeOK /\ TokensAreSingleUse /\ RepliesComeFirst) /\ SessionGetsOn
=============================================================================
