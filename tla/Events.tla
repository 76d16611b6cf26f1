------------------------------- MODULE Events -------------------------------
(***************************************************************************)
(* The event service of the daemon (daemon/events): Publish stamps an      *)
(* event, appends it to a buffer of the last eventsLimit events, and hands *)
(* it to a broadcaster; Subscribe reads the buffer, then adds a queue to   *)
(* the broadcaster and starts a goroutine that forwards the queue to the   *)
(* subscriber until its context is cancelled.  Broadcaster, queue and      *)
(* channel are those of github.com/docker/go-events.  An event is its time.*)
(* The case "gap": events may be broadcast between the two steps of        *)
(* Subscribe, after it has read the buffer and before it adds its queue.   *)
(***************************************************************************)
EXTENDS Integers, SequencesExt, Scenario

CONSTANTS
    Publishers,
    Subscribers,
    EventsLimit,  \* the capacity of Events.events
    MaxEvents     \* bound: how many events are published

Times == 1..MaxEvents

VARIABLES
    clock,     \* the time of the last event
    pub,       \* pub[p]: where Publish is, and the time of its event
    buffer,    \* Events.events
    sinks,     \* the sinks of the broadcaster
    sub,       \* sub[s]: the goroutine of a subscription, and what it was given
    queue,     \* queue[s]: the events of the Queue, and the one its goroutine holds
    flushing   \* flushing[s]: that goroutine runs

eventVars == <<clock, pub, buffer, sinks, sub, queue, flushing>>

Publishing(at, t) == [at |-> at, time |-> t]

\* The event held by the goroutine of the queue is its first when taken.
NoQueue == [events |-> <<>>, taken |-> FALSE, closed |-> FALSE]

\* over is history: the events whose Publish had ended when Subscribe read
\* the buffer, with "gap" when it added the queue.
NoSub == [at |-> "none", over |-> {}, event |-> 0, got |-> <<>>, cancelled |-> FALSE]

SGoto(s, at) == sub' = [sub EXCEPT ![s].at = at]

-----------------------------------------------------------------------------
(* Publish *)

Stamp(p) ==
    /\ pub[p].at = "idle" /\ clock < MaxEvents
    /\ clock' = clock + 1
    /\ pub' = [pub EXCEPT ![p] = Publishing("buffer", clock + 1)]
    /\ UNCHANGED <<buffer, sinks, sub, queue, flushing>>

\* A full buffer discards its oldest event.
BufferEvent(p) ==
    /\ pub[p].at = "buffer"
    /\ buffer' = Append(IF Len(buffer) = EventsLimit THEN Tail(buffer) ELSE buffer, pub[p].time)
    /\ pub' = [pub EXCEPT ![p].at = "broadcast"]
    /\ UNCHANGED <<clock, sinks, sub, queue, flushing>>

\* A sink that is closed refuses the event, and is removed.
Broadcast(p) ==
    /\ pub[p].at = "broadcast"
    /\ On("gap") \/ \A s \in Subscribers : sub[s].at # "add"
    /\ queue' = [s \in Subscribers |->
                    IF s \in sinks /\ ~queue[s].closed
                    THEN [queue[s] EXCEPT !.events = Append(@, pub[p].time)] ELSE queue[s]]
    /\ sinks' = {s \in sinks : ~queue[s].closed}
    /\ pub' = [pub EXCEPT ![p] = Publishing("idle", 0)]
    /\ UNCHANGED <<clock, buffer, sub, flushing>>

-----------------------------------------------------------------------------
(* Subscribe *)

\* The loop runs from the newest event to the oldest and stops at the first
\* before since; it skips the ones after until.  A time of 0 is no bound.
FilterBufferedEvents(events, since, until) ==
    IF since = 0 /\ until = 0 THEN <<>>
    ELSE LET recent == {i \in DOMAIN events : \A j \in i..Len(events) : events[j] >= since}
             wanted == {i \in recent : until = 0 \/ events[i] <= until}
         IN [k \in 1..Cardinality(wanted) |-> events[SetToSortSeq(wanted, <)[k]]]

InFlight == {pub[p].time : p \in Publishers}

Over == (1..clock) \ InFlight

\* The events it returns are FilterBufferedEvents(buffer, since, until).
Subscribe(s) ==
    /\ sub[s].at = "none"
    /\ sub' = [sub EXCEPT ![s].at = "add", ![s].over = Over]
    /\ flushing' = [flushing EXCEPT ![s] = TRUE]
    /\ UNCHANGED <<clock, pub, buffer, sinks, queue>>

AddSink(s) ==
    /\ sub[s].at = "add"
    /\ sinks' = sinks \cup {s}
    /\ sub' = [sub EXCEPT ![s].at = "select",
                          ![s].over = IF On("gap") THEN Over ELSE @]
    /\ UNCHANGED <<clock, pub, buffer, queue, flushing>>

\* The goroutine of the queue takes an event, and hands it over a channel
\* without a buffer: it waits for the subscription to read it.
TakeEvent(s) ==
    /\ flushing[s] /\ queue[s].events # <<>> /\ ~queue[s].taken
    /\ queue' = [queue EXCEPT ![s].taken = TRUE]
    /\ UNCHANGED <<clock, pub, buffer, sinks, sub, flushing>>

HandEvent(s) ==
    /\ queue[s].taken /\ sub[s].at = "select"
    /\ sub' = [sub EXCEPT ![s].at = "forward", ![s].event = Head(queue[s].events)]
    /\ queue' = [queue EXCEPT ![s].events = Tail(@), ![s].taken = FALSE]
    /\ UNCHANGED <<clock, pub, buffer, sinks, flushing>>

Receive(s) ==
    /\ sub[s].at = "forward"
    /\ sub' = [sub EXCEPT ![s].at = "select", ![s].got = Append(@, sub[s].event), ![s].event = 0]
    /\ UNCHANGED <<clock, pub, buffer, sinks, queue, flushing>>

Cancel(s) ==
    /\ sub[s].at \in {"select", "forward"} /\ ~sub[s].cancelled
    /\ sub' = [sub EXCEPT ![s].cancelled = TRUE]
    /\ UNCHANGED <<clock, pub, buffer, sinks, queue, flushing>>

-----------------------------------------------------------------------------
(* closeAll *)

LeaveLoop(s) ==
    /\ sub[s].cancelled /\ sub[s].at \in {"select", "forward"}
    /\ sub' = [sub EXCEPT ![s] = [NoSub EXCEPT !.at = "remove", !.cancelled = TRUE]]
    /\ UNCHANGED <<clock, pub, buffer, sinks, queue, flushing>>

RemoveSink(s) ==
    /\ sub[s].at = "remove"
    /\ sinks' = sinks \ {s} /\ SGoto(s, "closeQueue")
    /\ UNCHANGED <<clock, pub, buffer, queue, flushing>>

MutantQueueStaysOpen(s) ==
    /\ sub[s].at = "closeQueue" /\ SGoto(s, "gone")
    /\ UNCHANGED <<clock, pub, buffer, sinks, queue, flushing>>

\* Queue.Close marks the queue and waits for its goroutine, which ends once
\* it has given all events away; the channel is closed after that only.
CloseQueue(s) ==
    /\ sub[s].at = "closeQueue" /\ SGoto(s, "waitQueue")
    /\ queue' = [queue EXCEPT ![s].closed = TRUE]
    /\ UNCHANGED <<clock, pub, buffer, sinks, flushing>>

QueueEnds(s) ==
    /\ flushing[s] /\ queue[s].closed /\ queue[s].events = <<>>
    /\ flushing' = [flushing EXCEPT ![s] = FALSE]
    /\ UNCHANGED <<clock, pub, buffer, sinks, sub, queue>>

CloseChannel(s) ==
    /\ sub[s].at = "waitQueue" /\ ~flushing[s] /\ SGoto(s, "gone")
    /\ UNCHANGED <<clock, pub, buffer, sinks, queue, flushing>>

EventsInit ==
    /\ clock = 0 /\ buffer = <<>> /\ sinks = {}
    /\ pub = [p \in Publishers |-> Publishing("idle", 0)]
    /\ sub = [s \in Subscribers |-> NoSub]
    /\ queue = [s \in Subscribers |-> NoQueue]
    /\ flushing = [s \in Subscribers |-> FALSE]

Publish(p) == Stamp(p) \/ BufferEvent(p) \/ Broadcast(p)

Flush(s) == TakeEvent(s) \/ QueueEnds(s)

Forward(s) ==
    \/ AddSink(s) \/ HandEvent(s) \/ LeaveLoop(s) \/ RemoveSink(s) \/ CloseQueue(s)
    \/ CloseChannel(s)

EventsNext ==
    \/ \E p \in Publishers : Publish(p)
    \/ \E s \in Subscribers :
           Flush(s) \/ Forward(s) \/ Receive(s) \/ Cancel(s) \/ Subscribe(s)

\* Goroutines go on, and a subscriber that has not cancelled reads.
EventsFairness ==
    /\ \A p \in Publishers : WF_eventVars(On("events") /\ (BufferEvent(p) \/ Broadcast(p)))
    /\ \A s \in Subscribers :
          /\ WF_eventVars(On("events") /\ Flush(s))
          /\ WF_eventVars(On("events") /\ Forward(s))
          /\ WF_eventVars(On("events") /\ Receive(s))

-----------------------------------------------------------------------------
(* Properties *)

\* Every variable has its type.
EventsTypeOK ==
    /\ clock \in 0..MaxEvents
    /\ pub \in [Publishers -> [at : {"idle", "buffer", "broadcast"}, time : {0} \cup Times]]
    /\ buffer \in Seq(Times) /\ Len(buffer) <= EventsLimit
    /\ sinks \subseteq Subscribers
    /\ \A s \in Subscribers :
           /\ sub[s].at \in {"none", "add", "select", "forward", "remove", "closeQueue",
                             "waitQueue", "gone"}
           /\ sub[s].event \in {0} \cup Times
           /\ queue[s].taken => flushing[s] /\ queue[s].events # <<>>

Sorted(events) == \A i, j \in DOMAIN events : i < j => events[i] < events[j]

\* While the buffer is in the order of the times, filterBufferedEvents
\* returns every buffered event between since and until, in order.  Two
\* publishers that stamp in one order and append in the other break the
\* order, and the loop may then stop too early.
FilterIsExact ==
    Sorted(buffer) =>
        \A since \in {0} \cup Times, until \in {0} \cup Times :
            (since # 0 \/ until # 0) =>
                FilterBufferedEvents(buffer, since, until) =
                    SelectSeq(buffer, LAMBDA t : t >= since /\ (until = 0 \/ t <= until))

\* The events that the subscription has from its queue, or will have.
Live(s) == ({sub[s].event} \ {0}) \cup ToSet(sub[s].got) \cup ToSet(queue[s].events)

\* A subscription gets from its queue, once, every event whose Publish was
\* not over when Subscribe read the buffer, and none that was: with the
\* buffered ones it misses nothing, and only an event that was buffered and
\* not yet broadcast at that moment comes twice.  (With "gap" this holds from
\* the moment the queue is added: an event that is buffered and broadcast
\* between the two steps is neither among the buffered ones nor in the queue,
\* and is lost.)
NothingIsMissed ==
    \A s \in Subscribers :
        sub[s].at \in {"select", "forward"} =>
            /\ Over \ sub[s].over \subseteq Live(s)
            /\ Live(s) \cap sub[s].over = {}
            /\ IsInjective(sub[s].got \o queue[s].events)

\* When its context is cancelled, the goroutine of a subscription and the one
\* of its queue end, unless the queue still has an event: Queue.Close waits
\* for the event to be read, and nobody reads the channel any more.
CancelledEnds ==
    \A s \in Subscribers :
        (On("events") /\ sub[s].cancelled) ~>
            (queue[s].events # <<>> \/ (sub[s].at = "gone" /\ ~flushing[s]))

\* An event given to the broadcaster reaches a subscription that stays.
EventArrives ==
    \A s \in Subscribers :
        (On("events") /\ queue[s].events # <<>>) ~> (queue[s].events = <<>> \/ sub[s].cancelled)

\* A subscription gets the events it asks for, those of the past through the
\* filter and those of the future through its sink, and what it waits for comes:
\* its events, and its end.
SubscriptionIsServed ==
    [](EventsTypeOK /\ FilterIsExact /\ NothingIsMissed) /\ EventArrives /\ CancelledEnds
=============================================================================
