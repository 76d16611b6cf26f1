----------------------------- MODULE JSONStream -----------------------------
(***************************************************************************)
(* The progress of a pull or a push, as the client sees it: the request    *)
(* (daemon/mgr/image.go PullImage, ctrd/image.go FetchImage and PushImage),*)
(* the goroutine that looks at the layers at every tick (fetchProgress,    *)
(* PushProcess) and the goroutine of the stream, which writes what both    *)
(* put into its channel (pkg/jsonstream).  Of a status the word is kept;   *)
(* the line about the reference itself is left out.                        *)
(***************************************************************************)
EXTENDS Naturals, SequencesExt, FiniteSets, Scenario

CONSTANTS
    Layers,      \* what the image consists of
    Cached,      \* the layers that are there before the pull or push
    CacheSize    \* the capacity of stream.cache

(* The cases: "push" the image is pushed, "errors" containerd fails to     *)
(* tell the state of the layers.                                           *)

VARIABLES
    content,    \* per layer: "none", "active", "committing" or "stored"
    ongoing,    \* the layers in the jobs
    request,    \* the request, and whether it failed
    progress,   \* the goroutine that follows the layers
    jsonStream, \* the JSONStream
    shown,      \* per layer the last status the client got, and whether an error
    gone        \* the client has closed the connection

streamVars == <<content, ongoing, request, progress, jsonStream, shown, gone>>

None == "none"
Failure == "error"

NoProgress == [at |-> "none", done |-> FALSE, active |-> {}, todo |-> {},
               progresses |-> [l \in Layers |-> None]]

RequestAt(at) == request' = [request EXCEPT !.at = at]

\* The context of the progress: cancelled by the request, and with the context of
\* a pull, which the connection cancels.
Cancelled == request.at # "transfer" \/ (gone /\ ~On("push"))

\* The goroutine of the stream has ended: closingCh is closed.
Ended == jsonStream.writer = "ended"

MutantWriteBlocks(message) ==
    Len(jsonStream.cache) < CacheSize /\ jsonStream' = [jsonStream EXCEPT !.cache = Append(@, message)]

\* WriteObject: into the cache, unless the stream has ended.
WriteObject(message) ==
    \/ Len(jsonStream.cache) < CacheSize /\ jsonStream' = [jsonStream EXCEPT !.cache = Append(@, message)]
    \/ Ended /\ UNCHANGED jsonStream

-----------------------------------------------------------------------------
(* The request *)

\* PullImage makes the stream first; when no reference can be resolved it
\* returns, and the stream stays.
ResolveImage ==
    /\ request.at = "resolve"
    /\ \/ RequestAt("transfer") /\ progress' = [NoProgress EXCEPT !.at = "select"]
       \/ ~On("push") /\ request' = [at |-> "unresolved", failed |-> TRUE] /\ UNCHANGED progress
    /\ UNCHANGED <<content, ongoing, jsonStream, shown, gone>>

\* The image handler of a pull or a push tells of a layer.
AddJob(l) ==
    /\ request.at = "transfer" /\ l \notin ongoing /\ ongoing' = ongoing \cup {l}
    /\ UNCHANGED <<content, request, progress, jsonStream, shown, gone>>

\* containerd transfers a layer, in a push with a last step that commits it.
Transfer(l) ==
    /\ request.at = "transfer" /\ l \in ongoing /\ content[l] # "stored"
    /\ content' = [content EXCEPT ![l] = CASE @ = None -> "active"
                                           [] @ = "active" /\ On("push") -> "committing"
                                           [] OTHER -> "stored"]
    /\ UNCHANGED <<ongoing, request, progress, jsonStream, shown, gone>>

TransferEnds ==
    /\ request.at = "transfer"
    /\ \/ ongoing = Layers /\ (\A l \in Layers : content[l] = "stored") /\ RequestAt("wait")
       \/ request' = [at |-> "wait", failed |-> TRUE]
    /\ UNCHANGED <<content, ongoing, progress, jsonStream, shown, gone>>

\* The request waits for the progress to have ended.
WaitProgress ==
    /\ request.at = "wait" /\ progress.at = "ended"
    /\ RequestAt(IF request.failed THEN "writeError" ELSE IF On("push") THEN "close" ELSE "unpack")
    /\ UNCHANGED <<content, ongoing, progress, jsonStream, shown, gone>>

Unpack ==
    /\ request.at = "unpack"
    /\ RequestAt("close") \/ request' = [at |-> "writeError", failed |-> TRUE]
    /\ UNCHANGED <<content, ongoing, progress, jsonStream, shown, gone>>

WriteError ==
    /\ request.at = "writeError" /\ WriteObject(<<Failure, Failure>>) /\ RequestAt("close")
    /\ UNCHANGED <<content, ongoing, progress, shown, gone>>

Close ==
    /\ request.at = "close" /\ jsonStream' = [jsonStream EXCEPT !.closed = TRUE] /\ RequestAt("drain")
    /\ UNCHANGED <<content, ongoing, progress, shown, gone>>

Wait ==
    /\ request.at = "drain" /\ Ended
    /\ RequestAt(IF request.failed \/ On("push") THEN "returned" ELSE "postPull")
    /\ UNCHANGED <<content, ongoing, progress, jsonStream, shown, gone>>

\* A pull goes on without its stream: the plugin's PostPull and then
\* StoreImageReference, whose errors can no longer be written to it.
PostPull ==
    /\ request.at = "postPull"
    /\ RequestAt("store") \/ request' = [at |-> "unstored", failed |-> TRUE]
    /\ UNCHANGED <<content, ongoing, progress, jsonStream, shown, gone>>

StoreImageReference ==
    /\ request.at = "store"
    /\ RequestAt("returned") \/ request' = [at |-> "unstored", failed |-> TRUE]
    /\ UNCHANGED <<content, ongoing, progress, jsonStream, shown, gone>>

-----------------------------------------------------------------------------
(* The progress *)

\* The context is done: once more after that.
SeeDone ==
    /\ progress.at = "select" /\ ~progress.done /\ Cancelled
    /\ progress' = [progress EXCEPT !.done = TRUE]
    /\ UNCHANGED <<content, ongoing, request, jsonStream, shown, gone>>

\* At a tick of a pull the active layers are listed, unless it is the last.
ListStatuses ==
    /\ progress.at = "select" /\ ~On("push")
    /\ \/ progress' = [progress EXCEPT !.at = "collect",
               !.active = IF progress.done THEN {} ELSE {l \in Layers : content[l] = "active"}]
       \/ On("errors") /\ ~progress.done /\ UNCHANGED progress
    /\ UNCHANGED <<content, ongoing, request, jsonStream, shown, gone>>

\* The status of a job: an active layer is being downloaded; the store is asked
\* about one that is new or was being downloaded, and any that is not known to be
\* there is done at the last tick.
FetchStatus(l) ==
    LET old == progress.progresses[l]
    IN CASE l \in progress.active -> "downloading"
         [] l \notin progress.active /\ progress.done ->
                IF old = "exists" THEN old ELSE "done"
         [] l \notin progress.active /\ ~progress.done /\ old \in {None, "downloading"} ->
                IF content[l] # "stored" THEN "waiting" ELSE IF l \in Cached THEN "exists" ELSE "done"
         [] OTHER -> old

Looked(S) == [l \in Layers |-> IF l \in S THEN FetchStatus(l) ELSE progress.progresses[l]]

\* An error leaves the jobs after it as they were, and shows nothing.
Collect ==
    /\ progress.at = "collect"
    /\ \/ progress' = [progress EXCEPT !.at = "write", !.todo = ongoing, !.progresses = Looked(ongoing)]
       \/ /\ On("errors") /\ ~progress.done
          /\ \E S \in (SUBSET ongoing) \ {ongoing} :
                 progress' = [progress EXCEPT !.at = "select", !.progresses = Looked(S)]
    /\ UNCHANGED <<content, ongoing, request, jsonStream, shown, gone>>

PushStatus(l) ==
    CASE content[l] = None -> "waiting" [] content[l] = "active" -> "uploading"
      [] content[l] = "committing" -> "committing" [] content[l] = "stored" -> "done"

\* At a tick of a push the tracker tells the status of every job.
Status ==
    /\ progress.at = "select" /\ On("push")
    /\ progress' = [progress EXCEPT !.at = "write", !.todo = ongoing,
           !.progresses = [l \in Layers |-> IF l \in ongoing THEN PushStatus(l) ELSE @[l]]]
    /\ UNCHANGED <<content, ongoing, request, jsonStream, shown, gone>>

WriteProgress ==
    /\ progress.at = "write"
    /\ \/ \E l \in progress.todo :
             /\ l = CHOOSE k \in progress.todo : TRUE
             /\ WriteObject(<<l, progress.progresses[l]>>)
             /\ progress' = [progress EXCEPT !.todo = @ \ {l}]
       \/ /\ progress.todo = {} /\ UNCHANGED jsonStream
          /\ progress' = [progress EXCEPT !.at = IF progress.done THEN "ended" ELSE "select"]
    /\ UNCHANGED <<content, ongoing, request, shown, gone>>

-----------------------------------------------------------------------------
(* The stream and the client *)

\* The goroutine writes what is in the channel; it ends when a write fails, and
\* when the channel is closed and empty.
StreamWrites ==
    /\ ~Ended
    /\ \/ /\ jsonStream.cache # <<>> /\ jsonStream' = [jsonStream EXCEPT !.cache = Tail(@)]
          /\ LET m == Head(jsonStream.cache) IN shown' = [shown EXCEPT ![m[1]] = m[2]]
       \/ gone /\ jsonStream.cache # <<>> /\ UNCHANGED shown
          /\ jsonStream' = [jsonStream EXCEPT !.cache = Tail(@), !.writer = "ended"]
       \/ /\ jsonStream.cache = <<>> /\ jsonStream.closed /\ UNCHANGED shown
          /\ jsonStream' = [jsonStream EXCEPT !.writer = "ended"]
    /\ UNCHANGED <<content, ongoing, request, progress, gone>>

ClientGoes ==
    /\ ~gone /\ gone' = TRUE
    /\ UNCHANGED <<content, ongoing, request, progress, jsonStream, shown>>

-----------------------------------------------------------------------------
StreamInit ==
    /\ content = [l \in Layers |-> IF l \in Cached THEN "stored" ELSE None]
    /\ ongoing = {} /\ request = [at |-> "resolve", failed |-> FALSE] /\ progress = NoProgress
    /\ jsonStream = [cache |-> <<>>, closed |-> FALSE, writer |-> "running"]
    /\ shown = [l \in Layers \cup {Failure} |-> None] /\ gone = FALSE

RequestStep ==
    \/ ResolveImage \/ (\E l \in Layers : AddJob(l) \/ Transfer(l)) \/ TransferEnds
    \/ WaitProgress \/ Unpack \/ WriteError \/ Close \/ Wait
    \/ PostPull \/ StoreImageReference
ProgressStep == ListStatuses \/ Collect \/ Status \/ WriteProgress

StreamNext == RequestStep \/ SeeDone \/ ProgressStep \/ StreamWrites \/ ClientGoes

\* containerd ends a transfer, the ticker ticks, select does not for ever prefer the
\* tick to the context, and a client that is there reads.
StreamFairness ==
    /\ WF_streamVars(On("progress") /\ RequestStep) /\ WF_streamVars(On("progress") /\ ProgressStep)
    /\ SF_streamVars(On("progress") /\ SeeDone) /\ WF_streamVars(On("progress") /\ StreamWrites)

-----------------------------------------------------------------------------
(* Properties *)

\* Every variable has its type.
StreamTypeOK ==
    /\ content \in [Layers -> {None, "active", "committing", "stored"}]
    /\ ongoing \subseteq Layers /\ progress.todo \subseteq Layers
    /\ request.at \in {"resolve", "unresolved", "transfer", "wait", "unpack", "writeError",
                       "close", "drain", "postPull", "store", "unstored", "returned"}
    /\ progress.at \in {"none", "select", "collect", "write", "ended"}
    /\ Len(jsonStream.cache) <= CacheSize

AfterStream == {"postPull", "store", "unstored", "returned"}

\* Nobody can write an object after Close, which would panic; and a request that
\* has closed its stream does not return while the stream still writes to it.
NoWriteAfterClose ==
    /\ jsonStream.closed => progress.at = "ended" /\ request.at \in {"drain"} \cup AfterStream
    /\ request.at \in AfterStream => Ended

\* A layer that is shown to be there is there, unless the transfer has failed or
\* the client has gone (the last tick calls every layer done).
ShownIsStored ==
    ~request.failed /\ ~gone =>
        \A l \in Layers : shown[l] \in {"done", "exists"} => content[l] = "stored"

\* A request that returns has told a client that is still there how it ended:
\* every layer is done or was there before, or there was an error.  Only a pull
\* that fails in PostPull or StoreImageReference ends ("unstored") with every
\* layer shown to be there and no error, as its stream is closed by then.
OutcomeIsShown ==
    request.at \in AfterStream /\ ~gone =>
        IF request.failed /\ request.at # "unstored" THEN shown[Failure] = Failure
        ELSE \A l \in Layers : shown[l] \in {"done", "exists"} /\ shown[Failure] = None

\* The request returns, whatever the client does and although both goroutines
\* write to a channel with little room.
RequestEnds == On("progress") ~> request.at \in {"unresolved", "unstored", "returned"}

\* The progress of a pull or push is true, and the request ends.
ProgressIsShown ==
    /\ [](StreamTypeOK /\ NoWriteAfterClose /\ ShownIsStored /\ OutcomeIsShown)
    /\ RequestEnds
=============================================================================
