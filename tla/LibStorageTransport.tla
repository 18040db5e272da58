------------------------- MODULE LibStorageTransport -------------------------
(* LibStorageTransport (src/core/LibStorageTransport.{h,cpp}): the storage    *)
(* node inside the process, under StorageClient.  An upload is two calls of   *)
(* the library (a session, then the file), a download one or two; each call   *)
(* takes a callback and a context on the heap, the library calls back on its  *)
(* own threads, and the callback posts a signal to the main thread and frees  *)
(* the context.                                                               *)
(*                                                                            *)
(* The library: a call it accepts is a job, which calls back any number of    *)
(* times with RET_PROGRESS and at most once with RET_OK or RET_ERR; a call it *)
(* refuses, and a node that was destroyed, do not call back.  Refused calls   *)
(* of StorageClient and setTimeoutMs, which the transport does not see, are   *)
(* in StorageClient.                                                          *)
EXTENDS Naturals, Sequences, FiniteSets

CONSTANTS
    Uploads, Downloads,     \* see StorageClient
    MaxCalls, MaxProgress,  \* bounds: requests made, progress callbacks
    NoRequest, Empty, ErrorText

ASSUME TransportAssumption ==
    /\ {MaxCalls, MaxProgress} \subseteq Nat
    /\ Uploads \intersect Downloads = {}
    /\ {NoRequest, Empty, ErrorText} \intersect (Uploads \union Downloads) = {}
    /\ Empty # ErrorText

VARIABLES
    \* StorageClient
    alive, subscribed, timeoutOn, pending, timers, called, replies,
    \* LibStorageTransport
    node,           \* m_ctx is not null
    ready,          \* m_ready
    entering,       \* the request uploadUrl or downloadToUrl is about to get
    posted,         \* signals on their way to the main thread
    contexts,       \* contexts on the heap
    \* the library
    jobs,           \* accepted calls that have not ended; they need not end
    progress,
    said            \* history: the callbacks about a request that the code
                    \* mistakes for its end; "new" of NoRequest: storage_new
                    \* called back

restVars == <<alive, subscribed, timeoutOn, called>>
slotVars == <<pending, timers, replies>>
libVars == <<jobs, contexts, progress, said>>
vars == <<restVars, slotVars, node, ready, entering, posted, libVars>>

\* Requests in the hands of the transport or of the library.
Working ==
    {r \in Uploads \union Downloads :
        \/ entering = r
        \/ \E j \in jobs : j.of = r
        \/ \E i \in DOMAIN posted : posted[i].of = r}

Client == INSTANCE StorageClient
            WITH connected <- ready, working <- Working,
                 Repeats <- TRUE, ForeignTexts <- {}, MaxArgs <- 1

Requests == Uploads \union Downloads
Owners == Requests \union {NoRequest}
Rets == {"ok", "error", "silent", "progress"}     \* silent: RET_ERR, no message
Sayings == {"progress", "new"}
Calls == {"start", "upload init", "upload file", "download init", "download stream"}
Jobs == [what : Calls, of : Owners, nth : 0..MaxProgress]
Signals == {"started", "init done", "file done", "download done"}

Job(what, r) == [what |-> what, of |-> r, nth |-> progress]

\* StartCtx, UploadInitCtx, UploadFileCtx, DownloadCtx: storage_new shares its
\* context with storage_start, the stream of a download with its init.
Context(j) ==
    <<IF j.what \in {"download init", "download stream"} THEN "download" ELSE j.what, j.of>>

TransportInit ==
    /\ node = FALSE /\ ready = FALSE
    /\ entering = NoRequest /\ posted = <<>>
    /\ contexts = {} /\ jobs = {} /\ progress = 0
    /\ said = [r \in Owners |-> {}]
    /\ Client!ClientInit

\* The main thread is not inside a call of the client.
Idle == alive /\ entering = NoRequest

Post(signal, r, ret) == posted' = Append(posted, [signal |-> signal, of |-> r, ret |-> ret])
Says(r, what) == said' = [said EXCEPT ![r] = @ \union {what}]

\* A new call of the library with a new context.
Accepted(what, r) ==
    /\ jobs' = jobs \union {Job(what, r)}
    /\ contexts' = contexts \union {Context(Job(what, r))}
    /\ UNCHANGED <<progress, said>>

\* fireEvent, inside the handler that calls it.
FireEvent(r, args) ==
    IF subscribed THEN Client!OnEventResponse(Client!Kind(r), args)
                  ELSE UNCHANGED slotVars

-----------------------------------------------------------------------------
\* start.  When storage_new or storage_start refuses there is no node and it can
\* be called again.  storage_new got cbStart too, and may have called it (and
\* freed the context) by the time storage_start returns.
Start ==
    /\ Idle /\ ~node
    /\ \E accepted, newCalls \in BOOLEAN :
         /\ node' = accepted
         /\ IF accepted THEN jobs' = jobs \union {Job("start", NoRequest)}
                        ELSE UNCHANGED jobs
         /\ IF newCalls
            THEN /\ "new" \notin said[NoRequest] /\ Says(NoRequest, "new")
                 /\ Post("started", NoRequest, "ok")
                 /\ UNCHANGED contexts
            ELSE /\ UNCHANGED <<said, posted>>
                 /\ contexts' = IF accepted THEN contexts \union {<<"start", NoRequest>>}
                                            ELSE contexts
    /\ UNCHANGED <<restVars, slotVars, ready, entering, progress>>

\* StorageClient takes the request and hands it over, next, in the same call.
Call(r) ==
    /\ Idle /\ Cardinality(called) < MaxCalls
    /\ r \notin called /\ Client!Verdict(r, TRUE) = "taken"
    /\ entering' = r
    /\ UNCHANGED <<node, ready, posted, libVars>>
    /\ Client!Call(r, TRUE)

\* Fault: a node that is said to be ready is taken to be there.
UrlWithoutNode(r) ==
    /\ entering = r /\ entering' = NoRequest
    /\ \/ /\ FireEvent(r, IF r \in Uploads THEN <<>> ELSE <<ErrorText>>)
          /\ UNCHANGED libVars
       \/ /\ ready
          /\ Accepted(IF r \in Uploads THEN "upload init" ELSE "download init", r)
          /\ UNCHANGED slotVars
    /\ UNCHANGED <<restVars, node, ready, posted>>

\* uploadUrl, downloadToUrl: without a node, or when the library refuses, the
\* failure is announced before they return.
UploadOrDownloadUrl(r) ==
    /\ entering = r /\ entering' = NoRequest
    /\ \/ /\ FireEvent(r, IF r \in Uploads THEN <<>> ELSE <<ErrorText>>)
          /\ UNCHANGED libVars
       \/ /\ node /\ ready
          /\ Accepted(IF r \in Uploads THEN "upload init" ELSE "download init", r)
          /\ UNCHANGED slotVars
    /\ UNCHANGED <<restVars, node, ready, posted>>

-----------------------------------------------------------------------------
\* The library's side of a callback: a job ends with RET_OK or RET_ERR.
JobSays(j, ret) ==
    /\ alive
    /\ IF ret = "progress"
       THEN progress < MaxProgress /\ progress' = progress + 1 /\ UNCHANGED jobs
       ELSE jobs' = jobs \ {j} /\ UNCHANGED progress
    /\ IF j.what = "upload init" /\ ret = "progress" THEN Says(j.of, "progress")
                                                     ELSE UNCHANGED said
    /\ UNCHANGED <<restVars, slotVars, node, ready, entering>>

\* A context that was freed before is used as if it were still there.
Free(j) == contexts' = contexts \ {Context(j)}
FreeUnlessProgress(j, ret) == IF ret = "progress" THEN UNCHANGED contexts ELSE Free(j)

\* cbStart: any RET_PROGRESS counts as a failed start.
CbStart(j, ret) ==
    /\ j.what = "start" /\ JobSays(j, ret)
    /\ Post("started", NoRequest, ret)
    /\ FreeUnlessProgress(j, ret)

\* Fault: the context is freed whatever the library says.
CbUploadInitFreesAlways(j, ret) ==
    /\ j.what = "upload init" /\ ret # "silent" /\ JobSays(j, ret)
    /\ Post("init done", j.of, ret)
    /\ Free(j)

\* cbUploadInit: RET_PROGRESS is posted as a failure.
CbUploadInit(j, ret) ==
    /\ j.what = "upload init" /\ ret # "silent" /\ JobSays(j, ret)
    /\ Post("init done", j.of, ret)
    /\ FreeUnlessProgress(j, ret)

\* Fault: RET_PROGRESS is not told from a failure.
CbUploadFileNoProgress(j, ret) ==
    /\ j.what = "upload file" /\ ret # "silent" /\ JobSays(j, ret)
    /\ Post("file done", j.of, ret) /\ FreeUnlessProgress(j, ret)

CbUploadFile(j, ret) ==
    /\ j.what = "upload file" /\ ret # "silent" /\ JobSays(j, ret)
    /\ IF ret = "progress" THEN UNCHANGED <<posted, contexts>>
                           ELSE Post("file done", j.of, ret) /\ Free(j)

\* cbDownloadStream: RET_OK or RET_ERR, of the init or of a stream, ends the
\* download; every RET_PROGRESS, of either, starts a stream on the same context.
CbDownloadStream(j, ret) ==
    /\ j.what \in {"download init", "download stream"}
    /\ \/ /\ ret # "progress" /\ JobSays(j, ret)
          /\ Post("download done", j.of, ret) /\ Free(j)
       \/ /\ ret = "progress" /\ progress < MaxProgress
          /\ progress' = progress + 1 /\ Says(j.of, "progress")
          /\ \/ /\ jobs' = jobs \union {[Job("download stream", j.of) EXCEPT !.nth = progress']}
                /\ UNCHANGED <<posted, contexts>>
             \/ /\ Post("download done", j.of, "error") /\ Free(j)
                /\ UNCHANGED jobs
          /\ UNCHANGED <<restVars, slotVars, node, ready, entering>>

CallsBack(j, ret) ==
    \/ CbStart(j, ret)
    \/ CbUploadInit(j, ret)
    \/ CbUploadFile(j, ret)
    \/ CbDownloadStream(j, ret)

-----------------------------------------------------------------------------
\* The main thread's handler of a posted signal.
Delivered(signal) ==
    /\ Idle /\ posted # <<>> /\ Head(posted).signal = signal
    /\ posted' = Tail(posted)
    /\ UNCHANGED <<restVars, node, entering>>

OnStorageStarted ==
    /\ Delivered("started")
    /\ ready' = (ready \/ Head(posted).ret = "ok")
    /\ UNCHANGED <<slotVars, libVars>>

\* onUploadInitDone: the file is uploaded under the session, if there is one.
OnUploadInitDone ==
    /\ Delivered("init done")
    /\ \/ FireEvent(Head(posted).of, <<>>) /\ UNCHANGED libVars
       \/ /\ Head(posted).ret = "ok"
          /\ Accepted("upload file", Head(posted).of)
          /\ UNCHANGED slotVars
    /\ UNCHANGED ready

\* Fault: the CID is announced under the name of the other event.
OnUploadFileDoneWrongEvent ==
    /\ Delivered("file done")
    /\ IF Head(posted).ret = "ok"
       THEN Client!OnEventResponse("download", <<Head(posted).of>>)
       ELSE FireEvent(Head(posted).of, <<>>)
    /\ UNCHANGED <<ready, libVars>>

OnUploadFileDone ==
    /\ Delivered("file done")
    /\ FireEvent(Head(posted).of, IF Head(posted).ret = "ok" THEN <<Head(posted).of>> ELSE <<>>)
    /\ UNCHANGED <<ready, libVars>>

\* onDownloadDone: an error without a message is an empty argument.
OnDownloadDone ==
    /\ Delivered("download done")
    /\ FireEvent(Head(posted).of, CASE Head(posted).ret = "ok" -> <<>>
                                    [] Head(posted).ret = "silent" -> <<Empty>>
                                    [] OTHER -> <<ErrorText>>)
    /\ UNCHANGED <<ready, libVars>>

TimerFires(r) ==
    /\ Idle
    /\ UNCHANGED <<node, ready, entering, posted, libVars>>
    /\ Client!TimerFires(r)

\* ~StorageClient and ~LibStorageTransport: the node is destroyed and what was
\* posted dies with the receiver.
Destroy ==
    /\ Idle
    /\ node' = FALSE /\ posted' = <<>> /\ jobs' = {}
    /\ UNCHANGED <<ready, entering, contexts, progress, said>>
    /\ Client!Destroy

-----------------------------------------------------------------------------
TransportNext ==
    \/ Start
    \/ \E r \in Requests : Call(r)
    \/ \E r \in Requests : UploadOrDownloadUrl(r)
    \/ \E j \in jobs, ret \in Rets : CallsBack(j, ret)
    \/ OnStorageStarted
    \/ OnUploadInitDone
    \/ OnUploadFileDone
    \/ OnDownloadDone
    \/ \E r \in Requests : TimerFires(r)
    \/ Destroy

TransportSpec == TransportInit /\ [][TransportNext]_vars

\* The main thread goes on with a call it is in, and delivers expired timers.
FairTransportSpec ==
    /\ TransportSpec
    /\ \A r \in Requests : WF_vars(UploadOrDownloadUrl(r)) /\ WF_vars(TimerFires(r))

-----------------------------------------------------------------------------
TransportTypeOK ==
    /\ Client!TypeOK
    /\ node \in BOOLEAN
    /\ entering \in Owners
    /\ posted \in Seq([signal : Signals, of : Owners, ret : Rets])
    /\ jobs \subseteq Jobs /\ progress \in 0..MaxProgress
    /\ contexts \subseteq {"start", "upload init", "upload file", "download"} \X Owners
    /\ jobs # {} => node
    /\ said \in [Owners -> SUBSET Sayings]

\* A context belongs to the jobs that will call back with it: none is freed
\* before its last callback, and none is left when there is nothing to come.
\* Not so for the node's when storage_new called back, nor for a download's
\* after a progress callback.
ContextsOwned ==
    alive =>
        \A c \in contexts \union {Context(j) : j \in jobs} :
            \/ c \in contexts /\ \E j \in jobs : Context(j) = c
            \/ c[1] = "start" /\ "new" \in said[NoRequest]
            \/ c[1] = "download" /\ "progress" \in said[c[2]]

\* StorageClient.h: completions are told apart by the order of events alone.
\* Over this transport an upload is handed its own CID as long as none timed
\* out and no session was told of progress (which cbUploadInit takes for a
\* failure).
OwnCidUnlessProgress ==
    (\A r \in Uploads : ~Client!GivenUp(r) /\ "progress" \notin said[r])
        => Client!OwnCid

\* Whatever the library does, the transport gives StorageClient no event it is
\* not made for: the composition is a behaviour of StorageClient over a module
\* that may announce a completion twice.
ImplementsClient == Client!ClientSpec

\* A request with a timer is answered, also by this transport.
TimedRequestsAnswered == Client!TimedRequestsAnswered
==============================================================================
