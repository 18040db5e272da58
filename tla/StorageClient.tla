---------------------------- MODULE StorageClient ----------------------------
(* StorageClient (src/core/StorageClient.{h,cpp}): the wrapper NotesBackend   *)
(* uses to send a backup to the storage module and to fetch one.  There is    *)
(* one slot for an upload and one for a download; a slot is filled by a call  *)
(* and emptied by a "*Done" event, by the slot's timer or by the destructor.  *)
(* Events carry no request identifier: whatever "storageUploadDone" arrives   *)
(* completes the request that is in the slot at that moment.                  *)
(*                                                                            *)
(* Everything runs on the Qt main thread, so a handler is one action.  The    *)
(* callback is invoked after the slot is freed, at the end of a handler, so a *)
(* request it makes itself is a Call in the state the handler leaves.         *)
(*                                                                            *)
(* Texts: a request is its own CID (every upload has its own, a download      *)
(* names it), an args entry that is empty or not a string is Empty.           *)
EXTENDS Naturals, Sequences

CONSTANTS
    Uploads, Downloads,     \* the calls of uploadFile and of downloadToFile
    ForeignTexts,           \* texts in events caused by another consumer of
                            \* the storage module; {}: there is no other one
    MaxArgs,                \* bound: entries in an event's args
    Repeats,                \* may the module announce one completion twice?
    NoRequest, Empty, ErrorText

Requests == Uploads \union Downloads
Kinds == {"upload", "download"}
Kind(r) == IF r \in Uploads THEN "upload" ELSE "download"
Texts == Requests \union ForeignTexts \union {Empty, ErrorText}

ASSUME ClientAssumption ==
    /\ Uploads \intersect Downloads = {}
    /\ {NoRequest, Empty, ErrorText} \intersect (Requests \union ForeignTexts) = {}
    /\ Empty # ErrorText
    /\ Requests \intersect ForeignTexts = {}
    /\ MaxArgs \in Nat
    /\ Repeats \in BOOLEAN

Refusals == {"unavailable", "busy", "invalid"}
Closings == {"done", "timeout", "destroyed"}

\* One invocation of a callback: why it was made, and the text it was handed:
\* the CID for a completed upload (Empty: "no CID in response"), the error for
\* a completed download (Empty: success).
Replies == [why : Refusals \union Closings, text : Texts]

VARIABLES
    alive,          \* the StorageClient exists
    connected,      \* m_transport->isConnected()
    subscribed,     \* m_subscribed
    timeoutOn,      \* m_timeoutMs > 0
    pending,        \* m_pendingUpload, m_pendingDownload
    timers,         \* requests whose QTimer is running
    working,        \* requests the storage module has and has not finished
    called,         \* history: requests made so far
    replies         \* history: per request, the invocations of its callback

vars == <<alive, connected, subscribed, timeoutOn, pending, timers, working,
          called, replies>>

ClientInit ==
    /\ alive = TRUE
    /\ connected \in BOOLEAN
    /\ subscribed = FALSE
    /\ timeoutOn = TRUE
    /\ pending = [k \in Kinds |-> NoRequest]
    /\ timers = {}
    /\ working = {}
    /\ called = {}
    /\ replies = [r \in Requests |-> <<>>]

Reply(r, why, text) ==
    replies' = [replies EXCEPT ![r] = Append(@, [why |-> why, text |-> text])]

\* Fault: the timer of a finished request is left running.
FailPendingTimerLeft(k, why, text, running) ==
    /\ pending' = [pending EXCEPT ![k] = NoRequest]
    /\ timers' = running
    /\ Reply(pending[k], why, text)

\* failPendingUpload, failPendingDownload: the slot is emptied and the timer
\* stopped before the callback runs.  running: the timers that still run when
\* the handler is entered.
FailPending(k, why, text, running) ==
    /\ pending' = [pending EXCEPT ![k] = NoRequest]
    /\ timers' = running \ {pending[k]}
    /\ Reply(pending[k], why, text)

-----------------------------------------------------------------------------
\* Fault: a second request is not refused while the slot is taken.
VerdictNotBusy(r, argsOk) ==
    IF ~connected THEN "unavailable"
    ELSE IF ~argsOk THEN "invalid"
    ELSE "taken"

\* The checks of uploadFile and downloadToFile, in their order.  argsOk: the
\* file exists; the CID and the destination are not empty.
Verdict(r, argsOk) ==
    IF ~connected THEN "unavailable"
    ELSE IF pending[Kind(r)] # NoRequest THEN "busy"
    ELSE IF ~argsOk THEN "invalid"
    ELSE "taken"

\* Fault: the timer is taken from the slot before the request is in it.
TakeTimerTooEarly(r) ==
    /\ subscribed' = TRUE
    /\ pending' = [pending EXCEPT ![Kind(r)] = r]
    /\ timers' = IF timeoutOn THEN timers \union {pending[Kind(r)]} ELSE timers
    /\ working' = working \union {r}
    /\ UNCHANGED replies

\* The slot is built, with its timer, before the transport is invoked.
Take(r) ==
    /\ subscribed' = TRUE
    /\ pending' = [pending EXCEPT ![Kind(r)] = r]
    /\ timers' = IF timeoutOn THEN timers \union {r} ELSE timers
    /\ working' = working \union {r}
    /\ UNCHANGED replies

Call(r, argsOk) ==
    /\ alive
    /\ r \notin called
    /\ called' = called \union {r}
    /\ IF Verdict(r, argsOk) = "taken"
       THEN Take(r)
       ELSE Reply(r, Verdict(r, argsOk), Empty)
            /\ UNCHANGED <<subscribed, pending, timers, working>>
    /\ UNCHANGED <<alive, connected, timeoutOn>>

-----------------------------------------------------------------------------
\* The text onEventResponse takes for the CID: the last non-empty entry.
IsCid(args, text) ==
    \/ /\ text = Empty
       /\ \A i \in DOMAIN args : args[i] = Empty
    \/ \E i \in DOMAIN args :
         /\ args[i] = text /\ text # Empty
         /\ \A j \in DOMAIN args : j > i => args[j] = Empty

\* The text it takes for a download error: the first entry that is neither
\* empty nor the CID asked for.
IsError(args, cid, text) ==
    \/ /\ text = Empty
       /\ \A i \in DOMAIN args : args[i] \in {Empty, cid}
    \/ \E i \in DOMAIN args :
         /\ args[i] = text /\ text \notin {Empty, cid}
         /\ \A j \in DOMAIN args : j < i => args[j] \in {Empty, cid}

\* onEventResponse for a "*Done" event: stray when the slot is empty.
OnEventResponse(k, args) ==
    IF pending[k] = NoRequest
    THEN UNCHANGED <<pending, timers, replies>>
    ELSE \E text \in Texts :
           /\ IF k = "upload" THEN IsCid(args, text)
                              ELSE IsError(args, pending[k], text)
           /\ FailPending(k, "done", text, timers)

\* What an event about request r may carry: for an upload its CID or nothing,
\* for a download the CID, an error, or nothing (the layouts of the args are
\* not pinned down by the storage module: empty entries may surround them).
ArgsOver(S) == UNION {[1..n -> S] : n \in 0..MaxArgs}
EventArgs(r) == ArgsOver(IF r \in Uploads THEN {Empty, r} ELSE {Empty, r, ErrorText})

\* The storage module finishes r (or claims to: cbUploadInit of
\* LibStorageTransport reports a failure for a mere progress callback).
Event(r, args) ==
    /\ alive /\ subscribed
    /\ r \in working
    /\ \/ working' = working \ {r}
       \/ Repeats /\ UNCHANGED working
    /\ OnEventResponse(Kind(r), args)
    /\ UNCHANGED <<alive, connected, subscribed, timeoutOn, called>>

\* An event caused by another consumer of the storage module.
StrayEvent(k, args) ==
    /\ alive /\ subscribed
    /\ OnEventResponse(k, args)
    /\ UNCHANGED <<alive, connected, subscribed, timeoutOn, working, called>>

\* The module or the network loses r: no event will come.
Lose(r) ==
    /\ r \in working
    /\ working' = working \ {r}
    /\ UNCHANGED <<alive, connected, subscribed, timeoutOn, pending, timers,
                   called, replies>>

-----------------------------------------------------------------------------
\* Fault: the time-out is logged and the slot left as it is.
TimerFiresOnlyLogs(r) ==
    /\ r \in timers
    /\ timers' = timers \ {r}
    /\ UNCHANGED <<alive, connected, subscribed, timeoutOn, pending, working,
                   called, replies>>

\* onUploadTimeout, onDownloadTimeout: the single-shot timer of request r
\* fires; the handler fails whatever is in the slot.
TimerFires(r) ==
    /\ r \in timers
    /\ IF pending[Kind(r)] = NoRequest
       THEN timers' = timers \ {r} /\ UNCHANGED <<pending, replies>>
       ELSE FailPending(Kind(r), "timeout", Empty, timers \ {r})
    /\ UNCHANGED <<alive, connected, subscribed, timeoutOn, working, called>>

\* setTimeoutMs: affects the requests started afterwards; 0 disables.
SetTimeoutMs(on) ==
    /\ alive
    /\ timeoutOn' = on
    /\ UNCHANGED <<alive, connected, subscribed, pending, timers, working,
                   called, replies>>

ConnectionChanges ==
    /\ alive
    /\ connected' = ~connected
    /\ UNCHANGED <<alive, subscribed, timeoutOn, pending, timers, working,
                   called, replies>>

\* Fault: the requests in the slots are dropped unanswered.
DestroySilently ==
    /\ alive
    /\ alive' = FALSE
    /\ pending' = [k \in Kinds |-> NoRequest]
    /\ timers' = {}
    /\ working' = {}
    /\ UNCHANGED <<connected, subscribed, timeoutOn, called, replies>>

\* ~StorageClient: both slots are failed; the transport goes with the client.
Destroy ==
    /\ alive
    /\ alive' = FALSE
    /\ pending' = [k \in Kinds |-> NoRequest]
    /\ timers' = {}
    /\ working' = {}
    /\ replies' = [r \in Requests |->
                     IF pending[Kind(r)] = r
                     THEN Append(replies[r], [why |-> "destroyed", text |-> Empty])
                     ELSE replies[r]]
    /\ UNCHANGED <<connected, subscribed, timeoutOn, called>>

-----------------------------------------------------------------------------
Calls == \E r \in Requests, argsOk \in BOOLEAN : Call(r, argsOk)
Events == \E r \in Requests : \E args \in EventArgs(r) : Event(r, args)
StrayEvents == /\ ForeignTexts # {}
               /\ \E k \in Kinds : \E args \in ArgsOver(ForeignTexts \union {Empty}) :
                    StrayEvent(k, args)
Losses == \E r \in Requests : Lose(r)
Timeouts == \E r \in Requests : TimerFires(r)

ClientNext ==
    \/ Calls
    \/ Events
    \/ StrayEvents
    \/ Losses
    \/ Timeouts
    \/ \E on \in BOOLEAN : SetTimeoutMs(on)
    \/ ConnectionChanges
    \/ Destroy

ClientSpec == ClientInit /\ [][ClientNext]_vars

-----------------------------------------------------------------------------
TypeOK ==
    /\ alive \in BOOLEAN
    /\ connected \in BOOLEAN
    /\ subscribed \in BOOLEAN
    /\ timeoutOn \in BOOLEAN
    /\ pending \in [Kinds -> Requests \union {NoRequest}]
    /\ timers \in SUBSET Requests
    /\ working \in SUBSET Requests
    /\ called \in SUBSET Requests
    /\ replies \in [Requests -> Seq(Replies)]

Pending(r) == pending[Kind(r)] = r
GivenUp(r) == \E i \in DOMAIN replies[r] : replies[r][i].why = "timeout"

\* StorageClient.h: "Callback fires exactly once".  A request that was made is
\* either in its slot and unanswered, or out of it and answered once; after the
\* destructor nothing is left in a slot.
ExactlyOnce ==
    /\ \A r \in Requests :
         Len(replies[r]) = IF r \in called /\ ~Pending(r) THEN 1 ELSE 0
    /\ \A r \in Requests : Pending(r) => r \in called /\ alive

\* A timer runs only for the request that is in the slot: a request that is
\* over leaves no timer behind that would cut the next one short.
NoOrphanTimer == \A r \in timers : Pending(r)

\* StorageClient.h: the single-in-flight restriction "makes the
\* FIFO-by-event-name completion routing safe" (onEventResponse): an upload is
\* never handed the CID of something else.
OwnCid ==
    \A r \in Uploads : \A i \in DOMAIN replies[r] : replies[r][i].text \in {r, Empty}

\* What the restriction does ensure: as long as no upload has timed out, no
\* other consumer's events are seen and the module announces a completion
\* once, an upload is handed its own CID.  (After one timeout all later uploads
\* can be off by one: each takes its predecessor's event for its own.)
OwnCidUntilTimeout ==
    (ForeignTexts = {} /\ ~Repeats /\ \A r \in Uploads : ~GivenUp(r)) => OwnCid

\* A timeout is charged to the request whose own timer ran out: in the step
\* that fails a request with a time-out, that request's timer is the one that
\* is gone, and every other timer runs on.  (onUploadTimeout and
\* onDownloadTimeout fail whatever is in the slot, without asking whose timer
\* it was: the timer of an earlier request would fail its successor, and that
\* step would take two timers away.)
TimeoutIsOwn ==
    [][\A r \in Requests : GivenUp(r)' /\ ~GivenUp(r) =>
           r \in timers /\ timers' = timers \ {r}]_vars

\* StorageClient.h: "If the corresponding storage*Done event does not arrive
\* within the timeout, the callback fires with a timeout error": a request with
\* a timer is answered whatever the storage module does.
TimedRequestsAnswered ==
    \A r \in Requests : r \in timers ~> replies[r] # <<>>

-----------------------------------------------------------------------------
\* How far a request has come, for the promise StorageClient makes its caller.
\* A request answered twice would be at no stage of it.
Progress ==
    [r \in Requests |->
        IF Pending(r) THEN "open"
        ELSE IF replies[r] = <<>> THEN "idle"
        ELSE IF Len(replies[r]) > 1 THEN "answered twice"
        ELSE IF replies[r][1].why \in Refusals THEN "refused" ELSE "answered"]

OneShot == INSTANCE OneShotRequests WITH progress <- Progress, KindOf <- Kind

\* The client keeps the promise of OneShotRequests.
KeepsPromise == OneShot!Promise
==============================================================================
