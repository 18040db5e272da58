--------------------- MODULE LibStorageTransport_proofs ---------------------
(* Theorems about LibStorageTransport for every set of requests and any       *)
(* number of progress callbacks.                                              *)
(*                                                                            *)
(* Whose context a callback frees and whom a posted signal completes depends  *)
(* on how many calls of the library a request has under way: one at a time    *)
(* (OneAtATime), unless the library reported progress, which cbUploadInit     *)
(* posts as one more answer and cbDownloadStream answers with one more call.  *)
EXTENDS LibStorageTransport, SequenceTheorems, TLAPS

\* What a job or a signal is about.
Kinded ==
    /\ \A j \in jobs :
         /\ j.what = "start" => j.of = NoRequest
         /\ j.what \in {"upload init", "upload file"} => j.of \in Uploads
         /\ j.what \in {"download init", "download stream"} => j.of \in Downloads
         /\ j.what = "download stream" => "progress" \in said[j.of]
    /\ \A i \in DOMAIN posted :
         /\ posted[i].signal = "started" => posted[i].of = NoRequest
         /\ posted[i].signal \in {"init done", "file done"} => posted[i].of \in Uploads
         /\ posted[i].signal = "download done" => posted[i].of \in Downloads

\* News of a request comes from a node.
NodeThere == \A i \in DOMAIN posted : posted[i].of # NoRequest => node

\* Only requests that were made are with the transport or in a slot, and each in
\* the slot of its kind.
Made ==
    /\ Working \subseteq called
    /\ \A k \in {"upload", "download"} : pending[k] # NoRequest =>
         pending[k] \in called /\ Client!Kind(pending[k]) = k
    /\ entering # NoRequest => alive

\* The posted signals about r that count as a step of its upload or download:
\* all of them, or those with a session once the library has reported progress.
Counts(r) ==
    {i \in DOMAIN posted :
        /\ posted[i].of = r
        /\ \/ "progress" \notin said[r]
           \/ posted[i].signal = "init done" /\ posted[i].ret = "ok"}

\* A request is about to enter the library, or has one call there, or one signal
\* on its way.
Single(r) ==
    /\ entering = r => Counts(r) = {} /\ \A j \in jobs : j.of # r
    /\ \A j, k \in jobs : j.of = r /\ k.of = r => j = k
    /\ \A i, k \in Counts(r) : i = k
    /\ Counts(r) # {} => \A j \in jobs : j.of # r

OneAtATime ==
    /\ \A r \in Requests : (r \in Uploads \/ "progress" \notin said[r]) => Single(r)
    /\ \A j, k \in jobs : j.of = NoRequest /\ k.of = NoRequest => j = k

\* Nothing of this kind has timed out or met progress.
Smooth(S) == \A r \in S : ~Client!GivenUp(r) /\ "progress" \notin said[r]

\* Then the transport works on what is in the slot of its kind.
UploadRouting ==
    Smooth(Uploads) =>
        Client!OwnCid /\ \A r \in Uploads \intersect Working : pending["upload"] = r

TransportInv ==
    /\ TransportTypeOK
    /\ Kinded /\ NodeThere /\ Made /\ OneAtATime
    /\ ContextsOwned
    /\ UploadRouting
-----------------------------------------------------------------------------
(* Queues.                                                                   *)

\* Append adds one position.
LEMMA AppendFacts ==
    ASSUME NEW S, NEW s \in Seq(S), NEW e \in S
    PROVE  /\ Append(s, e) \in Seq(S)
           /\ \A i \in DOMAIN s : i \in DOMAIN Append(s, e) /\ Append(s, e)[i] = s[i]
           /\ \E n \in DOMAIN Append(s, e) : /\ Append(s, e)[n] = e /\ n \notin DOMAIN s
                                             /\ DOMAIN Append(s, e) = DOMAIN s \union {n}
<1>. DEFINE l == Len(s)
            a == Append(s, e)
<1>1. l \in Nat /\ DOMAIN s = 1 .. l
  BY LenProperties
<1>2. /\ a \in Seq(S) /\ Len(a) = l + 1
      /\ \A i \in 1 .. l : a[i] = s[i]
      /\ a[l + 1] = e
  BY AppendProperties
<1>3. DOMAIN a = 1 .. (l + 1)
  <2>. HIDE DEF l, a
  <2>. QED
    BY <1>2, LenProperties
<1>. HIDE DEF l, a
<1>5. l + 1 \in DOMAIN a /\ l + 1 \notin DOMAIN s /\ DOMAIN a = DOMAIN s \union {l + 1}
  BY <1>1, <1>3
<1>6. \A i \in DOMAIN s : i \in DOMAIN a /\ a[i] = s[i]
  BY <1>1, <1>2, <1>5
<1>. QED
  BY <1>2, <1>5, <1>6 DEF a

\* Tail drops the first position and moves the others down.
LEMMA TailFacts ==
    ASSUME NEW S, NEW s \in Seq(S), s # << >>
    PROVE  /\ Tail(s) \in Seq(S) /\ 1 \in DOMAIN s /\ Head(s) = s[1] /\ Head(s) \in S
           /\ \A i \in DOMAIN Tail(s) : i + 1 \in DOMAIN s /\ Tail(s)[i] = s[i + 1] /\ i + 1 # 1
           /\ \A i, k \in DOMAIN Tail(s) : i + 1 = k + 1 => i = k
           /\ \A n \in DOMAIN s : n # 1 => \E i \in DOMAIN Tail(s) : n = i + 1
<1>. DEFINE l == Len(s)
            a == Tail(s)
<1>1. l \in Nat /\ DOMAIN s = 1 .. l
  BY LenProperties
<1>2. a \in Seq(S) /\ Len(a) = l - 1 /\ (\A i \in 1 .. Len(a) : a[i] = s[i + 1]) /\ Head(s) \in S
  BY HeadTailProperties
<1>3. l # 0
  BY EmptySeq
<1>4. DOMAIN a = 1 .. (l - 1)
  <2>. HIDE DEF l, a
  <2>. QED
    BY <1>2, LenProperties
<1>5. Head(s) = s[1]
  OBVIOUS
<1>. HIDE DEF l, a
<1>6. \A i \in DOMAIN a : i + 1 \in DOMAIN s /\ i + 1 # 1
  BY <1>1, <1>4
<1>7. \A i \in DOMAIN a : a[i] = s[i + 1]
  BY <1>1, <1>2, <1>4
<1>8. \A i, k \in DOMAIN a : i + 1 = k + 1 => i = k
  BY <1>4, <1>1
<1>9. ASSUME NEW n \in DOMAIN s, n # 1
      PROVE  \E i \in DOMAIN a : n = i + 1
  <2>1. n - 1 \in DOMAIN a /\ n = (n - 1) + 1
    BY <1>1, <1>4, <1>9
  <2>. QED
    BY <2>1
<1>10. 1 \in DOMAIN s
  BY <1>1, <1>3
<1>. QED
  BY <1>2, <1>5, <1>6, <1>7, <1>8, <1>9, <1>10 DEF a

-----------------------------------------------------------------------------
(* The client.                                                               *)

LEMMA ClientNames ==
    /\ Client!Requests = Requests /\ Client!Kinds = {"upload", "download"}
    /\ \A r \in Uploads : Client!Kind(r) = "upload"
    /\ \A r \in Downloads : Client!Kind(r) = "download"
    /\ \A r : Client!Kind(r) \in {"upload", "download"}
    /\ Requests \subseteq Client!Texts /\ Empty \in Client!Texts /\ ErrorText \in Client!Texts
BY TransportAssumption DEF Client!Requests, Requests, Client!Kinds, Client!Kind, Client!Texts

LEMMA Markers ==
    /\ NoRequest \notin Requests /\ Empty \notin Requests /\ ErrorText \notin Requests
    /\ Empty # ErrorText /\ Uploads \intersect Downloads = {}
BY TransportAssumption DEF Requests

LEMMA WorkingRequests == Working \subseteq Requests
BY DEF Working, Requests

LEMMA TransportTypes ==
    ASSUME TransportTypeOK
    PROVE  /\ alive \in BOOLEAN /\ subscribed \in BOOLEAN /\ timeoutOn \in BOOLEAN /\ ready \in BOOLEAN
           /\ pending \in [{"upload", "download"} -> Requests \union {NoRequest}]
           /\ timers \in SUBSET Requests /\ called \in SUBSET Requests
           /\ replies \in [Requests -> Seq(Client!Replies)]
           /\ posted \in Seq([signal : Signals, of : Owners, ret : Rets])
           /\ jobs \subseteq Jobs /\ progress \in 0..MaxProgress
           /\ said \in [Owners -> SUBSET Sayings]
BY ClientNames DEF TransportTypeOK, Client!TypeOK

\* The client's types, from those of what the step changes.
LEMMA ClientTypesAfter ==
    ASSUME TransportTypeOK, alive' \in BOOLEAN, ready' \in BOOLEAN, subscribed' \in BOOLEAN,
           UNCHANGED timeoutOn,
           pending' \in [{"upload", "download"} -> Requests \union {NoRequest}],
           timers' \in SUBSET Requests, called' \in SUBSET Requests,
           replies' \in [Requests -> Seq(Client!Replies)]
    PROVE  Client!TypeOK'
<1>1. Working' \in SUBSET Requests
  BY DEF Working, Requests
<1>. QED
  BY <1>1, TransportTypes, ClientNames DEF Client!TypeOK

\* One invocation of a callback adds one entry to its request's history.
LEMMA ReplyMoves ==
    ASSUME TransportTypeOK, NEW r \in Requests, NEW why \in {"done", "timeout"},
           NEW text \in Client!Texts, Client!Reply(r, why, text)
    PROVE  /\ replies' \in [Requests -> Seq(Client!Replies)]
           /\ \A q \in Requests : q # r => replies'[q] = replies[q]
           /\ \A i \in DOMAIN replies[r] : i \in DOMAIN replies'[r] /\ replies'[r][i] = replies[r][i]
           /\ \A i \in DOMAIN replies'[r] :
                i \in DOMAIN replies[r] \/ replies'[r][i] = [why |-> why, text |-> text]
           /\ \E i \in DOMAIN replies'[r] : replies'[r][i] = [why |-> why, text |-> text]
<1>. DEFINE e == [why |-> why, text |-> text]
            R == Client!Replies
<1>1. e \in R
  BY DEF Client!Replies, Client!Closings
<1>2. replies \in [Requests -> Seq(R)] /\ replies[r] \in Seq(R)
  BY TransportTypes
<1>3. replies' = [replies EXCEPT ![r] = Append(replies[r], e)]
  BY DEF Client!Reply
<1>. HIDE DEF e, R
<1>4. /\ Append(replies[r], e) \in Seq(R)
      /\ \A i \in DOMAIN replies[r] :
           i \in DOMAIN Append(replies[r], e) /\ Append(replies[r], e)[i] = replies[r][i]
      /\ \E n \in DOMAIN Append(replies[r], e) :
           Append(replies[r], e)[n] = e /\ DOMAIN Append(replies[r], e) = DOMAIN replies[r] \union {n}
  BY <1>1, <1>2, AppendFacts
<1>5. replies'[r] = Append(replies[r], e) /\ (\A q \in Requests : q # r => replies'[q] = replies[q])
      /\ replies' \in [Requests -> Seq(R)]
  BY <1>2, <1>3, <1>4
<1>6. \A i \in DOMAIN replies'[r] : i \in DOMAIN replies[r] \/ replies'[r][i] = e
  BY <1>4, <1>5
<1>. QED
  BY <1>4, <1>5, <1>6 DEF e, R

-----------------------------------------------------------------------------
(* What the steps have in common.                                            *)

\* A signal joins those on their way to the main thread.
Posted(signal, r, ret) ==
    /\ posted' \in Seq([signal : Signals, of : Owners, ret : Rets])
    /\ \A i \in DOMAIN posted : i \in DOMAIN posted' /\ posted'[i] = posted[i]
    /\ \E n \in DOMAIN posted' :
         /\ posted'[n] = [signal |-> signal, of |-> r, ret |-> ret] /\ n \notin DOMAIN posted
         /\ DOMAIN posted' = DOMAIN posted \union {n}

LEMMA PostMoves ==
    ASSUME TransportTypeOK, NEW signal \in Signals, NEW r \in Owners, NEW ret \in Rets,
           Post(signal, r, ret)
    PROVE  Posted(signal, r, ret)
<1>. DEFINE S == [signal : Signals, of : Owners, ret : Rets]
            e == [signal |-> signal, of |-> r, ret |-> ret]
<1>1. posted \in Seq(S)
  BY TransportTypes
<1>2. e \in S
  OBVIOUS
<1>3. posted' = Append(posted, e)
  BY DEF Post
<1>. HIDE DEF S, e
<1>4. /\ posted' \in Seq(S)
      /\ \A i \in DOMAIN posted : i \in DOMAIN posted' /\ posted'[i] = posted[i]
      /\ \E n \in DOMAIN posted' : posted'[n] = e /\ n \notin DOMAIN posted
                                   /\ DOMAIN posted' = DOMAIN posted \union {n}
  BY <1>1, <1>2, <1>3, AppendFacts
<1>. QED
  BY <1>4 DEF Posted, S, e

\* The first signal is delivered, the others move up.
MovedUp ==
    /\ posted' \in Seq([signal : Signals, of : Owners, ret : Rets])
    /\ 1 \in DOMAIN posted /\ Head(posted) = posted[1]
    /\ Head(posted) \in [signal : Signals, of : Owners, ret : Rets]
    /\ \A i \in DOMAIN posted' :
         i + 1 \in DOMAIN posted /\ posted'[i] = posted[i + 1] /\ i + 1 # 1
    /\ \A i, k \in DOMAIN posted' : i + 1 = k + 1 => i = k
    /\ \A n \in DOMAIN posted : n # 1 => \E i \in DOMAIN posted' : n = i + 1

LEMMA DeliveredMoves ==
    ASSUME TransportTypeOK, NEW signal, Delivered(signal)
    PROVE  MovedUp
<1>. DEFINE S == [signal : Signals, of : Owners, ret : Rets]
<1>1. posted \in Seq(S) /\ posted # << >> /\ posted' = Tail(posted)
  BY TransportTypes DEF Delivered
<1>. HIDE DEF S
<1>2. /\ Tail(posted) \in Seq(S) /\ 1 \in DOMAIN posted /\ Head(posted) = posted[1] /\ Head(posted) \in S
      /\ \A i \in DOMAIN Tail(posted) :
           i + 1 \in DOMAIN posted /\ Tail(posted)[i] = posted[i + 1] /\ i + 1 # 1
      /\ \A i, k \in DOMAIN Tail(posted) : i + 1 = k + 1 => i = k
      /\ \A n \in DOMAIN posted : n # 1 => \E i \in DOMAIN Tail(posted) : n = i + 1
  BY <1>1, TailFacts
<1>. QED
  BY <1>1, <1>2 DEF MovedUp, S

\* What was said about a request is not forgotten, and callbacks already made
\* are not taken back.
Grown ==
    /\ said' \in [Owners -> SUBSET Sayings]
    /\ \A r \in Owners : said[r] \subseteq said'[r]
    /\ \A r \in Requests : \A i \in DOMAIN replies[r] :
         i \in DOMAIN replies'[r] /\ replies'[r][i] = replies[r][i]

LEMMA SaysMoves ==
    ASSUME TransportTypeOK, NEW r \in Owners, NEW what \in Sayings, Says(r, what)
    PROVE  /\ said' \in [Owners -> SUBSET Sayings]
           /\ \A q \in Owners : said[q] \subseteq said'[q]
           /\ \A q \in Owners : q # r => said'[q] = said[q]
           /\ said'[r] = said[r] \union {what}
BY TransportTypes DEF Says

LEMMA SmoothBefore ==
    ASSUME TransportTypeOK, Grown, NEW S \in SUBSET Requests, Smooth(S)'
    PROVE  Smooth(S)
<1>. SUFFICES ASSUME NEW r \in S
              PROVE  ~Client!GivenUp(r) /\ "progress" \notin said[r]
  BY DEF Smooth
<1>1. ~Client!GivenUp(r)' /\ "progress" \notin said'[r] /\ r \in Requests /\ r \in Owners
  BY DEF Smooth, Owners
<1>. QED
  BY <1>1 DEF Grown, Client!GivenUp

\* The slot of kind k is emptied and its callback made.
Answered(k, why, text) ==
    /\ pending[k] \in Requests
    /\ pending' = [pending EXCEPT ![k] = NoRequest]
    /\ timers' \in SUBSET Requests
    /\ replies' \in [Requests -> Seq(Client!Replies)]
    /\ \A q \in Requests : q # pending[k] => replies'[q] = replies[q]
    /\ \A i \in DOMAIN replies[pending[k]] :
         /\ i \in DOMAIN replies'[pending[k]]
         /\ replies'[pending[k]][i] = replies[pending[k]][i]
    /\ \A i \in DOMAIN replies'[pending[k]] :
         \/ i \in DOMAIN replies[pending[k]]
         \/ replies'[pending[k]][i] = [why |-> why, text |-> text]
    /\ \E i \in DOMAIN replies'[pending[k]] :
         replies'[pending[k]][i] = [why |-> why, text |-> text]

LEMMA FailPendingMoves ==
    ASSUME TransportTypeOK, NEW k \in {"upload", "download"}, NEW why \in {"done", "timeout"},
           NEW text \in Client!Texts, NEW running \in SUBSET timers, pending[k] # NoRequest,
           Client!FailPending(k, why, text, running)
    PROVE  Answered(k, why, text)
<1>1. pending[k] \in Requests /\ timers \in SUBSET Requests
  BY TransportTypes
<1>2. /\ pending' = [pending EXCEPT ![k] = NoRequest]
      /\ timers' = running \ {pending[k]}
      /\ Client!Reply(pending[k], why, text)
  BY DEF Client!FailPending
<1>. QED
  BY <1>1, <1>2, ReplyMoves DEF Answered

\* fireEvent empties the slot of the request's kind or does nothing.
LEMMA FireMoves ==
    ASSUME TransportTypeOK, NEW r \in Requests, NEW args, FireEvent(r, args)
    PROVE  \/ UNCHANGED slotVars
           \/ \E text \in Client!Texts :
                /\ Answered(Client!Kind(r), "done", text)
                /\ IF Client!Kind(r) = "upload"
                   THEN Client!IsCid(args, text)
                   ELSE Client!IsError(args, pending[Client!Kind(r)], text)
<1>1. Client!Kind(r) \in {"upload", "download"}
  BY ClientNames
<1>2. CASE UNCHANGED slotVars
  BY <1>2
<1>3. CASE ~UNCHANGED slotVars
  <2>1. Client!OnEventResponse(Client!Kind(r), args) /\ pending[Client!Kind(r)] # NoRequest
    BY <1>3 DEF FireEvent, Client!OnEventResponse, slotVars
  <2>2. PICK text \in Client!Texts :
          /\ IF Client!Kind(r) = "upload"
             THEN Client!IsCid(args, text)
             ELSE Client!IsError(args, pending[Client!Kind(r)], text)
          /\ Client!FailPending(Client!Kind(r), "done", text, timers)
    BY <2>1 DEF Client!OnEventResponse
  <2>3. Answered(Client!Kind(r), "done", text)
    BY <1>1, <2>1, <2>2, FailPendingMoves
  <2>. QED
    BY <2>2, <2>3
<1>. QED
  BY <1>2, <1>3

-----------------------------------------------------------------------------
(* The library's callbacks.                                                  *)

Told(r, what) ==
    /\ said' \in [Owners -> SUBSET Sayings]
    /\ \A q \in Owners : said[q] \subseteq said'[q]
    /\ \A q \in Owners : q # r => said'[q] = said[q]
    /\ said'[r] = said[r] \union {what}

\* Each kind of call is answered with a signal of its own.
SignalOf(what) ==
    CASE what = "start" -> "started"
      [] what = "upload init" -> "init done"
      [] what = "upload file" -> "file done"
      [] OTHER -> "download done"

\* The call ends: its context is freed and its outcome posted.
Ends(j, ret) ==
    /\ ret \in {"ok", "error", "silent"}
    /\ jobs' = jobs \ {j} /\ contexts' = contexts \ {Context(j)}
    /\ Posted(SignalOf(j.what), j.of, ret)
    /\ UNCHANGED said

\* Progress that is posted although the call goes on.
Reports(j) ==
    /\ j.what \in {"start", "upload init"}
    /\ UNCHANGED <<jobs, contexts>>
    /\ Posted(SignalOf(j.what), j.of, "progress")
    /\ IF j.what = "upload init" THEN Told(j.of, "progress") ELSE UNCHANGED said

\* Progress of a download starts a stream on its context, or ends it.
Streams(j) ==
    /\ j.of \in Downloads
    /\ \E k \in Jobs : k.what = "download stream" /\ k.of = j.of /\ jobs' = jobs \union {k}
    /\ UNCHANGED <<posted, contexts>>
    /\ Told(j.of, "progress")

StreamRefused(j) ==
    /\ j.of \in Downloads /\ j.what \in {"download init", "download stream"}
    /\ UNCHANGED jobs /\ contexts' = contexts \ {Context(j)}
    /\ Posted("download done", j.of, "error")
    /\ Told(j.of, "progress")

LEMMA JobTypes ==
    ASSUME TransportTypeOK, Kinded, NEW j \in jobs
    PROVE  /\ j \in Jobs /\ j.what \in Calls /\ j.of \in Owners
           /\ j.what = "start" => j.of = NoRequest /\ j.of \notin Requests /\ j.of \notin Downloads
           /\ j.what \in {"upload init", "upload file"} =>
                j.of \in Uploads /\ j.of \in Requests /\ j.of \notin Downloads /\ j.of # NoRequest
           /\ j.what \in {"download init", "download stream"} =>
                j.of \in Downloads /\ j.of \in Requests /\ j.of \notin Uploads /\ j.of # NoRequest
<1>1. j \in Jobs /\ j.what \in Calls /\ j.of \in Owners
  BY TransportTypes DEF Jobs
<1>. QED
  BY <1>1, Markers DEF Kinded, Requests

LEMMA CallbackMoves ==
    ASSUME TransportTypeOK, Kinded, NEW j \in jobs, NEW ret \in Rets, CallsBack(j, ret)
    PROVE  /\ UNCHANGED <<restVars, slotVars, node, ready, entering>>
           /\ progress' \in 0..MaxProgress
           /\ \/ Ends(j, ret) \/ Reports(j) \/ Streams(j) \/ StreamRefused(j)
              \/ UNCHANGED <<jobs, contexts, said, posted>>
<1>1. progress \in Nat /\ progress \in 0..MaxProgress /\ MaxProgress \in Nat
  BY TransportTypes, TransportAssumption
<1>2. progress < MaxProgress /\ progress' = progress + 1 => progress' \in 0..MaxProgress
  BY <1>1
<1>3. ret # "progress" => ret \in {"ok", "error", "silent"}
  BY DEF Rets
<1>4. "progress" \in Sayings /\ "error" \in Rets /\ "progress" \in Rets
  BY DEF Rets, Sayings
<1>5. {"started", "init done", "file done", "download done"} \subseteq Signals
  BY DEF Signals
<1>6. j.of \in Owners /\ NoRequest \in Owners
  BY JobTypes DEF Owners
<1>7. Says(j.of, "progress") => Told(j.of, "progress")
  BY <1>4, <1>6, SaysMoves DEF Told
<1>9. CASE CbStart(j, ret)
  <2>1. j.what = "start" /\ JobSays(j, ret) /\ FreeUnlessProgress(j, ret) /\ j.of = NoRequest
        /\ j.of \notin Downloads
    BY <1>9, JobTypes DEF CbStart
  <2>2. Posted("started", j.of, ret)
    BY <1>5, <1>6, <1>9, <2>1, PostMoves DEF CbStart
  <2>3. SignalOf(j.what) = "started"
    BY <2>1 DEF SignalOf
  <2>4. CASE ret = "progress"
    BY <1>2, <2>1, <2>2, <2>3, <2>4 DEF JobSays, FreeUnlessProgress, Reports
  <2>5. CASE ret # "progress"
    BY <1>1, <1>3, <2>1, <2>2, <2>3, <2>5 DEF JobSays, FreeUnlessProgress, Free, Ends
  <2>. QED
    BY <2>4, <2>5
<1>10. CASE CbUploadInit(j, ret)
  <2>1. j.what = "upload init" /\ JobSays(j, ret) /\ FreeUnlessProgress(j, ret) /\ j.of \notin Downloads
    BY <1>10, JobTypes DEF CbUploadInit
  <2>2. Posted("init done", j.of, ret)
    BY <1>5, <1>6, <1>10, PostMoves DEF CbUploadInit
  <2>3. SignalOf(j.what) = "init done"
    BY <2>1 DEF SignalOf
  <2>4. CASE ret = "progress"
    BY <1>2, <1>4, <1>7, <2>1, <2>2, <2>3, <2>4 DEF JobSays, FreeUnlessProgress, Reports
  <2>5. CASE ret # "progress"
    BY <1>1, <1>3, <2>1, <2>2, <2>3, <2>5 DEF JobSays, FreeUnlessProgress, Free, Ends
  <2>. QED
    BY <2>4, <2>5
<1>11. CASE CbUploadFile(j, ret)
  <2>1. j.what = "upload file" /\ JobSays(j, ret) /\ j.of \notin Downloads
    BY <1>11, JobTypes DEF CbUploadFile
  <2>2. SignalOf(j.what) = "file done"
    BY <2>1 DEF SignalOf
  <2>3. CASE ret = "progress"
    BY <1>2, <1>11, <2>1, <2>3 DEF JobSays, CbUploadFile
  <2>4. CASE ret # "progress"
    <3>1. Posted("file done", j.of, ret) /\ Free(j)
      BY <1>5, <1>6, <1>11, <2>4, PostMoves DEF CbUploadFile
    <3>. QED
      BY <1>1, <1>3, <2>1, <2>2, <2>4, <3>1 DEF JobSays, Free, Ends
  <2>. QED
    BY <2>3, <2>4
<1>12. CASE CbDownloadStream(j, ret)
  <2>1. j.what \in {"download init", "download stream"} /\ j.of \in Downloads
    BY <1>12, JobTypes DEF CbDownloadStream
  <2>2. SignalOf(j.what) = "download done"
    BY <2>1 DEF SignalOf
  <2>3. CASE ret # "progress" /\ JobSays(j, ret) /\ Post("download done", j.of, ret) /\ Free(j)
    <3>1. Posted("download done", j.of, ret)
      BY <1>5, <1>6, <2>3, PostMoves
    <3>. QED
      BY <1>1, <1>3, <2>1, <2>2, <2>3, <3>1 DEF JobSays, Free, Ends
  <2>4. CASE ret = "progress"
    <3>1. /\ progress' \in 0..MaxProgress /\ Told(j.of, "progress")
          /\ UNCHANGED <<restVars, slotVars, node, ready, entering>>
      BY <1>2, <1>7, <1>12, <2>4 DEF CbDownloadStream
    <3>2. CASE /\ jobs' = jobs \union {[Job("download stream", j.of) EXCEPT !.nth = progress']}
               /\ UNCHANGED <<posted, contexts>>
      <4>1. PICK n \in 0..MaxProgress : n = progress'
        BY <3>1
      <4>k. PICK k : k = [Job("download stream", j.of) EXCEPT !.nth = n]
        OBVIOUS
      <4>2. jobs' = jobs \union {k}
        BY <3>2, <4>1, <4>k
      <4>3. "download stream" \in Calls
        BY DEF Calls
      <4>5. k = [what |-> "download stream", of |-> j.of, nth |-> n]
        BY <4>k DEF Job
      <4>4. k \in Jobs /\ k.what = "download stream" /\ k.of = j.of
        BY <1>6, <4>1, <4>3, <4>5 DEF Jobs
      <4>. QED
        BY <2>1, <3>1, <3>2, <4>2, <4>4 DEF Streams
    <3>3. CASE /\ Post("download done", j.of, "error") /\ Free(j)
               /\ UNCHANGED jobs
      <4>1. Posted("download done", j.of, "error")
        BY <1>4, <1>5, <1>6, <3>3, PostMoves
      <4>. QED
        BY <2>1, <3>1, <3>3, <4>1 DEF StreamRefused, Free
    <3>. QED
      BY <1>12, <2>4, <3>2, <3>3 DEF CbDownloadStream
  <2>. QED
    BY <1>12, <2>3, <2>4 DEF CbDownloadStream
<1>. QED
  BY <1>9, <1>10, <1>11, <1>12 DEF CallsBack

-----------------------------------------------------------------------------
(* The steps, as far as the library's side is concerned.                     *)

NewJob(what, r) ==
    \E k \in Jobs : /\ k.what = what /\ k.of = r
                    /\ jobs' = jobs \union {k}
                    /\ contexts' = contexts \union {Context(k)}

Started ==
    /\ UNCHANGED entering
    /\ jobs = {}
    /\ \/ UNCHANGED jobs
       \/ \E k \in Jobs : k.what = "start" /\ k.of = NoRequest /\ jobs' = {k}
    /\ \/ /\ UNCHANGED <<said, posted>>
          /\ contexts' = IF jobs' = {} THEN contexts ELSE contexts \union {<<"start", NoRequest>>}
       \/ /\ Told(NoRequest, "new") /\ UNCHANGED contexts
          /\ Posted("started", NoRequest, "ok")

Entered(r) ==
    /\ alive /\ r \in Requests \ called
    /\ entering = NoRequest /\ entering' = r
    /\ UNCHANGED <<jobs, contexts, posted, said>>

HandedOver(r) ==
    /\ r \in Requests /\ entering = r /\ entering' = NoRequest
    /\ UNCHANGED <<posted, said>>
    /\ \/ UNCHANGED <<jobs, contexts>>
       \/ NewJob(IF r \in Uploads THEN "upload init" ELSE "download init", r)

CalledBack(j, ret) ==
    /\ UNCHANGED entering
    /\ Ends(j, ret) \/ Reports(j) \/ Streams(j) \/ StreamRefused(j)
       \/ UNCHANGED <<jobs, contexts, said, posted>>

Handled ==
    /\ MovedUp
    /\ entering = NoRequest
    /\ UNCHANGED <<entering, said>>
    /\ \/ UNCHANGED <<jobs, contexts>>
       \/ /\ posted[1].signal = "init done" /\ posted[1].ret = "ok"
          /\ NewJob("upload file", posted[1].of)

Gone ==
    /\ ~alive'
    /\ entering = NoRequest
    /\ jobs' = {} /\ posted' = << >>
    /\ UNCHANGED <<entering, contexts, said>>

Stays == UNCHANGED <<entering, jobs, contexts, posted, said>>

LEMMA AcceptedMoves ==
    ASSUME TransportTypeOK, NEW what \in Calls, NEW r \in Owners, Accepted(what, r)
    PROVE  NewJob(what, r) /\ UNCHANGED <<progress, said>>
<1>. PICK k : k = Job(what, r)
  OBVIOUS
<1>1. k = [what |-> what, of |-> r, nth |-> progress]
  BY DEF Job
<1>2. k \in Jobs /\ k.what = what /\ k.of = r
  BY <1>1, TransportTypes DEF Jobs
<1>3. jobs' = jobs \union {k} /\ contexts' = contexts \union {Context(k)}
  BY DEF Accepted
<1>. QED
  BY <1>2, <1>3 DEF NewJob, Accepted

LEMMA StartMoves ==
    ASSUME TransportTypeOK, Start
    PROVE  Started
<1>1. jobs = {}
  BY DEF Start, TransportTypeOK
<1>2. PICK accepted \in BOOLEAN, newCalls \in BOOLEAN :
         /\ node' = accepted
         /\ IF accepted THEN jobs' = jobs \union {Job("start", NoRequest)}
                        ELSE UNCHANGED jobs
         /\ IF newCalls
            THEN /\ "new" \notin said[NoRequest] /\ Says(NoRequest, "new")
                 /\ Post("started", NoRequest, "ok")
                 /\ UNCHANGED contexts
            ELSE /\ UNCHANGED <<said, posted>>
                 /\ contexts' = IF accepted THEN contexts \union {<<"start", NoRequest>>}
                                            ELSE contexts
  BY DEF Start
<1>3. PICK k : k = Job("start", NoRequest)
  OBVIOUS
<1>4. k = [what |-> "start", of |-> NoRequest, nth |-> progress]
  BY <1>3 DEF Job
<1>5. k \in Jobs /\ k.what = "start" /\ k.of = NoRequest
  BY <1>4, TransportTypes DEF Jobs, Calls, Owners
<1>6. /\ accepted => jobs' = {k} /\ jobs' # {}
      /\ ~accepted => jobs' = {} /\ UNCHANGED jobs
  BY <1>1, <1>2, <1>3
<1>7. CASE newCalls
  <2>1. Told(NoRequest, "new")
    BY <1>2, <1>7, SaysMoves DEF Told, Owners, Sayings
  <2>2. Posted("started", NoRequest, "ok")
    BY <1>2, <1>7, PostMoves DEF Owners, Signals, Rets
  <2>. QED
    BY <1>1, <1>2, <1>5, <1>6, <1>7, <2>1, <2>2 DEF Started, Start
<1>8. CASE ~newCalls
  BY <1>1, <1>2, <1>5, <1>6, <1>8 DEF Started, Start
<1>. QED
  BY <1>7, <1>8

LEMMA CallMoves ==
    ASSUME TransportTypeOK, NEW r \in Requests, Call(r)
    PROVE  /\ Entered(r)
           /\ UNCHANGED <<alive, node, ready, timeoutOn, progress, replies>>
           /\ subscribed' = TRUE /\ called' = called \union {r}
           /\ pending[Client!Kind(r)] = NoRequest
           /\ pending' = [pending EXCEPT ![Client!Kind(r)] = r]
           /\ timers' = IF timeoutOn THEN timers \union {r} ELSE timers
BY DEF Call, Idle, libVars, Entered, Client!Call, Client!Take, Client!Verdict

LEMMA UrlMoves ==
    ASSUME TransportTypeOK, NEW r \in Requests, UploadOrDownloadUrl(r)
    PROVE  /\ HandedOver(r)
           /\ UNCHANGED <<restVars, node, ready, progress>>
           /\ \/ UNCHANGED slotVars
              \/ /\ FireEvent(r, IF r \in Uploads THEN << >> ELSE <<ErrorText>>)
                 /\ UNCHANGED jobs
           /\ jobs' # jobs => node
<1>1. r \in Owners
  BY DEF Owners
<1>2. CASE /\ FireEvent(r, IF r \in Uploads THEN << >> ELSE <<ErrorText>>)
           /\ UNCHANGED libVars
  BY <1>2 DEF UploadOrDownloadUrl, HandedOver, libVars
<1>3. CASE /\ node
           /\ Accepted(IF r \in Uploads THEN "upload init" ELSE "download init", r)
           /\ UNCHANGED slotVars
  BY <1>1, <1>3, AcceptedMoves DEF UploadOrDownloadUrl, HandedOver, Calls
<1>. QED
  BY <1>2, <1>3 DEF UploadOrDownloadUrl

\* The handlers of the signals that say how a request went.
LEMMA DoneMoves ==
    ASSUME TransportTypeOK, Kinded, OnUploadInitDone \/ OnUploadFileDone \/ OnDownloadDone
    PROVE  /\ Handled /\ posted[1].of \in Requests /\ posted[1].signal # "started"
           /\ UNCHANGED <<restVars, node, ready, progress>> /\ alive
           /\ \/ UNCHANGED slotVars
              \/ /\ UNCHANGED jobs
                 /\ posted[1].of \in Uploads => \E args \in {<< >>, <<posted[1].of>>} :
                       FireEvent(posted[1].of, args)
                 /\ posted[1].of \in Downloads => \E args \in {<< >>, <<Empty>>, <<ErrorText>>} :
                       FireEvent(posted[1].of, args)
           /\ jobs' # jobs => posted[1].of \in Uploads
<1>1. MovedUp
  BY DeliveredMoves DEF OnUploadInitDone, OnUploadFileDone, OnDownloadDone
<1>2. /\ 1 \in DOMAIN posted /\ Head(posted) = posted[1]
      /\ posted[1] \in [signal : Signals, of : Owners, ret : Rets]
  BY <1>1 DEF MovedUp
<1>3. /\ posted[1].signal \in {"init done", "file done"} =>
           posted[1].of \in Uploads /\ posted[1].of \in Requests /\ posted[1].of \notin Downloads
      /\ posted[1].signal = "download done" =>
           /\ posted[1].of \in Downloads /\ posted[1].of \in Requests /\ posted[1].of \notin Uploads
  BY <1>2, Markers DEF Kinded, Requests
<1>4. CASE OnUploadInitDone
  <2>1. /\ posted[1].signal = "init done" /\ UNCHANGED <<restVars, node, entering, ready>>
        /\ alive /\ entering = NoRequest
    BY <1>2, <1>4 DEF OnUploadInitDone, Delivered, Idle
  <2>2. CASE FireEvent(Head(posted).of, << >>) /\ UNCHANGED libVars
    BY <1>1, <1>2, <1>3, <2>1, <2>2 DEF Handled, libVars
  <2>3. CASE /\ Head(posted).ret = "ok"
             /\ Accepted("upload file", Head(posted).of)
             /\ UNCHANGED slotVars
    BY <1>1, <1>2, <1>3, <2>1, <2>3, AcceptedMoves DEF Handled, Calls
  <2>. QED
    BY <1>4, <2>2, <2>3 DEF OnUploadInitDone
<1>5. CASE OnUploadFileDone
  <2>1. /\ posted[1].signal = "file done" /\ UNCHANGED <<restVars, node, entering, ready, libVars>>
        /\ alive /\ entering = NoRequest
        /\ \E args \in {<< >>, <<posted[1].of>>} : FireEvent(posted[1].of, args)
    BY <1>2, <1>5 DEF OnUploadFileDone, Delivered, Idle
  <2>. QED
    BY <1>1, <1>2, <1>3, <2>1 DEF Handled, libVars
<1>6. CASE OnDownloadDone
  <2>1. /\ posted[1].signal = "download done" /\ UNCHANGED <<restVars, node, entering, ready, libVars>>
        /\ alive /\ entering = NoRequest
    BY <1>2, <1>6 DEF OnDownloadDone, Delivered, Idle
  <2>2. \E args \in {<< >>, <<Empty>>, <<ErrorText>>} :
          FireEvent(posted[1].of, args)
    BY <1>2, <1>6 DEF OnDownloadDone
  <2>. QED
    BY <1>1, <1>2, <1>3, <2>1, <2>2 DEF Handled, libVars
<1>. QED
  BY <1>4, <1>5, <1>6

LEMMA StartedMoves ==
    ASSUME TransportTypeOK, Kinded, OnStorageStarted
    PROVE  /\ Handled /\ posted[1].of = NoRequest /\ alive
           /\ UNCHANGED <<restVars, slotVars, node, progress, jobs>> /\ ready' \in BOOLEAN
<1>1. MovedUp
  BY DeliveredMoves DEF OnStorageStarted
<1>2. 1 \in DOMAIN posted /\ Head(posted) = posted[1]
  BY <1>1 DEF MovedUp
<1>3. posted[1].of = NoRequest /\ entering = NoRequest /\ alive /\ UNCHANGED <<restVars, node, entering>>
  BY <1>2 DEF Kinded, OnStorageStarted, Delivered, Idle
<1>. QED
  BY <1>1, <1>3, TransportTypes DEF OnStorageStarted, Handled, libVars

LEMMA DestroyMoves ==
    ASSUME TransportTypeOK, Destroy
    PROVE  /\ Gone /\ alive' = FALSE
           /\ UNCHANGED <<ready, subscribed, timeoutOn, called, progress>>
           /\ node' = FALSE
           /\ pending' = [k \in {"upload", "download"} |-> NoRequest] /\ timers' = {}
BY ClientNames DEF Destroy, Idle, Gone, Client!Destroy

\* A timer empties the slot of its request's kind, if there is anything in it.
LEMMA TimerMoves ==
    ASSUME TransportTypeOK, NEW r \in Requests, TimerFires(r)
    PROVE  /\ Stays /\ UNCHANGED <<restVars, node, ready, progress>>
           /\ \/ UNCHANGED <<pending, replies>> /\ timers' \in SUBSET Requests
              \/ Answered(Client!Kind(r), "timeout", Empty)
<1>1. Stays /\ UNCHANGED <<restVars, node, ready, progress>>
  BY DEF TimerFires, Stays, libVars, Client!TimerFires, restVars
<1>2. CASE pending[Client!Kind(r)] = NoRequest
  BY <1>1, <1>2, TransportTypes DEF TimerFires, Client!TimerFires
<1>3. CASE pending[Client!Kind(r)] # NoRequest
  <2>1. Client!FailPending(Client!Kind(r), "timeout", Empty, timers \ {r})
    BY <1>3 DEF TimerFires, Client!TimerFires
  <2>. QED
    BY <1>1, <1>3, <2>1, FailPendingMoves, ClientNames
<1>. QED
  BY <1>2, <1>3

LibStep ==
    \/ Started
    \/ \E r \in Requests : Entered(r)
    \/ \E r \in Requests : HandedOver(r)
    \/ \E j \in jobs, ret \in Rets : CalledBack(j, ret)
    \/ Handled
    \/ Gone
    \/ Stays

LEMMA LibSteps ==
    ASSUME TransportTypeOK, Kinded, [TransportNext]_vars
    PROVE  LibStep
<1>1. CASE Start
  BY <1>1, StartMoves DEF LibStep
<1>2. CASE \E r \in Requests : Call(r)
  BY <1>2, CallMoves DEF LibStep
<1>3. CASE \E r \in Requests : UploadOrDownloadUrl(r)
  BY <1>3, UrlMoves DEF LibStep
<1>4. CASE \E j \in jobs, ret \in Rets : CallsBack(j, ret)
  BY <1>4, CallbackMoves DEF LibStep, CalledBack
<1>5. CASE OnStorageStarted
  BY <1>5, StartedMoves DEF LibStep
<1>6. CASE OnUploadInitDone \/ OnUploadFileDone \/ OnDownloadDone
  BY <1>6, DoneMoves DEF LibStep
<1>7. CASE \E r \in Requests : TimerFires(r)
  BY <1>7, TimerMoves DEF LibStep
<1>8. CASE Destroy
  BY <1>8, DestroyMoves DEF LibStep
<1>9. CASE UNCHANGED vars
  BY <1>9 DEF LibStep, Stays, vars, libVars
<1>. QED
  BY <1>1, <1>2, <1>3, <1>4, <1>5, <1>6, <1>7, <1>8, <1>9 DEF TransportNext

\* The history of what was said only grows.
LEMMA SaidGrows ==
    ASSUME TransportTypeOK, LibStep
    PROVE  /\ said' \in [Owners -> SUBSET Sayings]
           /\ \A r \in Owners : said[r] \subseteq said'[r]
BY TransportTypes DEF LibStep, Started, Entered, HandedOver, CalledBack, Ends, Reports, Streams,
                      StreamRefused, Handled, Gone, Stays, Told

LEMMA PostedType ==
    ASSUME TransportTypeOK, LibStep
    PROVE  posted' \in Seq([signal : Signals, of : Owners, ret : Rets])
<1>. DEFINE S == [signal : Signals, of : Owners, ret : Rets]
<1>1. posted \in Seq(S) /\ << >> \in Seq(S)
  BY TransportTypes
<1>2. posted' = posted \/ posted' = << >> \/ MovedUp \/ \E a, r, b : Posted(a, r, b)
  BY DEF LibStep, Started, Entered, HandedOver, CalledBack, Ends, Reports, Streams,
         StreamRefused, Handled, Gone, Stays
<1>3. MovedUp \/ (\E a, r, b : Posted(a, r, b)) => posted' \in Seq(S)
  BY DEF MovedUp, Posted
<1>. HIDE DEF S
<1>4. posted' \in Seq(S)
  BY <1>1, <1>2, <1>3
<1>. QED
  BY <1>4 DEF S

LEMMA JobsType ==
    ASSUME TransportTypeOK, LibStep
    PROVE  jobs' \subseteq Jobs
BY TransportTypes DEF LibStep, Started, Entered, HandedOver, CalledBack, Ends, Reports, Streams,
                      StreamRefused, Handled, Gone, Stays, NewJob

-----------------------------------------------------------------------------
(* Kinded is preserved.                                                      *)

\* A job of the next state is an old one or a new one of its request's kind.
LEMMA NewJobs ==
    ASSUME TransportTypeOK, Kinded, LibStep, NEW j \in jobs'
    PROVE  \/ j \in jobs
           \/ Started /\ j.what = "start" /\ j.of = NoRequest
           \/ j.what \in {"upload init", "upload file"} /\ j.of \in Uploads
           \/ j.what = "download init" /\ j.of \in Downloads
           \/ j.what = "download stream" /\ j.of \in Downloads /\ "progress" \in said'[j.of]
<1>1. CASE Started
  BY <1>1 DEF Started
<1>2. CASE \E r \in Requests : HandedOver(r)
  BY <1>2 DEF HandedOver, NewJob, Requests
<1>3. CASE \E k \in jobs, ret \in Rets : CalledBack(k, ret)
  <2>1. PICK k \in jobs, ret \in Rets : CalledBack(k, ret)
    BY <1>3
  <2>2. CASE Streams(k)
    <3>1. PICK n \in Jobs : n.what = "download stream" /\ n.of = k.of /\ jobs' = jobs \union {n}
      BY <2>2 DEF Streams
    <3>2. k.of \in Downloads /\ "progress" \in said'[k.of]
      BY <2>2 DEF Streams, Told
    <3>. QED
      BY <3>1, <3>2
  <2>. QED
    BY <2>1, <2>2 DEF CalledBack, Ends, Reports, StreamRefused
<1>4. CASE Handled
  <2>1. posted[1].signal = "init done" => posted[1].of \in Uploads
    BY <1>4 DEF Handled, MovedUp, Kinded
  <2>. QED
    BY <1>4, <2>1 DEF Handled, NewJob
<1>5. CASE Gone \/ Stays \/ \E r \in Requests : Entered(r)
  BY <1>5 DEF Gone, Stays, Entered
<1>. QED
  BY <1>1, <1>2, <1>3, <1>4, <1>5 DEF LibStep

\* A signal of the next state is an old one or the outcome of a call.
LEMMA NewSignals ==
    ASSUME TransportTypeOK, Kinded, LibStep, NEW i \in DOMAIN posted'
    PROVE  \/ \E k \in DOMAIN posted : posted'[i] = posted[k]
           \/ posted'[i].signal = "started" /\ posted'[i].of = NoRequest
           \/ posted'[i].signal \in {"init done", "file done"} /\ posted'[i].of \in Uploads
           \/ posted'[i].signal = "download done" /\ posted'[i].of \in Downloads
<1>0. ASSUME NEW signal, NEW r, NEW ret, Posted(signal, r, ret)
      PROVE  \/ \E k \in DOMAIN posted : posted'[i] = posted[k]
             \/ posted'[i].signal = signal /\ posted'[i].of = r /\ posted'[i].ret = ret
  <2>1. PICK n \in DOMAIN posted' :
          /\ posted'[n] = [signal |-> signal, of |-> r, ret |-> ret]
          /\ DOMAIN posted' = DOMAIN posted \union {n}
    BY <1>0 DEF Posted
  <2>2. i = n => posted'[i].signal = signal /\ posted'[i].of = r /\ posted'[i].ret = ret
    BY <2>1
  <2>. QED
    BY <1>0, <2>1, <2>2 DEF Posted
<1>1. CASE Started
  <2>1. CASE Posted("started", NoRequest, "ok")
    BY <1>0, <2>1
  <2>. QED
    BY <1>1, <2>1 DEF Started
<1>2. CASE \E k \in jobs, ret \in Rets : CalledBack(k, ret)
  <2>1. PICK j \in jobs, ret \in Rets : CalledBack(j, ret)
    BY <1>2
  <2>2. /\ j.what \in Calls
        /\ j.what = "start" => j.of = NoRequest
        /\ j.what \in {"upload init", "upload file"} => j.of \in Uploads
        /\ j.what \in {"download init", "download stream"} => j.of \in Downloads
    BY JobTypes
  <2>3. CASE Ends(j, ret)
    <3>1. \/ \E k \in DOMAIN posted : posted'[i] = posted[k]
          \/ posted'[i].signal = SignalOf(j.what) /\ posted'[i].of = j.of /\ posted'[i].ret = ret
      BY <1>0, <2>3 DEF Ends
    <3>2. \/ SignalOf(j.what) = "started" /\ j.of = NoRequest
          \/ SignalOf(j.what) \in {"init done", "file done"} /\ j.of \in Uploads
          \/ SignalOf(j.what) = "download done" /\ j.of \in Downloads
      BY <2>2 DEF SignalOf, Calls
    <3>. QED
      BY <3>1, <3>2
  <2>4. CASE Reports(j)
    <3>1. \/ \E k \in DOMAIN posted : posted'[i] = posted[k]
          \/ posted'[i].signal = SignalOf(j.what) /\ posted'[i].of = j.of
      BY <1>0, <2>4 DEF Reports
    <3>2. \/ SignalOf(j.what) = "started" /\ j.of = NoRequest
          \/ SignalOf(j.what) = "init done" /\ j.of \in Uploads
      BY <2>2, <2>4 DEF SignalOf, Reports
    <3>. QED
      BY <3>1, <3>2
  <2>5. CASE StreamRefused(j)
    <3>1. j.of \in Downloads /\ Posted("download done", j.of, "error")
      BY <2>5 DEF StreamRefused
    <3>2. \/ \E k \in DOMAIN posted : posted'[i] = posted[k]
          \/ /\ posted'[i].signal = "download done" /\ posted'[i].of = j.of
             /\ posted'[i].ret = "error"
      BY <1>0, <3>1
    <3>. QED
      BY <3>1, <3>2
  <2>6. CASE UNCHANGED posted
    BY <2>6
  <2>. QED
    BY <2>1, <2>3, <2>4, <2>5, <2>6 DEF CalledBack, Streams
<1>3. CASE Handled
  BY <1>3 DEF Handled, MovedUp
<1>4. CASE Gone
  <2>1. DOMAIN << >> = {}
    OBVIOUS
  <2>. QED
    BY <1>4, <2>1 DEF Gone
<1>5. CASE UNCHANGED posted
  BY <1>5
<1>. QED
  BY <1>1, <1>2, <1>3, <1>4, <1>5 DEF LibStep, Entered, HandedOver, Stays

LEMMA KindedStep ==
    ASSUME TransportTypeOK, Kinded, LibStep
    PROVE  Kinded'
<1>1. ASSUME NEW j \in jobs'
      PROVE  /\ j.what = "start" => j.of = NoRequest
             /\ j.what \in {"upload init", "upload file"} => j.of \in Uploads
             /\ j.what \in {"download init", "download stream"} => j.of \in Downloads
             /\ j.what = "download stream" => "progress" \in said'[j.of]
  <2>1. CASE j \in jobs
    <3>1. said[j.of] \subseteq said'[j.of]
      BY <2>1, SaidGrows, JobTypes
    <3>. QED
      BY <2>1, <3>1 DEF Kinded
  <2>2. CASE j \notin jobs
    BY <1>1, <2>2, NewJobs
  <2>. QED
    BY <2>1, <2>2
<1>2. ASSUME NEW i \in DOMAIN posted'
      PROVE  /\ posted'[i].signal = "started" => posted'[i].of = NoRequest
             /\ posted'[i].signal \in {"init done", "file done"} => posted'[i].of \in Uploads
             /\ posted'[i].signal = "download done" => posted'[i].of \in Downloads
  <2>1. CASE \E k \in DOMAIN posted : posted'[i] = posted[k]
    <3>1. PICK k \in DOMAIN posted : posted'[i] = posted[k]
      BY <2>1
    <3>. QED
      BY <3>1 DEF Kinded
  <2>2. CASE ~\E k \in DOMAIN posted : posted'[i] = posted[k]
    BY <1>2, <2>2, NewSignals
  <2>. QED
    BY <2>1, <2>2
<1>. QED
  BY <1>1, <1>2 DEF Kinded

-----------------------------------------------------------------------------
(* OneAtATime is preserved.                                                  *)

\* What the proof that a request has one call under way needs of a step.
LEMMA CountsAfterPost ==
    ASSUME NEW signal, NEW q, NEW ret, Posted(signal, q, ret), NEW r,
           said[r] \subseteq said'[r]
    PROVE  /\ \A i \in Counts(r)' : i \in Counts(r) \/ (q = r /\ i \notin DOMAIN posted)
           /\ \A i, k \in Counts(r)' : i \notin DOMAIN posted /\ k \notin DOMAIN posted => i = k
           /\ q # r => Counts(r)' \subseteq Counts(r)
           /\ "progress" \in said'[r] /\ ret # "ok" => Counts(r)' \subseteq Counts(r)
<1>1. PICK n \in DOMAIN posted' :
         /\ posted'[n] = [signal |-> signal, of |-> q, ret |-> ret] /\ n \notin DOMAIN posted
         /\ DOMAIN posted' = DOMAIN posted \union {n}
  BY DEF Posted
<1>2. posted'[n].signal = signal /\ posted'[n].of = q /\ posted'[n].ret = ret
  BY <1>1
<1>3. \A i \in DOMAIN posted : posted'[i] = posted[i]
  BY DEF Posted
<1>. QED
  BY <1>1, <1>2, <1>3 DEF Counts

LEMMA CountsAfterDelivery ==
    ASSUME MovedUp, UNCHANGED said, NEW r
    PROVE  /\ \A i \in Counts(r)' : i + 1 \in Counts(r) /\ i + 1 # 1
           /\ \A i, k \in Counts(r)' : i + 1 = k + 1 => i = k
BY DEF MovedUp, Counts

\* The signal that is delivered counts as a step of its request.
LEMMA DeliveredCounts ==
    ASSUME MovedUp,
           \/ "progress" \notin said[posted[1].of]
           \/ posted[1].signal = "init done" /\ posted[1].ret = "ok"
    PROVE  1 \in Counts(posted[1].of)
BY DEF MovedUp, Counts

LEMMA SingleStep ==
    ASSUME TransportTypeOK, Kinded, Made, OneAtATime, LibStep,
           NEW r \in Requests, r \in Uploads \/ "progress" \notin said'[r]
    PROVE  Single(r)'
<1>1. r \in Owners /\ r # NoRequest /\ said[r] \subseteq said'[r]
  BY Markers, SaidGrows DEF Owners
<1>2. Single(r)
  BY <1>1 DEF OneAtATime
<1>3. /\ entering = r => Counts(r) = {} /\ \A j \in jobs : j.of # r
      /\ \A j, k \in jobs : j.of = r /\ k.of = r => j = k
      /\ \A i, k \in Counts(r) : i = k
      /\ Counts(r) # {} => \A j \in jobs : j.of # r
  BY <1>2 DEF Single
<1>4. (r \in Uploads /\ "progress" \notin said[r]) \/ "progress" \in said[r] \/ r \in Downloads
  BY DEF Requests
<1>5. \A j \in jobs : j.of = r => entering # r
  BY <1>3
<1>6. CASE Started
  <2>1. said'[r] = said[r] /\ (\A j \in jobs' : j.of # r) /\ UNCHANGED entering
    BY <1>1, <1>6 DEF Started, Told
  <2>2. Counts(r)' \subseteq Counts(r)
    <3>1. CASE Posted("started", NoRequest, "ok")
      BY <1>1, <3>1, CountsAfterPost
    <3>2. CASE UNCHANGED posted
      BY <2>1, <3>2 DEF Counts
    <3>. QED
      BY <1>6, <3>1, <3>2 DEF Started
  <2>. QED
    BY <1>3, <2>1, <2>2 DEF Single
<1>7. CASE \E q \in Requests : Entered(q)
  <2>1. PICK q \in Requests : Entered(q)
    BY <1>7
  <2>2. Counts(r)' = Counts(r) /\ UNCHANGED jobs
    BY <2>1 DEF Entered, Counts
  <2>3. r = q => Counts(r) = {} /\ \A j \in jobs : j.of # r
    <3>1. r = q => r \notin Working
      BY <2>1 DEF Entered, Made
    <3>. QED
      BY <3>1 DEF Working, Counts, Requests
  <2>4. entering' = r => r = q
    BY <2>1 DEF Entered
  <2>. QED
    BY <1>3, <2>2, <2>3, <2>4 DEF Single
<1>8. CASE \E q \in Requests : HandedOver(q)
  <2>1. PICK q \in Requests : HandedOver(q)
    BY <1>8
  <2>2. Counts(r)' = Counts(r) /\ entering' # r
    BY <1>1, <2>1 DEF HandedOver, Counts
  <2>3. CASE UNCHANGED jobs
    BY <1>3, <2>2, <2>3 DEF Single
  <2>4. CASE \E k \in Jobs : k.of = q /\ jobs' = jobs \union {k}
    BY <1>3, <2>1, <2>2, <2>4 DEF Single, HandedOver
  <2>. QED
    BY <2>1, <2>3, <2>4 DEF HandedOver, NewJob
<1>9. CASE \E j \in jobs, ret \in Rets : CalledBack(j, ret)
  <2>1. PICK j \in jobs, ret \in Rets : CalledBack(j, ret)
    BY <1>9
  <2>2. UNCHANGED entering
    BY <2>1 DEF CalledBack
  <2>3. CASE Ends(j, ret)
    <3>1. Posted(SignalOf(j.what), j.of, ret) /\ jobs' = jobs \ {j}
      BY <2>3 DEF Ends
    <3>2. /\ \A i \in Counts(r)' : i \in Counts(r) \/ (j.of = r /\ i \notin DOMAIN posted)
          /\ \A i, k \in Counts(r)' : i \notin DOMAIN posted /\ k \notin DOMAIN posted => i = k
      BY <1>1, <3>1, CountsAfterPost
    <3>3. j.of = r => Counts(r) = {} /\ \A k \in jobs' : k.of # r
      BY <1>3, <3>1
    <3>4. j.of # r => Counts(r)' \subseteq Counts(r)
      BY <3>2
    <3>5. entering' = r => j.of # r
      BY <1>5, <2>2
    <3>. QED
      BY <1>3, <2>2, <3>1, <3>2, <3>3, <3>4, <3>5 DEF Single
  <2>4. CASE Reports(j)
    <3>1. /\ Posted(SignalOf(j.what), j.of, "progress") /\ UNCHANGED jobs
          /\ j.of = r => "progress" \in said'[r]
      BY <1>1, <2>4, JobTypes DEF Reports, Told
    <3>2. Counts(r)' \subseteq Counts(r)
      <4>1. CASE j.of = r
        BY <1>1, <3>1, <4>1, CountsAfterPost
      <4>2. CASE j.of # r
        BY <1>1, <3>1, <4>2, CountsAfterPost
      <4>. QED
        BY <4>1, <4>2
    <3>. QED
      BY <1>3, <2>2, <3>1, <3>2 DEF Single
  <2>5. CASE Streams(j) \/ StreamRefused(j)
    <3>1. j.of \in Downloads /\ Told(j.of, "progress")
      BY <2>5 DEF Streams, StreamRefused
    <3>2. r # j.of
      BY <3>1, Markers DEF Told
    <3>3. Counts(r)' \subseteq Counts(r)
      <4>1. CASE UNCHANGED posted
        BY <1>1, <3>1, <3>2, <4>1 DEF Counts, Told
      <4>2. CASE Posted("download done", j.of, "error")
        BY <1>1, <3>2, <4>2, CountsAfterPost
      <4>. QED
        BY <2>5, <4>1, <4>2 DEF Streams, StreamRefused
    <3>4. \A k \in jobs' : k.of = r => k \in jobs
      BY <2>5, <3>2 DEF Streams, StreamRefused
    <3>. QED
      BY <1>3, <2>2, <3>3, <3>4 DEF Single
  <2>6. CASE UNCHANGED <<jobs, said, posted>>
    <3>1. Counts(r)' = Counts(r)
      BY <2>6 DEF Counts
    <3>. QED
      BY <1>3, <2>2, <2>6, <3>1 DEF Single
  <2>. QED
    BY <2>1, <2>3, <2>4, <2>5, <2>6 DEF CalledBack
<1>10. CASE Handled
  <2>1. MovedUp /\ UNCHANGED said /\ entering' = NoRequest
    BY <1>10 DEF Handled
  <2>2. /\ \A i \in Counts(r)' : i + 1 \in Counts(r) /\ i + 1 # 1
        /\ \A i, k \in Counts(r)' : i + 1 = k + 1 => i = k
    BY <2>1, CountsAfterDelivery
  <2>3. /\ \A i, k \in Counts(r)' : i = k
        /\ Counts(r)' # {} => Counts(r) # {}
        /\ 1 \in Counts(r) => Counts(r)' = {}
    BY <1>3, <2>2
  <2>4. CASE UNCHANGED jobs
    BY <1>1, <1>3, <2>1, <2>3, <2>4 DEF Single
  <2>5. CASE /\ posted[1].signal = "init done" /\ posted[1].ret = "ok"
             /\ \E k \in Jobs : k.of = posted[1].of /\ jobs' = jobs \union {k}
    <3>1. r = posted[1].of => 1 \in Counts(r)
      BY <2>1, <2>5, DeliveredCounts
    <3>. QED
      BY <1>1, <1>3, <2>1, <2>3, <2>5, <3>1 DEF Single
  <2>. QED
    BY <1>10, <2>4, <2>5 DEF Handled, NewJob
<1>11. CASE Gone
  <2>1. DOMAIN << >> = {}
    OBVIOUS
  <2>2. Counts(r)' = {}
    BY <1>11, <2>1 DEF Gone, Counts
  <2>. QED
    BY <1>1, <1>11, <2>2 DEF Gone, Single
<1>12. CASE Stays
  <2>1. Counts(r)' = Counts(r) /\ UNCHANGED <<entering, jobs>>
    BY <1>12 DEF Stays, Counts
  <2>. QED
    BY <1>3, <2>1 DEF Single
<1>. QED
  BY <1>6, <1>7, <1>8, <1>9, <1>10, <1>11, <1>12 DEF LibStep

LEMMA OneAtATimeStep ==
    ASSUME TransportTypeOK, Kinded, Made, OneAtATime, LibStep
    PROVE  OneAtATime'
<1>1. \A r \in Requests : (r \in Uploads \/ "progress" \notin said'[r]) => Single(r)'
  BY SingleStep
<1>2. \A j, k \in jobs' : j.of = NoRequest /\ k.of = NoRequest => j = k
  <2>1. CASE Started
    BY <2>1 DEF Started
  <2>2. CASE ~Started
    <3>1. ASSUME NEW j \in jobs', j.of = NoRequest
          PROVE  j \in jobs
      <4>1. j \in jobs \/ j.of \in Uploads \/ j.of \in Downloads
        BY <2>2, <3>1, NewJobs
      <4>2. j.of \notin Uploads /\ j.of \notin Downloads
        BY <3>1, Markers DEF Requests
      <4>. QED
        BY <4>1, <4>2
    <3>. QED
      BY <3>1 DEF OneAtATime
  <2>. QED
    BY <2>1, <2>2
<1>. QED
  BY <1>1, <1>2 DEF OneAtATime

-----------------------------------------------------------------------------
(* ContextsOwned is preserved.                                               *)

Heap == {"start", "upload init", "upload file", "download"} \X Owners

LEMMA ContextOf ==
    ASSUME NEW j \in Jobs
    PROVE  /\ Context(j) \in Heap /\ Context(j)[2] = j.of
           /\ j.what = "start" => Context(j) = <<"start", j.of>> /\ Context(j)[1] = "start"
           /\ j.what \in {"download init", "download stream"} => Context(j)[1] = "download"
BY DEF Context, Jobs, Calls, Heap

LEMMA HeapType ==
    ASSUME TransportTypeOK, LibStep
    PROVE  contexts' \subseteq Heap
<1>1. contexts \subseteq Heap
  BY DEF TransportTypeOK, Heap
<1>2. <<"start", NoRequest>> \in Heap
  BY DEF Heap, Owners
<1>3. CASE Started
  BY <1>1, <1>2, <1>3 DEF Started
<1>4. ASSUME NEW what, NEW r, NewJob(what, r)
      PROVE  contexts' \subseteq Heap
  BY <1>1, <1>4, ContextOf DEF NewJob
<1>5. CASE Handled \/ \E r \in Requests : HandedOver(r)
  BY <1>1, <1>4, <1>5 DEF HandedOver, Handled
<1>6. CASE \E j \in jobs, ret \in Rets : CalledBack(j, ret)
  BY <1>1, <1>6 DEF CalledBack, Ends, Reports, Streams, StreamRefused
<1>7. CASE Gone \/ Stays \/ \E r \in Requests : Entered(r)
  BY <1>1, <1>7 DEF Gone, Stays, Entered
<1>. QED
  BY <1>3, <1>5, <1>6, <1>7 DEF LibStep

\* c is in order: some call will call back with it, or the exceptions apply.
Accounted(c) ==
    \/ c \in contexts /\ \E j \in jobs : Context(j) = c
    \/ c[1] = "start" /\ "new" \in said[NoRequest]
    \/ c[1] = "download" /\ "progress" \in said[c[2]]

InUse == contexts \union {Context(j) : j \in jobs}

LEMMA SameContext ==
    ASSUME TransportTypeOK, Kinded, OneAtATime,
           NEW j \in jobs, NEW k \in jobs, j # k, Context(j) = Context(k)
    PROVE  Context(j)[1] = "download" /\ "progress" \in said[Context(j)[2]]
<1>1. j.of = k.of /\ Context(j)[2] = j.of
  BY ContextOf, TransportTypes
<1>2. j.of # NoRequest
  BY <1>1 DEF OneAtATime
<1>3. ~Single(j.of)
  BY <1>1 DEF Single
<1>4. j.of \in Requests
  BY <1>2, JobTypes DEF Owners
<1>5. j.of \notin Uploads /\ "progress" \in said[j.of]
  BY <1>3, <1>4 DEF OneAtATime
<1>6. j.what \in {"download init", "download stream"}
  BY <1>2, <1>5, JobTypes DEF Calls
<1>. QED
  BY <1>1, <1>5, <1>6, ContextOf, TransportTypes

LEMMA AccountedStep ==
    ASSUME TransportTypeOK, Kinded, OneAtATime, \A c \in InUse : Accounted(c),
           LibStep, NEW c \in InUse'
    PROVE  ~alive' \/ Accounted(c)'
<1>1. InUse \subseteq Heap /\ c \in Heap
  <2>1. /\ \A j \in jobs : Context(j) \in Heap
        /\ \A j \in jobs' : Context(j) \in Heap
    BY ContextOf, JobsType, TransportTypes
  <2>2. contexts \subseteq Heap /\ contexts' \subseteq Heap
    BY HeapType DEF TransportTypeOK, Heap
  <2>. QED
    BY <2>1, <2>2 DEF InUse, Context
<1>2. c[2] \in Owners /\ NoRequest \in Owners
  BY <1>1 DEF Heap, Owners
<1>3. said[c[2]] \subseteq said'[c[2]] /\ said[NoRequest] \subseteq said'[NoRequest]
  BY <1>2, SaidGrows
<1>4. \A j \in jobs : Context(j) \in InUse
  BY DEF InUse
<1>5. \A j \in jobs' : Context(j)' = Context(j)
  BY DEF Context
<1>6. c \in InUse => Accounted(c)
  OBVIOUS
<1>7. c \in contexts' \/ \E j \in jobs' : Context(j) = c
  BY <1>5 DEF InUse
\* Nothing is freed and no call ends.
<1>8. ASSUME jobs \subseteq jobs', contexts \subseteq contexts', c \in InUse
      PROVE  Accounted(c)'
  BY <1>3, <1>6, <1>8, <1>5 DEF Accounted, Context
\* The context of a call that has just begun.
<1>9. ASSUME NEW what, NEW r, NewJob(what, r)
      PROVE  Accounted(c)'
  <2>1. PICK k \in Jobs : jobs' = jobs \union {k} /\ contexts' = contexts \union {Context(k)}
    BY <1>9 DEF NewJob
  <2>2. CASE c \in InUse
    BY <1>8, <2>1, <2>2
  <2>3. CASE c \notin InUse
    <3>1. c = Context(k)
      BY <1>4, <1>7, <2>1, <2>3 DEF InUse
    <3>. QED
      BY <1>5, <2>1, <3>1 DEF Accounted
  <2>. QED
    BY <2>2, <2>3
<1>10. ASSUME UNCHANGED <<jobs, contexts>>
       PROVE  Accounted(c)'
  <2>1. c \in InUse
    BY <1>4, <1>7, <1>10 DEF InUse
  <2>. QED
    BY <1>8, <1>10, <2>1
<1>11. CASE Started
  <2>1. \A d \in contexts : Accounted(d) /\ ~(\E j \in jobs : Context(j) = d)
    BY <1>11 DEF Started, InUse
  <2>2. CASE UNCHANGED jobs /\ UNCHANGED contexts
    BY <1>10, <2>2
  <2>3. CASE "new" \in said'[NoRequest] /\ UNCHANGED contexts
    <3>1. CASE c \in contexts
      BY <1>3, <2>1, <3>1 DEF Accounted
    <3>2. CASE \E j \in jobs' : Context(j) = c
      <4>1. c[1] = "start"
        BY <1>11, <3>2, ContextOf DEF Started
      <4>. QED
        BY <2>3, <4>1 DEF Accounted
    <3>. QED
      BY <1>7, <2>3, <3>1, <3>2
  <2>4. CASE /\ contexts' = contexts \union {<<"start", NoRequest>>}
             /\ \E k \in Jobs : k.what = "start" /\ k.of = NoRequest /\ jobs' = {k}
    <3>1. PICK k \in Jobs : k.what = "start" /\ k.of = NoRequest /\ jobs' = {k}
      BY <2>4
    <3>2. Context(k) = <<"start", NoRequest>>
      BY <3>1, ContextOf
    <3>3. CASE c = Context(k)
      BY <1>5, <2>4, <3>1, <3>2, <3>3 DEF Accounted
    <3>4. CASE c # Context(k)
      <4>1. c \in contexts
        BY <1>7, <2>4, <3>1, <3>2, <3>4
      <4>. QED
        BY <1>3, <2>1, <4>1 DEF Accounted
    <3>. QED
      BY <3>3, <3>4
  <2>5. jobs' = {} => UNCHANGED jobs
    BY <1>11 DEF Started
  <2>. QED
    BY <1>11, <2>2, <2>3, <2>4, <2>5 DEF Started, Told
<1>12. CASE \E j \in jobs, ret \in Rets : CalledBack(j, ret)
  <2>1. PICK j \in jobs, ret \in Rets : CalledBack(j, ret)
    BY <1>12
  <2>2. CASE Ends(j, ret)
    <3>1. jobs' = jobs \ {j} /\ contexts' = contexts \ {Context(j)}
      BY <2>2 DEF Ends
    <3>2. c \in InUse /\ Accounted(c)
      BY <1>4, <1>6, <1>7, <3>1 DEF InUse
    <3>3. CASE c = Context(j)
      <4>1. PICK k \in jobs : k # j /\ Context(k) = c
        BY <1>7, <3>1, <3>3
      <4>2. c[1] = "download" /\ "progress" \in said[c[2]]
        BY <3>3, <4>1, SameContext
      <4>. QED
        BY <1>3, <4>2 DEF Accounted
    <3>4. CASE c # Context(j)
      BY <1>3, <1>5, <3>1, <3>2, <3>4 DEF Accounted, Context
    <3>. QED
      BY <3>3, <3>4
  <2>3. CASE Streams(j)
    <3>1. PICK k \in Jobs : k.what = "download stream" /\ k.of = j.of /\ jobs' = jobs \union {k}
      BY <2>3 DEF Streams
    <3>2. UNCHANGED contexts /\ "progress" \in said'[j.of]
      BY <2>3 DEF Streams, Told
    <3>3. CASE c = Context(k)
      <4>1. c[1] = "download" /\ c[2] = j.of
        BY <3>1, <3>3, ContextOf
      <4>. QED
        BY <3>2, <4>1 DEF Accounted
    <3>4. CASE c # Context(k)
      <4>1. c \in InUse
        BY <1>4, <1>7, <3>1, <3>2, <3>4 DEF InUse
      <4>. QED
        BY <1>8, <3>1, <3>2, <4>1
    <3>. QED
      BY <3>3, <3>4
  <2>4. CASE StreamRefused(j)
    <3>1. UNCHANGED jobs /\ contexts' = contexts \ {Context(j)} /\ "progress" \in said'[j.of]
      BY <2>4 DEF StreamRefused, Told
    <3>2. Context(j)[1] = "download" /\ Context(j)[2] = j.of
      BY <2>4, ContextOf, TransportTypes DEF StreamRefused
    <3>3. c \in InUse /\ Accounted(c)
      BY <1>4, <1>6, <1>7, <3>1 DEF InUse
    <3>4. CASE c = Context(j)
      BY <3>1, <3>2, <3>4 DEF Accounted
    <3>5. CASE c # Context(j)
      BY <1>3, <1>5, <3>1, <3>3, <3>5 DEF Accounted, Context
    <3>. QED
      BY <3>4, <3>5
  <2>. QED
    BY <1>10, <2>1, <2>2, <2>3, <2>4 DEF CalledBack, Reports
<1>13. CASE (\E r \in Requests : HandedOver(r)) \/ Handled
  BY <1>9, <1>10, <1>13 DEF HandedOver, Handled
<1>14. CASE Stays \/ \E r \in Requests : Entered(r)
  BY <1>10, <1>14 DEF Stays, Entered
<1>15. CASE Gone
  BY <1>15 DEF Gone
<1>. QED
  BY <1>11, <1>12, <1>13, <1>14, <1>15 DEF LibStep

LEMMA ContextsStep ==
    ASSUME TransportTypeOK, Kinded, OneAtATime, ContextsOwned, LibStep, alive' => alive
    PROVE  ContextsOwned'
<1>. SUFFICES ASSUME alive'
              PROVE  ContextsOwned'
  BY DEF ContextsOwned
<1>1. \A c \in InUse : Accounted(c)
  BY DEF ContextsOwned, InUse, Accounted
<1>2. \A c \in InUse' : Accounted(c)'
  BY <1>1, AccountedStep
<1>. QED
  BY <1>2 DEF ContextsOwned, InUse, Accounted

-----------------------------------------------------------------------------
(* What the transport and the library have in hand.                          *)

OnItsWay(r) == \E i \in DOMAIN posted : posted[i].of = r
InLibrary(r) == \E j \in jobs : j.of = r

LEMMA WorkingIs ==
    /\ \A r : r \in Working <=> r \in Requests /\ (entering = r \/ InLibrary(r) \/ OnItsWay(r))
    /\ \A r : r \in Working' <=> r \in Requests /\ (entering' = r \/ InLibrary(r)' \/ OnItsWay(r)')
BY DEF Working, Requests, InLibrary, OnItsWay

LEMMA PostedOnItsWay ==
    ASSUME NEW signal, NEW r, NEW ret, Posted(signal, r, ret)
    PROVE  \A q : OnItsWay(q)' <=> OnItsWay(q) \/ q = r
<1>1. PICK n \in DOMAIN posted' :
         /\ posted'[n] = [signal |-> signal, of |-> r, ret |-> ret]
         /\ DOMAIN posted' = DOMAIN posted \union {n}
  BY DEF Posted
<1>2. posted'[n].of = r
  BY <1>1
<1>3. \A i \in DOMAIN posted : i \in DOMAIN posted' /\ posted'[i] = posted[i]
  BY DEF Posted
<1>. QED
  BY <1>1, <1>2, <1>3 DEF OnItsWay

LEMMA DeliveredOnItsWay ==
    ASSUME MovedUp
    PROVE  \A q : /\ OnItsWay(q)' => OnItsWay(q)
                  /\ OnItsWay(q) /\ q # posted[1].of => OnItsWay(q)'
<1>1. \A i \in DOMAIN posted' : i + 1 \in DOMAIN posted /\ posted'[i] = posted[i + 1]
  BY DEF MovedUp
<1>2. \A n \in DOMAIN posted : n # 1 => \E i \in DOMAIN posted' : n = i + 1
  BY DEF MovedUp
<1>3. ASSUME NEW q, OnItsWay(q), q # posted[1].of
      PROVE  OnItsWay(q)'
  <2>1. PICK n \in DOMAIN posted : posted[n].of = q /\ n # 1
    BY <1>3 DEF OnItsWay
  <2>2. PICK i \in DOMAIN posted' : n = i + 1
    BY <1>2, <2>1
  <2>. QED
    BY <1>1, <2>1, <2>2 DEF OnItsWay
<1>. QED
  BY <1>1, <1>3 DEF OnItsWay

\* The library's callbacks, and start, take nothing out of hand.
LEMMA CallbacksKeepWorking ==
    ASSUME TransportTypeOK, Kinded, Started \/ (\E j \in jobs, ret \in Rets : CalledBack(j, ret)) \/ Stays
    PROVE  Working' = Working
<1>1. CASE Started
  <2>1. \A q \in Requests : OnItsWay(q)' <=> OnItsWay(q)
    <3>1. CASE Posted("started", NoRequest, "ok")
      BY <3>1, PostedOnItsWay, Markers
    <3>2. CASE UNCHANGED posted
      BY <3>2 DEF OnItsWay
    <3>. QED
      BY <1>1, <3>1, <3>2 DEF Started
  <2>2. \A q \in Requests : InLibrary(q)' <=> InLibrary(q)
    BY <1>1, Markers DEF Started, InLibrary
  <2>. QED
    BY <1>1, <2>1, <2>2, WorkingIs DEF Started
<1>2. CASE \E j \in jobs, ret \in Rets : CalledBack(j, ret)
  <2>1. PICK j \in jobs, ret \in Rets : CalledBack(j, ret)
    BY <1>2
  <2>2. InLibrary(j.of)
    BY DEF InLibrary
  <2>3. UNCHANGED entering
    BY <2>1 DEF CalledBack
  <2>4. CASE Ends(j, ret)
    <3>1. \A q : OnItsWay(q)' <=> OnItsWay(q) \/ q = j.of
      BY <2>4, PostedOnItsWay DEF Ends
    <3>2. \A q : q # j.of => (InLibrary(q)' <=> InLibrary(q))
      BY <2>4 DEF Ends, InLibrary
    <3>. QED
      BY <2>2, <2>3, <3>1, <3>2, WorkingIs
  <2>5. CASE Reports(j) \/ StreamRefused(j)
    <3>1. \A q : OnItsWay(q)' <=> OnItsWay(q) \/ q = j.of
      BY <2>5, PostedOnItsWay DEF Reports, StreamRefused
    <3>2. \A q : InLibrary(q)' <=> InLibrary(q)
      BY <2>5 DEF Reports, StreamRefused, InLibrary
    <3>. QED
      BY <2>2, <2>3, <3>1, <3>2, WorkingIs
  <2>6. CASE Streams(j)
    <3>1. \A q : OnItsWay(q)' <=> OnItsWay(q)
      BY <2>6 DEF Streams, OnItsWay
    <3>2. \A q : InLibrary(q)' <=> InLibrary(q)
      BY <2>2, <2>6 DEF Streams, InLibrary
    <3>. QED
      BY <2>3, <3>1, <3>2, WorkingIs
  <2>7. CASE UNCHANGED <<jobs, contexts, said, posted>>
    BY <2>3, <2>7 DEF Working
  <2>. QED
    BY <2>1, <2>4, <2>5, <2>6, <2>7 DEF CalledBack
<1>3. CASE Stays
  BY <1>3 DEF Stays, Working
<1>. QED
  BY <1>1, <1>2, <1>3

LEMMA NewJobInLibrary ==
    ASSUME NEW what, NEW r, NewJob(what, r)
    PROVE  \A q : InLibrary(q)' <=> InLibrary(q) \/ q = r
BY DEF NewJob, InLibrary

\* The main thread takes at most the request it works on out of hand, and not
\* that one either when it begins a new call of the library for it.
LEMMA EnteringWorking ==
    ASSUME TransportTypeOK, NEW r \in Requests, Entered(r)
    PROVE  Working' = Working \union {r}
<1>1. \A q : (InLibrary(q)' <=> InLibrary(q)) /\ (OnItsWay(q)' <=> OnItsWay(q))
  BY DEF Entered, InLibrary, OnItsWay
<1>. QED
  BY <1>1, WorkingIs, Markers DEF Entered

LEMMA HandedOverWorking ==
    ASSUME TransportTypeOK, NEW r \in Requests, HandedOver(r)
    PROVE  /\ r \in Working
           /\ Working' = Working \/ (UNCHANGED jobs /\ Working' = Working \ {r})
           /\ UNCHANGED jobs \/ Working' = Working
<1>1. entering = r /\ entering' = NoRequest /\ NoRequest \notin Requests
  BY Markers DEF HandedOver
<1>2. \A q : OnItsWay(q)' <=> OnItsWay(q)
  BY DEF HandedOver, OnItsWay
<1>3. r \in Working
  BY <1>1, WorkingIs
<1>4. CASE UNCHANGED jobs
  <2>1. \A q : InLibrary(q)' <=> InLibrary(q)
    BY <1>4 DEF InLibrary
  <2>. QED
    BY <1>1, <1>2, <1>3, <1>4, <2>1, WorkingIs
<1>5. CASE \E what : NewJob(what, r)
  <2>1. \A q : InLibrary(q)' <=> InLibrary(q) \/ q = r
    BY <1>5, NewJobInLibrary
  <2>. QED
    BY <1>1, <1>2, <1>3, <2>1, WorkingIs
<1>. QED
  BY <1>4, <1>5 DEF HandedOver

LEMMA HandledWorking ==
    ASSUME TransportTypeOK, Handled
    PROVE  /\ posted[1].of \in Requests => posted[1].of \in Working
           /\ Working' = Working \/ (UNCHANGED jobs /\ Working' = Working \ {posted[1].of})
           /\ UNCHANGED jobs \/ Working' = Working
           /\ posted[1].of = NoRequest => Working' = Working
<1>1. entering = NoRequest /\ entering' = NoRequest /\ NoRequest \notin Requests
  BY Markers DEF Handled
<1>2. \A q : /\ OnItsWay(q)' => OnItsWay(q)
             /\ OnItsWay(q) /\ q # posted[1].of => OnItsWay(q)'
  BY DeliveredOnItsWay DEF Handled
<1>3. OnItsWay(posted[1].of)
  BY DEF Handled, MovedUp, OnItsWay
<1>4. CASE UNCHANGED jobs
  <2>1. \A q : InLibrary(q)' <=> InLibrary(q)
    BY <1>4 DEF InLibrary
  <2>. QED
    BY <1>1, <1>2, <1>3, <1>4, <2>1, WorkingIs
<1>5. CASE \E what : NewJob(what, posted[1].of)
  <2>1. \A q : InLibrary(q)' <=> InLibrary(q) \/ q = posted[1].of
    BY <1>5, NewJobInLibrary
  <2>. QED
    BY <1>1, <1>2, <1>3, <2>1, WorkingIs
<1>. QED
  BY <1>4, <1>5 DEF Handled

LEMMA GoneWorking ==
    ASSUME Gone
    PROVE  Working' = {}
<1>1. DOMAIN << >> = {}
  OBVIOUS
<1>2. \A q : ~InLibrary(q)' /\ ~OnItsWay(q)'
  BY <1>1 DEF Gone, InLibrary, OnItsWay
<1>. QED
  BY <1>2, WorkingIs, Markers DEF Gone

-----------------------------------------------------------------------------
(* The steps, as far as the client is concerned.                             *)

Quiet ==
    /\ UNCHANGED <<pending, replies, called>>
    /\ timers' \in SUBSET Requests
    /\ Working' \subseteq Working

Opened(r) ==
    /\ r \in Requests \ called /\ called' = called \union {r}
    /\ pending[Client!Kind(r)] = NoRequest
    /\ pending' = [pending EXCEPT ![Client!Kind(r)] = r]
    /\ timers' \in SUBSET Requests
    /\ UNCHANGED replies
    /\ Working' = Working \union {r}

\* What the event that ends r may tell the request in the slot.
Announced(r) ==
    /\ r \in Requests /\ r \in Working /\ Working' \subseteq Working
    /\ UNCHANGED called
    /\ "progress" \notin said[r] => r \notin Working'
    /\ \E text \in Client!Texts :
         /\ Answered(Client!Kind(r), "done", text)
         /\ r \in Uploads => text \in {Empty, r}

Expired(k) ==
    /\ k \in {"upload", "download"}
    /\ UNCHANGED called /\ Working' = Working
    /\ Answered(k, "timeout", Empty)

Closed ==
    /\ Working' = {} /\ UNCHANGED called /\ timers' = {}
    /\ pending' = [k \in {"upload", "download"} |-> NoRequest]
    /\ replies' \in [Requests -> Seq(Client!Replies)]
    /\ \A r \in Requests : \A i \in DOMAIN replies[r] :
         i \in DOMAIN replies'[r] /\ replies'[r][i] = replies[r][i]
    /\ \A r \in Requests : \A i \in DOMAIN replies'[r] :
         i \in DOMAIN replies[r] \/ replies'[r][i] = [why |-> "destroyed", text |-> Empty]

SlotStep ==
    \/ Quiet
    \/ \E r \in Requests : Opened(r)
    \/ \E r \in Requests : Announced(r)
    \/ \E k \in {"upload", "download"} : Expired(k)
    \/ Closed

LEMMA EventTexts ==
    ASSUME NEW text
    PROVE  /\ Client!IsCid(<< >>, text) => text = Empty
           /\ \A r : Client!IsCid(<<r>>, text) => text \in {Empty, r}
<1>1. DOMAIN << >> = {}
  OBVIOUS
<1>2. \A r : DOMAIN <<r>> = {1} /\ <<r>>[1] = r
  OBVIOUS
<1>3. Client!IsCid(<< >>, text) => text = Empty
  BY <1>1 DEF Client!IsCid
<1>4. \A r : Client!IsCid(<<r>>, text) => text \in {Empty, r}
  BY <1>2 DEF Client!IsCid
<1>. QED
  BY <1>3, <1>4

LEMMA DestroyReplies ==
    ASSUME TransportTypeOK, Destroy
    PROVE  /\ replies' \in [Requests -> Seq(Client!Replies)]
           /\ \A r \in Requests : \A i \in DOMAIN replies[r] :
                i \in DOMAIN replies'[r] /\ replies'[r][i] = replies[r][i]
           /\ \A r \in Requests : \A i \in DOMAIN replies'[r] :
                i \in DOMAIN replies[r] \/ replies'[r][i] = [why |-> "destroyed", text |-> Empty]
<1>. DEFINE e == [why |-> "destroyed", text |-> Empty]
            R == Client!Replies
<1>1. e \in R
  BY ClientNames DEF Client!Replies, Client!Closings
<1>2. replies \in [Requests -> Seq(R)]
  BY TransportTypes
<1>3. replies' = [r \in Requests |-> IF pending[Client!Kind(r)] = r THEN Append(replies[r], e)
                                                                    ELSE replies[r]]
  BY ClientNames DEF Destroy, Client!Destroy
<1>. HIDE DEF e, R
<1>4. ASSUME NEW r \in Requests
      PROVE  /\ replies'[r] \in Seq(R)
             /\ \A i \in DOMAIN replies[r] : i \in DOMAIN replies'[r] /\ replies'[r][i] = replies[r][i]
             /\ \A i \in DOMAIN replies'[r] : i \in DOMAIN replies[r] \/ replies'[r][i] = e
  <2>1. replies[r] \in Seq(R)
    BY <1>2
  <2>2. CASE pending[Client!Kind(r)] = r
    <3>1. replies'[r] = Append(replies[r], e)
      BY <1>3, <2>2
    <3>2. /\ Append(replies[r], e) \in Seq(R)
          /\ \A i \in DOMAIN replies[r] :
               i \in DOMAIN Append(replies[r], e) /\ Append(replies[r], e)[i] = replies[r][i]
          /\ \E n \in DOMAIN Append(replies[r], e) :
               Append(replies[r], e)[n] = e /\ DOMAIN Append(replies[r], e) = DOMAIN replies[r] \union {n}
      BY <1>1, <2>1, AppendFacts
    <3>. QED
      BY <3>1, <3>2
  <2>3. CASE pending[Client!Kind(r)] # r
    BY <1>3, <2>1, <2>3
  <2>. QED
    BY <2>2, <2>3
<1>5. replies' \in [Requests -> Seq(R)]
  BY <1>3, <1>4
<1>. QED
  BY <1>4, <1>5 DEF e, R

\* A request whose only call or signal is done with is out of hand.
LEMMA LastSignal ==
    ASSUME TransportTypeOK, OneAtATime, Handled, UNCHANGED jobs,
           posted[1].of \in Requests, "progress" \notin said[posted[1].of]
    PROVE  posted[1].of \notin Working'
<1>. PICK r \in Requests : r = posted[1].of
  OBVIOUS
<1>1. Single(r) /\ 1 \in Counts(r) /\ MovedUp
  BY DeliveredCounts DEF OneAtATime, Handled
<1>2. \A j \in jobs : j.of # r
  BY <1>1 DEF Single
<1>3. \A i \in Counts(r)' : FALSE
  BY <1>1, CountsAfterDelivery DEF Handled, Single
<1>4. \A i \in DOMAIN posted' : posted'[i].of # r
  BY <1>3 DEF Counts, Handled
<1>5. entering' # r
  BY Markers DEF Handled
<1>. QED
  BY <1>2, <1>4, <1>5, WorkingIs DEF InLibrary, OnItsWay

LEMMA RefusedUrl ==
    ASSUME TransportTypeOK, OneAtATime, NEW r \in Requests, HandedOver(r), UNCHANGED jobs,
           "progress" \notin said[r]
    PROVE  r \notin Working'
<1>1. Counts(r) = {} /\ (\A j \in jobs : j.of # r)
  BY DEF OneAtATime, Single, HandedOver
<1>2. \A i \in DOMAIN posted' : posted'[i].of # r
  BY <1>1 DEF Counts, HandedOver
<1>3. entering' # r
  BY Markers DEF HandedOver
<1>. QED
  BY <1>1, <1>2, <1>3, WorkingIs DEF InLibrary, OnItsWay

LEMMA SlotSteps ==
    ASSUME TransportTypeOK, Kinded, OneAtATime, [TransportNext]_vars
    PROVE  SlotStep /\ (UNCHANGED alive \/ Gone)
<1>1. CASE Start
  <2>1. Started
    BY <1>1, StartMoves
  <2>2. Working' = Working
    BY <2>1, CallbacksKeepWorking
  <2>. QED
    BY <1>1, <2>2, TransportTypes DEF Start, restVars, slotVars, SlotStep, Quiet
<1>2. CASE \E r \in Requests : Call(r)
  <2>1. PICK r \in Requests : Call(r)
    BY <1>2
  <2>2. /\ Entered(r) /\ UNCHANGED <<alive, replies>> /\ called' = called \union {r}
        /\ pending[Client!Kind(r)] = NoRequest
        /\ pending' = [pending EXCEPT ![Client!Kind(r)] = r]
        /\ timers' \in SUBSET Requests
    BY <2>1, CallMoves, TransportTypes
  <2>3. Working' = Working \union {r} /\ r \notin called
    BY <2>2, EnteringWorking DEF Entered
  <2>. QED
    BY <2>2, <2>3 DEF SlotStep, Opened
<1>3. CASE \E r \in Requests : UploadOrDownloadUrl(r)
  <2>1. PICK r \in Requests : UploadOrDownloadUrl(r)
    BY <1>3
  <2>2. /\ HandedOver(r) /\ UNCHANGED restVars
        /\ \/ UNCHANGED slotVars
           \/ /\ FireEvent(r, IF r \in Uploads THEN << >> ELSE <<ErrorText>>)
              /\ UNCHANGED jobs
    BY <2>1, UrlMoves
  <2>3. r \in Working /\ Working' \subseteq Working
    BY <2>2, HandedOverWorking
  <2>4. CASE UNCHANGED slotVars
    BY <2>2, <2>3, <2>4, TransportTypes DEF restVars, slotVars, SlotStep, Quiet
  <2>5. CASE ~UNCHANGED slotVars
    <3>1. PICK text \in Client!Texts :
            /\ Answered(Client!Kind(r), "done", text)
            /\ IF Client!Kind(r) = "upload"
               THEN Client!IsCid(IF r \in Uploads THEN << >> ELSE <<ErrorText>>, text)
               ELSE Client!IsError(IF r \in Uploads THEN << >> ELSE <<ErrorText>>,
                                   pending[Client!Kind(r)], text)
      BY <2>2, <2>5, FireMoves
    <3>2. r \in Uploads => text = Empty
      BY <3>1, EventTexts, ClientNames
    <3>3. "progress" \notin said[r] => r \notin Working'
      BY <2>2, <2>5, RefusedUrl
    <3>. QED
      BY <2>2, <2>3, <3>1, <3>2, <3>3 DEF restVars, SlotStep, Announced
  <2>. QED
    BY <2>4, <2>5
<1>4. CASE \E j \in jobs, ret \in Rets : CallsBack(j, ret)
  <2>1. PICK j \in jobs, ret \in Rets : CallsBack(j, ret)
    BY <1>4
  <2>2. CalledBack(j, ret) /\ UNCHANGED <<restVars, slotVars>>
    BY <2>1, CallbackMoves DEF CalledBack
  <2>3. Working' = Working
    BY <2>2, CallbacksKeepWorking
  <2>. QED
    BY <2>2, <2>3, TransportTypes DEF restVars, slotVars, SlotStep, Quiet
<1>5. CASE OnStorageStarted
  <2>1. Handled /\ UNCHANGED <<restVars, slotVars, jobs>>
    BY <1>5, StartedMoves
  <2>2. Working' \subseteq Working
    BY <2>1, HandledWorking
  <2>. QED
    BY <2>1, <2>2, TransportTypes DEF restVars, slotVars, SlotStep, Quiet
<1>6. CASE OnUploadInitDone \/ OnUploadFileDone \/ OnDownloadDone
  <2>1. /\ Handled /\ posted[1].of \in Requests /\ UNCHANGED restVars
        /\ \/ UNCHANGED slotVars
           \/ /\ UNCHANGED jobs
              /\ posted[1].of \in Uploads => \E args \in {<< >>, <<posted[1].of>>} :
                    FireEvent(posted[1].of, args)
              /\ posted[1].of \in Downloads => \E args \in {<< >>, <<Empty>>, <<ErrorText>>} :
                    FireEvent(posted[1].of, args)
    BY <1>6, DoneMoves
  <2>2. posted[1].of \in Working /\ Working' \subseteq Working
    BY <2>1, HandledWorking
  <2>3. CASE UNCHANGED slotVars
    BY <2>1, <2>2, <2>3, TransportTypes DEF restVars, slotVars, SlotStep, Quiet
  <2>4. CASE ~UNCHANGED slotVars
    <3>1. PICK r \in Requests : r = posted[1].of
      BY <2>1
    <3>2. "progress" \notin said[r] => r \notin Working'
      BY <2>1, <2>4, <3>1, LastSignal
    <3>3. CASE r \in Uploads
      <4>1. PICK args \in {<< >>, <<r>>} : FireEvent(r, args)
        BY <2>1, <2>4, <3>1, <3>3
      <4>2. PICK text \in Client!Texts :
              Answered(Client!Kind(r), "done", text) /\ Client!IsCid(args, text)
        BY <2>4, <3>3, <4>1, FireMoves, ClientNames
      <4>3. text \in {Empty, r} /\ r \notin Downloads
        BY <3>3, <4>1, <4>2, EventTexts, Markers
      <4>. QED
        BY <2>1, <2>2, <3>1, <3>2, <4>2, <4>3 DEF restVars, SlotStep, Announced
    <3>4. CASE r \in Downloads
      <4>1. PICK args \in {<< >>, <<Empty>>, <<ErrorText>>} : FireEvent(r, args)
        BY <2>1, <2>4, <3>1, <3>4
      <4>2. Client!Kind(r) = "download" /\ r \notin Uploads
        BY <3>4, ClientNames, Markers
      <4>3. PICK text \in Client!Texts :
              Answered(Client!Kind(r), "done", text)
        BY <2>4, <4>1, <4>2, FireMoves
      <4>. QED
        BY <2>1, <2>2, <3>1, <3>2, <4>2, <4>3 DEF restVars, SlotStep, Announced
    <3>. QED
      BY <3>3, <3>4 DEF Requests
  <2>. QED
    BY <2>3, <2>4
<1>7. CASE \E r \in Requests : TimerFires(r)
  <2>1. PICK r \in Requests : TimerFires(r)
    BY <1>7
  <2>2. /\ Stays /\ UNCHANGED restVars
        /\ \/ UNCHANGED <<pending, replies>> /\ timers' \in SUBSET Requests
           \/ Answered(Client!Kind(r), "timeout", Empty)
    BY <2>1, TimerMoves
  <2>3. Working' = Working
    BY <2>2, CallbacksKeepWorking
  <2>. QED
    BY <2>2, <2>3, ClientNames DEF restVars, SlotStep, Quiet, Expired
<1>8. CASE Destroy
  BY <1>8, DestroyMoves, DestroyReplies, GoneWorking DEF SlotStep, Closed
<1>9. CASE UNCHANGED vars
  <2>1. Stays /\ UNCHANGED <<restVars, slotVars>>
    BY <1>9 DEF vars, libVars, Stays
  <2>2. Working' = Working
    BY <2>1, CallbacksKeepWorking
  <2>. QED
    BY <2>1, <2>2, TransportTypes DEF restVars, slotVars, SlotStep, Quiet
<1>. QED
  BY <1>1, <1>2, <1>3, <1>4, <1>5, <1>6, <1>7, <1>8, <1>9 DEF TransportNext

-----------------------------------------------------------------------------
(* Made and the routing are preserved.                                       *)

LEMMA MadeStep ==
    ASSUME TransportTypeOK, Made, LibStep, SlotStep, UNCHANGED alive \/ Gone
    PROVE  Made'
<1>1. Working' \subseteq called'
  BY DEF Made, SlotStep, Quiet, Opened, Announced, Expired, Closed
<1>2. ASSUME NEW k \in {"upload", "download"}, pending'[k] # NoRequest
      PROVE  pending'[k] \in called' /\ Client!Kind(pending'[k]) = k
  <2>1. pending \in [{"upload", "download"} -> Requests \union {NoRequest}]
    BY TransportTypes
  <2>2. pending[k] # NoRequest => pending[k] \in called /\ Client!Kind(pending[k]) = k
    BY DEF Made
  <2>3. CASE Quiet
    BY <1>2, <2>2, <2>3 DEF Quiet
  <2>4. ASSUME NEW r \in Requests, Opened(r)
        PROVE  pending'[k] \in called' /\ Client!Kind(pending'[k]) = k
    BY <1>2, <2>1, <2>2, <2>4 DEF Opened
  <2>5. ASSUME NEW n \in {"upload", "download"}, NEW why, NEW text, Answered(n, why, text),
               UNCHANGED called
        PROVE  pending'[k] \in called' /\ Client!Kind(pending'[k]) = k
    BY <1>2, <2>1, <2>2, <2>5 DEF Answered
  <2>6. CASE Closed
    BY <1>2, <2>6 DEF Closed
  <2>. QED
    BY <2>3, <2>4, <2>5, <2>6, ClientNames DEF SlotStep, Announced, Expired
<1>3. entering' # NoRequest => alive'
  BY DEF Made, LibStep, Started, Entered, HandedOver, CalledBack, Handled, Gone, Stays
<1>. QED
  BY <1>1, <1>2, <1>3 DEF Made

LEMMA GrownStep ==
    ASSUME TransportTypeOK, LibStep, SlotStep
    PROVE  Grown
<1>1. ASSUME NEW k, NEW why, NEW text, Answered(k, why, text)
      PROVE  \A r \in Requests : \A i \in DOMAIN replies[r] :
               i \in DOMAIN replies'[r] /\ replies'[r][i] = replies[r][i]
  BY <1>1 DEF Answered
<1>2. UNCHANGED replies =>
        \A r \in Requests : \A i \in DOMAIN replies[r] :
          i \in DOMAIN replies'[r] /\ replies'[r][i] = replies[r][i]
  OBVIOUS
<1>3. \A r \in Requests : \A i \in DOMAIN replies[r] :
        i \in DOMAIN replies'[r] /\ replies'[r][i] = replies[r][i]
  BY <1>1, <1>2 DEF SlotStep, Quiet, Opened, Announced, Expired, Closed
<1>. QED
  BY <1>3, SaidGrows DEF Grown

\* While nothing of its kind times out or meets progress, the request the
\* transport works on is the one in the slot.
InSlot(k, S) == \A r \in S \intersect Working : pending[k] = r

LEMMA InSlotStep ==
    ASSUME TransportTypeOK, Made, LibStep, SlotStep,
           NEW k \in {"upload", "download"}, NEW S \in SUBSET Requests,
           \A r \in Requests : r \in S <=> Client!Kind(r) = k,
           Smooth(S), InSlot(k, S), Smooth(S)'
    PROVE  InSlot(k, S)'
<1>. SUFFICES ASSUME NEW r \in S, r \in Working'
              PROVE  pending'[k] = r
  BY DEF InSlot
<1>1. pending \in [{"upload", "download"} -> Requests \union {NoRequest}] /\ r \in Requests
  BY TransportTypes
<1>2. r \in Working => pending[k] = r
  BY DEF InSlot
<1>3. CASE Quiet
  BY <1>2, <1>3 DEF Quiet
<1>4. CASE \E q \in Requests : Opened(q)
  <2>1. PICK q \in Requests : Opened(q)
    BY <1>4
  <2>2. CASE r = q
    BY <1>1, <2>1, <2>2 DEF Opened
  <2>3. CASE r # q
    <3>1. pending[k] = r /\ r # NoRequest
      BY <1>1, <1>2, <2>1, <2>3, Markers DEF Opened
    <3>. QED
      BY <1>1, <2>1, <3>1 DEF Opened
  <2>. QED
    BY <2>2, <2>3
<1>5. CASE \E q \in Requests : Announced(q)
  <2>1. PICK q \in Requests : Announced(q)
    BY <1>5
  <2>2. pending[k] = r
    BY <1>2, <2>1 DEF Announced
  <2>3. CASE Client!Kind(q) = k
    <3>1. q \in S /\ q \in Working /\ pending[k] = q
      BY <2>1, <2>3 DEF Announced, InSlot
    <3>2. q \notin Working'
      BY <2>1, <3>1 DEF Announced, Smooth
    <3>. QED
      BY <2>2, <3>1, <3>2
  <2>4. CASE Client!Kind(q) # k
    BY <1>1, <2>1, <2>2, <2>4 DEF Announced, Answered
  <2>. QED
    BY <2>3, <2>4
<1>6. CASE \E n \in {"upload", "download"} : Expired(n)
  <2>1. PICK n \in {"upload", "download"} : Expired(n)
    BY <1>6
  <2>2. pending[k] = r
    BY <1>2, <2>1 DEF Expired
  <2>3. CASE n = k
    <3>1. \E i \in DOMAIN replies'[r] : replies'[r][i] = [why |-> "timeout", text |-> Empty]
      BY <2>1, <2>2, <2>3 DEF Expired, Answered
    <3>2. \E i \in DOMAIN replies'[r] : replies'[r][i].why = "timeout"
      BY <3>1
    <3>. QED
      BY <3>2 DEF Smooth, Client!GivenUp
  <2>4. CASE n # k
    BY <1>1, <2>1, <2>2, <2>4 DEF Expired, Answered
  <2>. QED
    BY <2>3, <2>4
<1>7. CASE Closed
  BY <1>7 DEF Closed
<1>. QED
  BY <1>3, <1>4, <1>5, <1>6, <1>7 DEF SlotStep

\* The entries a step adds to the histories: to that of the request in the slot
\* of the announced one, or none with a text of its own.
LEMMA NewReplies ==
    ASSUME TransportTypeOK, Made, SlotStep,
           NEW q \in Requests, NEW i \in DOMAIN replies'[q]
    PROVE  \/ i \in DOMAIN replies[q] /\ replies'[q][i] = replies[q][i]
           \/ replies'[q][i].why \in {"timeout", "destroyed"} /\ replies'[q][i].text = Empty
           \/ \E r \in Requests \intersect Working :
                /\ pending[Client!Kind(r)] = q /\ Client!Kind(q) = Client!Kind(r)
                /\ r \in Uploads => replies'[q][i].text \in {Empty, r}
<1>1. CASE Quiet \/ \E r \in Requests : Opened(r)
  BY <1>1 DEF Quiet, Opened
<1>2. CASE \E r \in Requests : Announced(r)
  <2>1. PICK r \in Requests : Announced(r)
    BY <1>2
  <2>2. PICK text \in Client!Texts :
          /\ Answered(Client!Kind(r), "done", text)
          /\ r \in Uploads => text \in {Empty, r}
    BY <2>1 DEF Announced
  <2>3. CASE q = pending[Client!Kind(r)]
    <3>1. \/ i \in DOMAIN replies[q]
          \/ replies'[q][i] = [why |-> "done", text |-> text]
      BY <2>2, <2>3 DEF Answered
    <3>2. i \in DOMAIN replies[q] => replies'[q][i] = replies[q][i]
      BY <2>2, <2>3 DEF Answered
    <3>3. CASE replies'[q][i] = [why |-> "done", text |-> text]
      <4>1. replies'[q][i].text = text
        BY <3>3
      <4>2. Client!Kind(q) = Client!Kind(r)
        BY <2>3, ClientNames, Markers DEF Made
      <4>. QED
        BY <2>1, <2>2, <2>3, <4>1, <4>2 DEF Announced
    <3>. QED
      BY <3>1, <3>2, <3>3
  <2>4. CASE q # pending[Client!Kind(r)]
    BY <2>2, <2>4 DEF Answered
  <2>. QED
    BY <2>3, <2>4
<1>3. CASE \E k \in {"upload", "download"} : Expired(k)
  <2>1. PICK k \in {"upload", "download"} : Answered(k, "timeout", Empty)
    BY <1>3 DEF Expired
  <2>2. \/ i \in DOMAIN replies[q] /\ replies'[q][i] = replies[q][i]
        \/ replies'[q][i] = [why |-> "timeout", text |-> Empty]
    BY <2>1 DEF Answered
  <2>. QED
    BY <2>2
<1>4. CASE Closed
  <2>1. \/ i \in DOMAIN replies[q] /\ replies'[q][i] = replies[q][i]
        \/ replies'[q][i] = [why |-> "destroyed", text |-> Empty]
    BY <1>4 DEF Closed
  <2>. QED
    BY <2>1
<1>. QED
  BY <1>1, <1>2, <1>3, <1>4 DEF SlotStep

LEMMA UploadRoutingStep ==
    ASSUME TransportTypeOK, Made, LibStep, SlotStep, UploadRouting
    PROVE  UploadRouting'
<1>. SUFFICES ASSUME Smooth(Uploads)'
              PROVE  Client!OwnCid' /\ InSlot("upload", Uploads)'
  BY DEF UploadRouting, InSlot
<1>1. Uploads \in SUBSET Requests
  BY DEF Requests
<1>2. Smooth(Uploads)
  BY <1>1, GrownStep, SmoothBefore
<1>3. Client!OwnCid /\ InSlot("upload", Uploads)
  BY <1>2 DEF UploadRouting, InSlot
<1>4. \A r \in Requests : r \in Uploads <=> Client!Kind(r) = "upload"
  BY ClientNames DEF Requests, Client!Kind
<1>5. InSlot("upload", Uploads)'
  BY <1>1, <1>2, <1>3, <1>4, InSlotStep
<1>6. ASSUME NEW q \in Uploads, NEW i \in DOMAIN replies'[q]
      PROVE  replies'[q][i].text \in {q, Empty}
  <2>1. q \in Requests
    BY <1>1
  <2>2. CASE i \in DOMAIN replies[q] /\ replies'[q][i] = replies[q][i]
    BY <1>3, <2>2 DEF Client!OwnCid
  <2>3. CASE \E r \in Requests \intersect Working :
               /\ pending[Client!Kind(r)] = q /\ Client!Kind(q) = Client!Kind(r)
               /\ r \in Uploads => replies'[q][i].text \in {Empty, r}
    <3>1. PICK r \in Requests \intersect Working :
               /\ pending[Client!Kind(r)] = q /\ Client!Kind(q) = Client!Kind(r)
               /\ r \in Uploads => replies'[q][i].text \in {Empty, r}
      BY <2>3
    <3>2. r \in Uploads /\ Client!Kind(r) = "upload"
      BY <1>4, <2>1, <3>1
    <3>3. r = q
      BY <1>3, <3>1, <3>2 DEF InSlot
    <3>. QED
      BY <3>1, <3>2, <3>3
  <2>. QED
    BY <2>1, <2>2, <2>3, NewReplies
<1>. QED
  BY <1>5, <1>6 DEF Client!OwnCid

-----------------------------------------------------------------------------
(* The invariant.                                                            *)

LEMMA SlotTypes ==
    ASSUME TransportTypeOK, SlotStep
    PROVE  /\ pending' \in [{"upload", "download"} -> Requests \union {NoRequest}]
           /\ timers' \in SUBSET Requests /\ called' \in SUBSET Requests
           /\ replies' \in [Requests -> Seq(Client!Replies)]
<1>. DEFINE P == [{"upload", "download"} -> Requests \union {NoRequest}]
            H == [Requests -> Seq(Client!Replies)]
<1>1. pending \in P /\ timers \in SUBSET Requests /\ called \in SUBSET Requests /\ replies \in H
  BY TransportTypes
<1>2. \A k : \A q \in Requests \union {NoRequest} : [pending EXCEPT ![k] = q] \in P
  BY <1>1
<1>3. [k \in {"upload", "download"} |-> NoRequest] \in P
  OBVIOUS
<1>. HIDE DEF P, H
<1>4. ASSUME NEW k, NEW why, NEW text, Answered(k, why, text)
      PROVE  pending' \in P /\ timers' \in SUBSET Requests /\ replies' \in H
  BY <1>2, <1>4 DEF Answered, H
<1>5. pending' \in P
  <2>1. ASSUME NEW r \in Requests, Opened(r)
        PROVE  pending' \in P
    <3>1. [pending EXCEPT ![Client!Kind(r)] = r] \in P
      BY <1>2
    <3>. QED
      BY <2>1, <3>1 DEF Opened
  <2>2. Closed => pending' \in P
    BY <1>3 DEF Closed
  <2>3. Quiet => pending' \in P
    BY <1>1 DEF Quiet
  <2>. QED
    BY <1>4, <2>1, <2>2, <2>3 DEF SlotStep, Announced, Expired
<1>6. timers' \in SUBSET Requests /\ called' \in SUBSET Requests
  BY <1>1, <1>4 DEF SlotStep, Quiet, Opened, Announced, Expired, Closed
<1>7. replies' \in H
  BY <1>1, <1>4 DEF SlotStep, Quiet, Opened, Announced, Expired, Closed, H
<1>. QED
  BY <1>5, <1>6, <1>7 DEF P, H

LEMMA FlagTypes ==
    ASSUME TransportTypeOK, Kinded, NodeThere, [TransportNext]_vars
    PROVE  /\ alive' \in BOOLEAN /\ ready' \in BOOLEAN /\ subscribed' \in BOOLEAN
           /\ node' \in BOOLEAN /\ UNCHANGED timeoutOn
           /\ progress' \in 0..MaxProgress
           /\ jobs' # {} => node'
<1>1. /\ alive \in BOOLEAN /\ ready \in BOOLEAN /\ subscribed \in BOOLEAN /\ node \in BOOLEAN
      /\ progress \in 0..MaxProgress /\ (jobs # {} => node)
  BY TransportTypes DEF TransportTypeOK
<1>2. CASE Start
  <2>1. jobs = {}
    BY <1>1, <1>2 DEF Start
  <2>. QED
    BY <1>1, <1>2, <2>1 DEF Start, restVars
<1>3. CASE \E r \in Requests : Call(r)
  BY <1>1, <1>3, CallMoves DEF Entered
<1>4. CASE \E r \in Requests : UploadOrDownloadUrl(r)
  <2>1. UNCHANGED <<restVars, node, ready, progress>> /\ (jobs' # jobs => node)
    BY <1>4, UrlMoves
  <2>. QED
    BY <1>1, <2>1 DEF restVars
<1>5. CASE \E j \in jobs, ret \in Rets : CallsBack(j, ret)
  <2>1. jobs # {} /\ UNCHANGED <<restVars, node, ready>> /\ progress' \in 0..MaxProgress
    BY <1>5, CallbackMoves
  <2>. QED
    BY <1>1, <2>1 DEF restVars
<1>6. CASE OnStorageStarted
  BY <1>1, <1>6, StartedMoves DEF restVars
<1>7. CASE OnUploadInitDone \/ OnUploadFileDone \/ OnDownloadDone
  <2>1. UNCHANGED <<restVars, node, ready, progress>> /\ Handled /\ posted[1].of \in Requests
    BY <1>7, DoneMoves
  <2>2. node
    BY <2>1, Markers DEF NodeThere, Handled, MovedUp
  <2>. QED
    BY <1>1, <2>1, <2>2 DEF restVars
<1>8. CASE \E r \in Requests : TimerFires(r)
  BY <1>1, <1>8, TimerMoves DEF Stays, restVars
<1>9. CASE Destroy
  BY <1>1, <1>9, DestroyMoves DEF Gone
<1>10. CASE UNCHANGED vars
  BY <1>1, <1>10 DEF vars, restVars, libVars
<1>. QED
  BY <1>2, <1>3, <1>4, <1>5, <1>6, <1>7, <1>8, <1>9, <1>10 DEF TransportNext

LEMMA NodeStep ==
    ASSUME TransportTypeOK, Kinded, NodeThere, [TransportNext]_vars
    PROVE  NodeThere'
<1>1. jobs # {} => node
  BY DEF TransportTypeOK
<1>2. ASSUME \A i \in DOMAIN posted' : posted'[i].of = NoRequest \/ node
      PROVE  NodeThere'
  <2>1. CASE UNCHANGED node
    BY <1>2, <2>1 DEF NodeThere
  <2>2. CASE Start
    BY <1>2, <2>2 DEF Start, NodeThere
  <2>3. CASE Destroy
    <3>1. DOMAIN << >> = {}
      OBVIOUS
    <3>. QED
      BY <2>3, <3>1 DEF Destroy, NodeThere
  <2>. QED
    BY <2>1, <2>2, <2>3, CallMoves, UrlMoves, CallbackMoves, StartedMoves, DoneMoves, TimerMoves
       DEF TransportNext, vars
<1>3. ASSUME NEW i \in DOMAIN posted', posted'[i].of # NoRequest
      PROVE  node
  <2>1. CASE \E q : q # NoRequest /\ OnItsWay(q)
    BY <2>1 DEF OnItsWay, NodeThere
  <2>2. CASE \A q : OnItsWay(q) => q = NoRequest
    <3>1. PICK q : q # NoRequest /\ OnItsWay(q)'
      BY <1>3 DEF OnItsWay
    <3>2. LibStep
      BY LibSteps
    <3>3. ~(UNCHANGED posted) /\ ~MovedUp
      BY <1>3, <2>2, <3>1, DeliveredOnItsWay DEF OnItsWay
    <3>4. ~Gone
      <4>1. DOMAIN << >> = {}
        OBVIOUS
      <4>. QED
        BY <4>1 DEF Gone
    <3>5. ~Started
      <4>1. ~Posted("started", NoRequest, "ok")
        BY <2>2, <3>1, PostedOnItsWay
      <4>. QED
        BY <3>3, <4>1 DEF Started
    <3>6. jobs # {}
      BY <3>2, <3>3, <3>4, <3>5 DEF LibStep, Entered, HandedOver, Handled, Stays
    <3>. QED
      BY <1>1, <3>6
  <2>. QED
    BY <2>1, <2>2
<1>. QED
  BY <1>2, <1>3

LEMMA TypesStep ==
    ASSUME TransportTypeOK, Kinded, NodeThere, LibStep, SlotStep, [TransportNext]_vars
    PROVE  TransportTypeOK'
<1>1. Client!TypeOK'
  BY SlotTypes, FlagTypes, ClientTypesAfter
<1>2. entering' \in Owners
  BY DEF TransportTypeOK, LibStep, Started, Entered, HandedOver, CalledBack, Handled, Gone, Stays,
         Owners
<1>. QED
  BY <1>1, <1>2, FlagTypes, PostedType, JobsType, HeapType, SaidGrows DEF TransportTypeOK, Heap

LEMMA TransportInvInit == TransportInit => TransportInv
<1>. SUFFICES ASSUME TransportInit
              PROVE  TransportInv
  OBVIOUS
<1>1. /\ node = FALSE /\ ready = FALSE /\ entering = NoRequest /\ posted = << >>
      /\ contexts = {} /\ jobs = {} /\ progress = 0 /\ said = [r \in Owners |-> {}]
      /\ Client!ClientInit
  BY DEF TransportInit
<1>2. /\ alive = TRUE /\ subscribed = FALSE /\ timeoutOn = TRUE
      /\ pending = [k \in {"upload", "download"} |-> NoRequest]
      /\ timers = {} /\ called = {} /\ Working = {} /\ replies = [r \in Requests |-> << >>]
  BY <1>1, ClientNames DEF Client!ClientInit
<1>3. DOMAIN << >> = {} /\ MaxProgress \in Nat
  BY TransportAssumption
<1>4. Client!TypeOK
  <2>1. replies \in [Requests -> Seq(Client!Replies)]
    BY <1>2
  <2>2. pending \in [{"upload", "download"} -> Requests \union {NoRequest}]
    BY <1>2
  <2>. QED
    BY <1>1, <1>2, <2>1, <2>2, ClientNames DEF Client!TypeOK
<1>5. posted \in Seq([signal : Signals, of : Owners, ret : Rets])
  BY <1>1
<1>6. TransportTypeOK
  <2>1. said \in [Owners -> SUBSET Sayings] /\ progress \in 0..MaxProgress
    BY <1>1, <1>3
  <2>. QED
    BY <1>1, <1>4, <1>5, <2>1 DEF TransportTypeOK, Owners
<1>7. Kinded /\ NodeThere /\ Made
  BY <1>1, <1>2, <1>3 DEF Kinded, NodeThere, Made
<1>8. OneAtATime
  BY <1>1, <1>3, Markers DEF OneAtATime, Single, Counts
<1>9. ContextsOwned
  BY <1>1 DEF ContextsOwned
<1>10. \A r \in Requests : DOMAIN replies[r] = {}
  BY <1>2, <1>3
<1>11. UploadRouting
  BY <1>2, <1>10 DEF UploadRouting, Client!OwnCid, Requests
<1>. QED
  BY <1>6, <1>7, <1>8, <1>9, <1>11 DEF TransportInv

LEMMA TransportInvStep == TransportInv /\ [TransportNext]_vars => TransportInv'
<1>. SUFFICES ASSUME TransportInv, [TransportNext]_vars
              PROVE  TransportInv'
  OBVIOUS
<1>1. TransportTypeOK /\ Kinded /\ NodeThere /\ Made /\ OneAtATime /\ ContextsOwned
      /\ UploadRouting
  BY DEF TransportInv
<1>2. LibStep
  BY <1>1, LibSteps
<1>3. SlotStep /\ (UNCHANGED alive \/ Gone)
  BY <1>1, SlotSteps
<1>4. TransportTypeOK'
  BY <1>1, <1>2, <1>3, TypesStep
<1>5. Kinded' /\ NodeThere' /\ Made'
  BY <1>1, <1>2, <1>3, KindedStep, NodeStep, MadeStep
<1>6. OneAtATime'
  BY <1>1, <1>2, OneAtATimeStep
<1>7. ContextsOwned'
  BY <1>1, <1>2, <1>3, ContextsStep DEF Gone
<1>8. UploadRouting'
  BY <1>1, <1>2, <1>3, UploadRoutingStep
<1>. QED
  BY <1>4, <1>5, <1>6, <1>7, <1>8 DEF TransportInv

LEMMA TransportInvariance == TransportSpec => []TransportInv
<1>. QED
  BY TransportInvInit, TransportInvStep, PTL DEF TransportSpec

\* Every variable keeps its type, and a call of the library is under way only
\* while there is a node (LibStorageTransport.cpp: m_ctx).
THEOREM TransportTypesHold == TransportSpec => []TransportTypeOK
<1>1. TransportInv => TransportTypeOK
  BY DEF TransportInv
<1>. QED
  BY <1>1, TransportInvariance, PTL

\* No callback finds its context freed and none is left behind, outside the two
\* cases ContextsOwned names (the callbacks of LibStorageTransport.cpp and the
\* contexts they delete).
THEOREM ContextsAreOwned == TransportSpec => []ContextsOwned
<1>1. TransportInv => ContextsOwned
  BY DEF TransportInv
<1>. QED
  BY <1>1, TransportInvariance, PTL

\* Without a timeout and without progress an upload gets its own CID
\* (onUploadInitDone, onUploadFileDone and StorageClient's slot).
THEOREM UploadsGetOwnCid == TransportSpec => []OwnCidUnlessProgress
<1>1. TransportInv => OwnCidUnlessProgress
  BY DEF TransportInv, UploadRouting, Smooth, OwnCidUnlessProgress
<1>. QED
  BY <1>1, TransportInvariance, PTL

-----------------------------------------------------------------------------
(* The transport under the client is a storage module that may announce a    *)
(* completion twice.                                                         *)

LEMMA ClientStutters ==
    ASSUME UNCHANGED <<restVars, slotVars, ready>>, Working' = Working
    PROVE  UNCHANGED Client!vars
BY DEF restVars, slotVars, Client!vars

LEMMA ClientLoses ==
    ASSUME NEW r \in Requests, r \in Working, UNCHANGED <<restVars, slotVars, ready>>,
           Working' = Working \/ Working' = Working \ {r}
    PROVE  [Client!ClientNext]_Client!vars
<1>1. CASE Working' = Working
  BY <1>1, ClientStutters
<1>2. CASE Working' = Working \ {r}
  <2>1. Client!Lose(r)
    BY <1>2 DEF Client!Lose, restVars, slotVars
  <2>. QED
    BY <2>1, ClientNames DEF Client!ClientNext, Client!Losses
<1>. QED
  BY <1>1, <1>2

LEMMA ShortArgs ==
    ASSUME NEW S
    PROVE  << >> \in Client!ArgsOver(S) /\ \A x \in S : <<x>> \in Client!ArgsOver(S)
<1>1. << >> \in [1..0 -> S]
  OBVIOUS
<1>2. \A x \in S : <<x>> \in [1..1 -> S]
  OBVIOUS
<1>3. 0 \in 0..1 /\ 1 \in 0..1
  OBVIOUS
<1>. QED
  BY <1>1, <1>2, <1>3 DEF Client!ArgsOver

LEMMA AnnouncementIsEvent ==
    ASSUME NEW r \in Requests, r \in Working, alive, UNCHANGED <<restVars, ready>>,
           Working' = Working \/ Working' = Working \ {r},
           NEW args \in Client!EventArgs(r), FireEvent(r, args)
    PROVE  [Client!ClientNext]_Client!vars
<1>1. CASE subscribed
  <2>1. Client!OnEventResponse(Client!Kind(r), args)
    BY <1>1 DEF FireEvent
  <2>2. Client!Event(r, args)
    BY <1>1, <2>1 DEF Client!Event, restVars
  <2>. QED
    BY <2>2, ClientNames DEF Client!ClientNext, Client!Events
<1>2. CASE ~subscribed
  BY <1>2, ClientLoses DEF FireEvent
<1>. QED
  BY <1>1, <1>2

LEMMA ClientStep == TransportInv /\ [TransportNext]_vars => [Client!ClientNext]_Client!vars
<1>. SUFFICES ASSUME TransportInv, [TransportNext]_vars
              PROVE  [Client!ClientNext]_Client!vars
  OBVIOUS
<1>1. TransportTypeOK /\ Kinded /\ Made
  BY DEF TransportInv
<1>2. CASE Start
  <2>1. Started /\ UNCHANGED <<restVars, slotVars, ready>>
    BY <1>1, <1>2, StartMoves DEF Start
  <2>. QED
    BY <1>1, <2>1, CallbacksKeepWorking, ClientStutters
<1>3. CASE \E r \in Requests : Call(r)
  BY <1>3, ClientNames DEF Call, Client!ClientNext, Client!Calls
<1>4. CASE \E r \in Requests : UploadOrDownloadUrl(r)
  <2>1. PICK r \in Requests : UploadOrDownloadUrl(r)
    BY <1>4
  <2>2. /\ HandedOver(r) /\ UNCHANGED <<restVars, ready>>
        /\ \/ UNCHANGED slotVars
           \/ FireEvent(r, IF r \in Uploads THEN << >> ELSE <<ErrorText>>)
    BY <1>1, <2>1, UrlMoves
  <2>3. r \in Working /\ (Working' = Working \/ Working' = Working \ {r})
    BY <1>1, <2>2, HandedOverWorking
  <2>4. alive
    BY <1>1, <2>2, Markers DEF Made, HandedOver
  <2>5. (IF r \in Uploads THEN << >> ELSE <<ErrorText>>) \in Client!EventArgs(r)
    BY ShortArgs DEF Client!EventArgs
  <2>. QED
    BY <2>2, <2>3, <2>4, <2>5, ClientLoses, AnnouncementIsEvent
<1>5. CASE \E j \in jobs, ret \in Rets : CallsBack(j, ret)
  <2>1. PICK j \in jobs, ret \in Rets : CallsBack(j, ret)
    BY <1>5
  <2>2. CalledBack(j, ret) /\ UNCHANGED <<restVars, slotVars, ready>>
    BY <1>1, <2>1, CallbackMoves DEF CalledBack
  <2>. QED
    BY <1>1, <2>2, CallbacksKeepWorking, ClientStutters
<1>6. CASE OnStorageStarted
  <2>1. /\ Handled /\ posted[1].of = NoRequest /\ alive
        /\ UNCHANGED <<restVars, slotVars>> /\ ready' \in BOOLEAN
    BY <1>1, <1>6, StartedMoves
  <2>2. Working' = Working
    BY <1>1, <2>1, HandledWorking
  <2>3. CASE UNCHANGED ready
    BY <2>1, <2>2, <2>3, ClientStutters
  <2>4. CASE ready' # ready
    <3>1. ready' = ~ready
      BY <1>1, <2>1, <2>4, TransportTypes
    <3>2. Client!ConnectionChanges
      BY <2>1, <2>2, <3>1 DEF Client!ConnectionChanges, restVars, slotVars
    <3>. QED
      BY <3>2 DEF Client!ClientNext
  <2>. QED
    BY <2>3, <2>4
<1>7. CASE OnUploadInitDone \/ OnUploadFileDone \/ OnDownloadDone
  <2>1. /\ Handled /\ posted[1].of \in Requests /\ alive /\ UNCHANGED <<restVars, ready>>
        /\ \/ UNCHANGED slotVars
           \/ /\ posted[1].of \in Uploads => \E args \in {<< >>, <<posted[1].of>>} :
                    FireEvent(posted[1].of, args)
              /\ posted[1].of \in Downloads => \E args \in {<< >>, <<Empty>>, <<ErrorText>>} :
                    FireEvent(posted[1].of, args)
    BY <1>1, <1>7, DoneMoves
  <2>2. PICK r \in Requests : r = posted[1].of
    BY <2>1
  <2>3. r \in Working /\ (Working' = Working \/ Working' = Working \ {r})
    BY <1>1, <2>1, <2>2, HandledWorking
  <2>4. CASE UNCHANGED slotVars
    BY <2>1, <2>3, <2>4, ClientLoses
  <2>5. CASE ~UNCHANGED slotVars
    <3>1. CASE r \in Uploads
      <4>1. PICK args \in {<< >>, <<r>>} : FireEvent(r, args)
        BY <2>1, <2>2, <2>5, <3>1
      <4>2. args \in Client!EventArgs(r)
        BY <3>1, <4>1, ShortArgs DEF Client!EventArgs
      <4>. QED
        BY <2>1, <2>3, <4>1, <4>2, AnnouncementIsEvent
    <3>2. CASE r \in Downloads
      <4>1. PICK args \in {<< >>, <<Empty>>, <<ErrorText>>} : FireEvent(r, args)
        BY <2>1, <2>2, <2>5, <3>2
      <4>2. args \in Client!EventArgs(r)
        BY <3>2, <4>1, ShortArgs, Markers DEF Client!EventArgs
      <4>. QED
        BY <2>1, <2>3, <4>1, <4>2, AnnouncementIsEvent
    <3>. QED
      BY <3>1, <3>2 DEF Requests
  <2>. QED
    BY <2>4, <2>5
<1>8. CASE \E r \in Requests : TimerFires(r)
  BY <1>8, ClientNames DEF TimerFires, Client!ClientNext, Client!Timeouts
<1>9. CASE Destroy
  BY <1>9 DEF Destroy, Client!ClientNext
<1>10. CASE UNCHANGED vars
  <2>1. Stays /\ UNCHANGED <<restVars, slotVars, ready>>
    BY <1>10 DEF vars, libVars, Stays
  <2>. QED
    BY <1>1, <2>1, CallbacksKeepWorking, ClientStutters
<1>. QED
  BY <1>2, <1>3, <1>4, <1>5, <1>6, <1>7, <1>8, <1>9, <1>10 DEF TransportNext

\* The transport never does to StorageClient what StorageClient is not made for:
\* the theorems about StorageClient hold over it (fireEvent, onEventResponse).
THEOREM TransportImplementsClient == TransportSpec => ImplementsClient
<1>1. TransportInit => Client!ClientInit
  BY DEF TransportInit
<1>. QED
  BY <1>1, ClientStep, TransportInvariance, PTL
     DEF TransportSpec, ImplementsClient, Client!ClientSpec

-----------------------------------------------------------------------------
(* What is proved about StorageClient, over this transport.                  *)

Proved == INSTANCE StorageClient_proofs
            WITH connected <- ready, working <- Working,
                 Repeats <- TRUE, ForeignTexts <- {}, MaxArgs <- 1

\* The client's assumption on its constants holds here.
LEMMA ProvedAssumption ==
    /\ Uploads \intersect Downloads = {}
    /\ {NoRequest, Empty, ErrorText} \intersect (Proved!Requests \union {}) = {}
    /\ Empty # ErrorText
    /\ Proved!Requests \intersect {} = {}
    /\ 1 \in Nat
    /\ TRUE \in BOOLEAN
BY TransportAssumption DEF Proved!Requests

LEMMA SameNames ==
    /\ Proved!Requests = Client!Requests /\ Proved!Kinds = Client!Kinds
    /\ Proved!Texts = Client!Texts /\ Proved!Refusals = Client!Refusals
    /\ \A r : Proved!Kind(r) = Client!Kind(r)
    /\ \A r : Proved!EventArgs(r) = Client!EventArgs(r)
    /\ Proved!vars = Client!vars
BY DEF Proved!Requests, Client!Requests, Proved!Kinds, Client!Kinds, Proved!Texts, Client!Texts,
       Proved!Refusals, Client!Refusals, Proved!Kind, Client!Kind, Proved!vars, Client!vars,
       Proved!EventArgs, Client!EventArgs, Proved!ArgsOver, Client!ArgsOver

LEMMA SameHelpers ==
    /\ \A k, why, text, running : Proved!FailPending(k, why, text, running) <=> Client!FailPending(k, why, text, running)
    /\ \A k, args : Proved!OnEventResponse(k, args) <=> Client!OnEventResponse(k, args)
    /\ \A r, ok : Proved!Verdict(r, ok) = Client!Verdict(r, ok)
    /\ \A r, why, text : Proved!Reply(r, why, text) <=> Client!Reply(r, why, text)
    /\ \A r : Proved!Take(r) <=> Client!Take(r)
<1>1. \A r, why, text : Proved!Reply(r, why, text) <=> Client!Reply(r, why, text)
  BY DEF Proved!Reply, Client!Reply
<1>2. \A k, why, text, running : Proved!FailPending(k, why, text, running) <=> Client!FailPending(k, why, text, running)
  BY <1>1 DEF Proved!FailPending, Client!FailPending
<1>3. \A args, text : Proved!IsCid(args, text) <=> Client!IsCid(args, text)
  BY DEF Proved!IsCid, Client!IsCid
<1>4. \A args, cid, text : Proved!IsError(args, cid, text) <=> Client!IsError(args, cid, text)
  BY DEF Proved!IsError, Client!IsError
<1>5. \A k, args : Proved!OnEventResponse(k, args) <=> Client!OnEventResponse(k, args)
  BY <1>2, <1>3, <1>4, SameNames DEF Proved!OnEventResponse, Client!OnEventResponse
<1>6. \A r, ok : Proved!Verdict(r, ok) = Client!Verdict(r, ok)
  BY SameNames DEF Proved!Verdict, Client!Verdict
<1>7. \A r : Proved!Take(r) <=> Client!Take(r)
  BY SameNames DEF Proved!Take, Client!Take
<1>. QED
  BY <1>1, <1>2, <1>5, <1>6, <1>7

LEMMA SameStep == [Client!ClientNext]_Client!vars => [Proved!ClientNext]_Proved!vars
<1>. SUFFICES ASSUME Client!ClientNext
              PROVE  Proved!ClientNext
  BY DEF Client!vars, Proved!vars
<1>1. CASE Client!Calls
  <2>1. \A r, ok : Client!Call(r, ok) => Proved!Call(r, ok)
    BY SameHelpers DEF Client!Call, Proved!Call
  <2>. QED
    BY <1>1, <2>1, SameNames DEF Client!Calls, Proved!Calls, Proved!ClientNext
<1>2. CASE Client!Events
  <2>1. \A r, args : Client!Event(r, args) => Proved!Event(r, args)
    BY SameHelpers, SameNames DEF Client!Event, Proved!Event
  <2>. QED
    BY <1>2, <2>1, SameNames DEF Client!Events, Proved!Events, Proved!ClientNext
<1>3. CASE Client!StrayEvents
  BY <1>3 DEF Client!StrayEvents
<1>4. CASE Client!Losses
  <2>1. \A r : Client!Lose(r) => Proved!Lose(r)
    BY DEF Client!Lose, Proved!Lose
  <2>. QED
    BY <1>4, <2>1, SameNames DEF Client!Losses, Proved!Losses, Proved!ClientNext
<1>5. CASE Client!Timeouts
  <2>1. \A r : Client!TimerFires(r) => Proved!TimerFires(r)
    BY SameHelpers, SameNames DEF Client!TimerFires, Proved!TimerFires
  <2>. QED
    BY <1>5, <2>1, SameNames DEF Client!Timeouts, Proved!Timeouts, Proved!ClientNext
<1>6. CASE \E on \in BOOLEAN : Client!SetTimeoutMs(on)
  BY <1>6 DEF Client!SetTimeoutMs, Proved!SetTimeoutMs, Proved!ClientNext
<1>7. CASE Client!ConnectionChanges
  BY <1>7 DEF Client!ConnectionChanges, Proved!ConnectionChanges, Proved!ClientNext
<1>8. CASE Client!Destroy
  BY <1>8, SameNames DEF Client!Destroy, Proved!Destroy, Proved!ClientNext
<1>. QED
  BY <1>1, <1>2, <1>3, <1>4, <1>5, <1>6, <1>7, <1>8 DEF Client!ClientNext

LEMMA SameSpec == Client!ClientSpec => Proved!ClientSpec
<1>1. Client!ClientInit => Proved!ClientInit
  BY SameNames DEF Client!ClientInit, Proved!ClientInit
<1>. QED
  BY <1>1, SameStep, PTL DEF Client!ClientSpec, Proved!ClientSpec

\* Over this transport too the callback of a request is invoked exactly once:
\* with every repeated, late, missing or misplaced signal, a request in its slot
\* is unanswered and one out of it was answered once (StorageClient.h,
\* "Callback fires exactly once"; LibStorageTransport.cpp, fireEvent).
THEOREM AnsweredOnceOverTransport == TransportSpec => []Client!ExactlyOnce
<1>1. Proved!ClientSpec => []Proved!ExactlyOnce
  BY ProvedAssumption, Proved!AnsweredExactlyOnce DEF Proved!Requests
<1>2. Proved!ExactlyOnce => Client!ExactlyOnce
  BY SameNames DEF Proved!ExactlyOnce, Client!ExactlyOnce, Proved!Pending, Client!Pending
<1>. QED
  BY <1>1, <1>2, SameSpec, TransportImplementsClient, PTL DEF ImplementsClient
=============================================================================
