------------------------ MODULE StorageClient_proofs ------------------------
(* Theorems about StorageClient for every set of requests, with or without    *)
(* foreign events and repeated announcements.                                 *)
(*                                                                            *)
(* ExactlyOnce is not inductive alone: that a timer or a slot never refers to *)
(* a request of the other kind, and that the module only works on requests    *)
(* that were made, has to be known as well.  ClientInv collects it.           *)
EXTENDS StorageClient, SequenceTheorems, TLAPS

\* A slot holds a request of its kind.
SlotKinds ==
    \A k \in Kinds : pending[k] # NoRequest => Kind(pending[k]) = k

\* The module only works on requests that were made.
WorkingWasCalled == working \subseteq called

ClientInv ==
    /\ TypeOK
    /\ SlotKinds
    /\ ExactlyOnce
    /\ NoOrphanTimer
    /\ WorkingWasCalled

-----------------------------------------------------------------------------
LEMMA KindType == \A r : Kind(r) \in Kinds
BY DEF Kind, Kinds

LEMMA NoRequestIsNone == NoRequest \notin Requests
BY ClientAssumption DEF Requests

\* Invoking a callback adds one entry to one request's history (StorageClient:
\* every cb(...) call).
LEMMA ReplyLemma ==
    ASSUME TypeOK, NEW r \in Requests, NEW why \in Refusals \union Closings,
           NEW text \in Texts, Reply(r, why, text)
    PROVE  /\ replies' \in [Requests -> Seq(Replies)]
           /\ Len(replies'[r]) = Len(replies[r]) + 1
           /\ replies'[r] = Append(replies[r], [why |-> why, text |-> text])
           /\ \A s \in Requests : s # r => replies'[s] = replies[s]
<1>1. [why |-> why, text |-> text] \in Replies
  BY DEF Replies
<1>2. replies[r] \in Seq(Replies)
  BY DEF TypeOK
<1>3. Append(replies[r], [why |-> why, text |-> text]) \in Seq(Replies)
  BY <1>1, <1>2
<1>. QED
  BY <1>1, <1>2, <1>3 DEF Reply, TypeOK

LEMMA EmptyIsText == Empty \in Texts
BY DEF Texts

\* Initially nothing was called and nothing is pending.
LEMMA InitClientInv == ClientInit => ClientInv
<1>. SUFFICES ASSUME ClientInit PROVE ClientInv
  OBVIOUS
<1>. USE DEF ClientInit
<1>1. TypeOK
  <2>1. replies \in [Requests -> Seq(Replies)]
    BY EmptySeq
  <2>. QED
    BY <2>1 DEF TypeOK
<1>2. SlotKinds
  BY DEF SlotKinds
<1>3. ExactlyOnce
  BY KindType, NoRequestIsNone DEF ExactlyOnce, Pending
<1>4. NoOrphanTimer /\ WorkingWasCalled
  BY DEF NoOrphanTimer, WorkingWasCalled
<1>. QED
  BY <1>1, <1>2, <1>3, <1>4 DEF ClientInv

\* Emptying a slot and calling back (failPendingUpload, failPendingDownload)
\* preserves the invariant when the rest of the state is as it was.
LEMMA FailPendingInv ==
    ASSUME ClientInv, NEW k \in Kinds, pending[k] # NoRequest,
           NEW why \in Refusals \union Closings, NEW text \in Texts,
           NEW running \in SUBSET timers, FailPending(k, why, text, running),
           UNCHANGED <<alive, connected, subscribed, timeoutOn, called>>,
           working' \subseteq working
    PROVE  ClientInv'
<1>. DEFINE r == pending[k]
<1>. USE DEF ClientInv
<1>1. r \in Requests /\ Kind(r) = k /\ Pending(r)
  BY DEF TypeOK, SlotKinds, Pending
<1>2. Reply(r, why, text)
  BY DEF FailPending
<1>3. /\ replies' \in [Requests -> Seq(Replies)]
      /\ Len(replies'[r]) = Len(replies[r]) + 1
      /\ \A s \in Requests : s # r => replies'[s] = replies[s]
  BY <1>1, <1>2, ReplyLemma
<1>4. /\ pending' \in [Kinds -> Requests \union {NoRequest}]
      /\ pending'[k] = NoRequest
      /\ \A l \in Kinds : l # k => pending'[l] = pending[l]
  BY DEF FailPending, TypeOK
<1>5. \A s \in Requests : Pending(s)' <=> Pending(s) /\ s # r
  BY <1>1, <1>4, KindType, NoRequestIsNone DEF Pending
<1>6. TypeOK'
  BY <1>3, <1>4 DEF TypeOK, FailPending
<1>7. SlotKinds'
  BY <1>4 DEF SlotKinds
<1>8. ExactlyOnce'
  <2>1. Len(replies[r]) = 0 /\ r \in called
    BY <1>1 DEF ExactlyOnce
  <2>2. ASSUME NEW s \in Requests
        PROVE  Len(replies'[s]) = IF s \in called' /\ ~Pending(s)' THEN 1 ELSE 0
    <3>1. CASE s = r
      <4>1. s \in called' /\ ~Pending(s)'
        BY <1>5, <2>1, <3>1
      <4>2. Len(replies'[s]) = 1
        BY <1>3, <2>1, <3>1
      <4>. QED
        BY <4>1, <4>2
    <3>2. CASE s # r
      <4>1. replies'[s] = replies[s]
        BY <1>3, <3>2
      <4>. QED
        BY <1>5, <3>2, <4>1 DEF ExactlyOnce
    <3>. QED
      BY <3>1, <3>2
  <2>3. \A s \in Requests : Pending(s)' => s \in called' /\ alive'
    BY <1>5 DEF ExactlyOnce
  <2>. QED
    BY <2>2, <2>3 DEF ExactlyOnce
<1>9. NoOrphanTimer'
  BY <1>1, <1>5 DEF NoOrphanTimer, FailPending, TypeOK
<1>10. WorkingWasCalled'
  BY DEF WorkingWasCalled
<1>. QED
  BY <1>6, <1>7, <1>8, <1>9, <1>10

-----------------------------------------------------------------------------
\* A *Done event, ours or another consumer's (onEventResponse).
LEMMA OnEventResponseInv ==
    ASSUME ClientInv, NEW k \in Kinds, NEW args, OnEventResponse(k, args),
           UNCHANGED <<alive, connected, subscribed, timeoutOn, called>>,
           working' \subseteq working
    PROVE  ClientInv'
<1>1. CASE pending[k] = NoRequest
  <2>1. UNCHANGED <<alive, connected, subscribed, timeoutOn, called, pending,
                    timers, replies>>
    BY <1>1 DEF OnEventResponse
  <2>. USE <2>1 DEF ClientInv
  <2>2. TypeOK'
    BY DEF TypeOK
  <2>3. ExactlyOnce' /\ NoOrphanTimer'
    BY DEF ExactlyOnce, NoOrphanTimer, Pending
  <2>4. SlotKinds' /\ WorkingWasCalled'
    BY DEF SlotKinds, WorkingWasCalled
  <2>. QED
    BY <2>2, <2>3, <2>4
<1>2. CASE pending[k] # NoRequest
  <2>1. PICK text \in Texts : FailPending(k, "done", text, timers)
    BY <1>2 DEF OnEventResponse
  <2>2. "done" \in Refusals \union Closings
    BY DEF Closings
  <2>. QED
    BY <1>2, <2>1, <2>2, FailPendingInv
<1>. QED
  BY <1>1, <1>2

\* uploadFile, downloadToFile: a request that is taken fills an empty slot, one
\* that is refused is answered at once.
LEMMA CallInv ==
    ASSUME ClientInv, NEW r \in Requests, NEW argsOk \in BOOLEAN, Call(r, argsOk)
    PROVE  ClientInv'
<1>. USE DEF ClientInv
<1>1. /\ alive /\ r \notin called /\ called' = called \union {r}
      /\ UNCHANGED <<alive, connected, timeoutOn>>
      /\ Kind(r) \in Kinds
  BY KindType DEF Call
<1>2. Len(replies[r]) = 0 /\ ~Pending(r)
  BY <1>1 DEF ExactlyOnce
<1>3. CASE Verdict(r, argsOk) = "taken"
  <2>1. Take(r) /\ pending[Kind(r)] = NoRequest
    BY <1>3 DEF Call, Verdict
  <2>2. /\ pending' \in [Kinds -> Requests \union {NoRequest}]
        /\ pending'[Kind(r)] = r
        /\ \A l \in Kinds : l # Kind(r) => pending'[l] = pending[l]
    BY <1>1, <2>1 DEF Take, TypeOK
  <2>3. \A s \in Requests : Pending(s)' <=> Pending(s) \/ s = r
    BY <2>1, <2>2, KindType, NoRequestIsNone DEF Pending
  <2>4. TypeOK'
    BY <1>1, <2>1, <2>2 DEF TypeOK, Take
  <2>5. SlotKinds'
    BY <2>2 DEF SlotKinds
  <2>6. ExactlyOnce'
    <3>1. replies' = replies
      BY <2>1 DEF Take
    <3>2. \A s \in Requests :
            Len(replies'[s]) = IF s \in called' /\ ~Pending(s)' THEN 1 ELSE 0
      BY <1>1, <1>2, <2>3, <3>1 DEF ExactlyOnce
    <3>3. \A s \in Requests : Pending(s)' => s \in called' /\ alive'
      BY <1>1, <2>3 DEF ExactlyOnce
    <3>. QED
      BY <3>2, <3>3 DEF ExactlyOnce
  <2>7. NoOrphanTimer'
    BY <2>1, <2>3 DEF NoOrphanTimer, Take, TypeOK
  <2>8. WorkingWasCalled'
    BY <1>1, <2>1 DEF WorkingWasCalled, Take
  <2>. QED
    BY <2>4, <2>5, <2>6, <2>7, <2>8
<1>4. CASE Verdict(r, argsOk) # "taken"
  <2>. DEFINE why == Verdict(r, argsOk)
  <2>1. why \in Refusals \union Closings
    BY <1>4 DEF Verdict, Refusals
  <2>2. /\ Reply(r, why, Empty)
        /\ UNCHANGED <<subscribed, pending, timers, working>>
    BY <1>4 DEF Call
  <2>. HIDE DEF why
  <2>3. /\ replies' \in [Requests -> Seq(Replies)]
        /\ Len(replies'[r]) = Len(replies[r]) + 1
        /\ \A s \in Requests : s # r => replies'[s] = replies[s]
    BY <2>1, <2>2, ReplyLemma, EmptyIsText
  <2>4. TypeOK'
    BY <1>1, <2>2, <2>3 DEF TypeOK
  <2>5. SlotKinds' /\ NoOrphanTimer'
    BY <2>2 DEF SlotKinds, NoOrphanTimer, Pending
  <2>6. ExactlyOnce'
    <3>1. \A s \in Requests : Pending(s)' <=> Pending(s)
      BY <2>2 DEF Pending
    <3>2. ASSUME NEW s \in Requests
          PROVE  Len(replies'[s]) = IF s \in called' /\ ~Pending(s)' THEN 1 ELSE 0
      <4>1. CASE s = r
        <5>1. Len(replies'[s]) = 1
          BY <1>2, <2>3, <4>1
        <5>2. s \in called' /\ ~Pending(s)'
          BY <1>1, <1>2, <3>1, <4>1
        <5>. QED
          BY <5>1, <5>2
      <4>2. CASE s # r
        <5>1. replies'[s] = replies[s] /\ (s \in called' <=> s \in called)
          BY <1>1, <2>3, <4>2
        <5>. QED
          BY <3>1, <5>1 DEF ExactlyOnce
      <4>. QED
        BY <4>1, <4>2
    <3>3. \A s \in Requests : Pending(s)' => s \in called' /\ alive'
      BY <1>1, <3>1 DEF ExactlyOnce
    <3>. QED
      BY <3>2, <3>3 DEF ExactlyOnce
  <2>7. WorkingWasCalled'
    BY <1>1, <2>2 DEF WorkingWasCalled
  <2>. QED
    BY <2>4, <2>5, <2>6, <2>7
<1>. QED
  BY <1>3, <1>4

\* ~StorageClient answers what is still in a slot.
LEMMA DestroyInv ==
    ASSUME ClientInv, Destroy
    PROVE  ClientInv'
<1>. USE DEF ClientInv
<1>. DEFINE goodbye == [why |-> "destroyed", text |-> Empty]
<1>1. goodbye \in Replies
  BY EmptyIsText DEF Replies, Closings
<1>. HIDE DEF goodbye
<1>2. replies' = [r \in Requests |-> IF pending[Kind(r)] = r
                                     THEN Append(replies[r], goodbye)
                                     ELSE replies[r]]
  BY DEF Destroy, goodbye
<1>3. \A r \in Requests : ~Pending(r)'
  BY KindType, NoRequestIsNone DEF Destroy, Pending
<1>4. TypeOK'
  <2>1. \A r \in Requests : Append(replies[r], goodbye) \in Seq(Replies)
    BY <1>1 DEF TypeOK
  <2>2. replies' \in [Requests -> Seq(Replies)]
    BY <1>2, <2>1 DEF TypeOK
  <2>. QED
    BY <2>2 DEF Destroy, TypeOK
<1>5. SlotKinds' /\ NoOrphanTimer' /\ WorkingWasCalled'
  BY DEF Destroy, SlotKinds, NoOrphanTimer, WorkingWasCalled
<1>6. ExactlyOnce'
  <2>1. ASSUME NEW r \in Requests
        PROVE  Len(replies'[r]) = IF r \in called' /\ ~Pending(r)' THEN 1 ELSE 0
    <3>1. called' = called /\ ~Pending(r)'
      BY <1>3 DEF Destroy
    <3>2. CASE Pending(r)
      <4>1. replies[r] \in Seq(Replies) /\ Len(replies[r]) = 0 /\ r \in called
        BY <3>2 DEF ExactlyOnce, TypeOK
      <4>2. replies'[r] = Append(replies[r], goodbye)
        BY <1>2, <3>2 DEF Pending
      <4>3. Len(replies'[r]) = 1
        BY <1>1, <4>1, <4>2
      <4>. QED
        BY <3>1, <4>1, <4>3
    <3>3. CASE ~Pending(r)
      <4>1. replies'[r] = replies[r]
        BY <1>2, <3>3 DEF Pending
      <4>. QED
        BY <3>1, <3>3, <4>1 DEF ExactlyOnce
    <3>. QED
      BY <3>2, <3>3
  <2>. QED
    BY <1>3, <2>1 DEF ExactlyOnce
<1>. QED
  BY <1>4, <1>5, <1>6

-----------------------------------------------------------------------------
\* Every step of StorageClient preserves the invariant.
LEMMA NextClientInv == ClientInv /\ [ClientNext]_vars => ClientInv'
<1>. SUFFICES ASSUME ClientInv, [ClientNext]_vars PROVE ClientInv'
  OBVIOUS
<1>1. CASE Calls
  BY <1>1, CallInv DEF Calls
<1>2. CASE Events
  <2>1. PICK r \in Requests : \E args \in EventArgs(r) : Event(r, args)
    BY <1>2 DEF Events
  <2>2. PICK args \in EventArgs(r) : Event(r, args)
    BY <2>1
  <2>3. /\ OnEventResponse(Kind(r), args)
        /\ UNCHANGED <<alive, connected, subscribed, timeoutOn, called>>
        /\ working' \subseteq working
    BY <2>2 DEF Event
  <2>. QED
    BY <2>3, KindType, OnEventResponseInv
<1>3. CASE StrayEvents
  <2>1. PICK k \in Kinds : \E args \in ArgsOver(ForeignTexts \union {Empty}) :
                               StrayEvent(k, args)
    BY <1>3 DEF StrayEvents
  <2>2. PICK args : StrayEvent(k, args)
    BY <2>1
  <2>3. /\ OnEventResponse(k, args)
        /\ UNCHANGED <<alive, connected, subscribed, timeoutOn, called>>
        /\ working' \subseteq working
    BY <2>2 DEF StrayEvent
  <2>. QED
    BY <2>3, OnEventResponseInv
<1>4. CASE Losses
  <2>1. PICK r \in Requests : Lose(r)
    BY <1>4 DEF Losses
  <2>2. /\ UNCHANGED <<alive, connected, subscribed, timeoutOn, pending, timers,
                       called, replies>>
        /\ working' = working \ {r}
    BY <2>1 DEF Lose
  <2>. USE <2>2 DEF ClientInv
  <2>3. TypeOK' /\ WorkingWasCalled'
    BY DEF TypeOK, WorkingWasCalled
  <2>4. SlotKinds' /\ ExactlyOnce' /\ NoOrphanTimer'
    BY DEF SlotKinds, ExactlyOnce, NoOrphanTimer, Pending
  <2>. QED
    BY <2>3, <2>4
<1>5. CASE Timeouts
  <2>1. PICK r \in Requests : TimerFires(r)
    BY <1>5 DEF Timeouts
  <2>2. pending[Kind(r)] = r
    BY <2>1 DEF TimerFires, ClientInv, NoOrphanTimer, Pending
  <2>3. /\ FailPending(Kind(r), "timeout", Empty, timers \ {r})
        /\ UNCHANGED <<alive, connected, subscribed, timeoutOn, called>>
        /\ working' \subseteq working
    BY <2>1, <2>2, NoRequestIsNone DEF TimerFires
  <2>4. "timeout" \in Refusals \union Closings
    BY DEF Closings
  <2>. QED
    BY <2>2, <2>3, <2>4, KindType, NoRequestIsNone, EmptyIsText, FailPendingInv
<1>6. CASE \E on \in BOOLEAN : SetTimeoutMs(on)
  <2>1. /\ UNCHANGED <<alive, connected, subscribed, pending, timers, working,
                       called, replies>>
        /\ timeoutOn' \in BOOLEAN
    BY <1>6 DEF SetTimeoutMs
  <2>. USE <2>1 DEF ClientInv
  <2>2. TypeOK' /\ WorkingWasCalled'
    BY DEF TypeOK, WorkingWasCalled
  <2>3. SlotKinds' /\ ExactlyOnce' /\ NoOrphanTimer'
    BY DEF SlotKinds, ExactlyOnce, NoOrphanTimer, Pending
  <2>. QED
    BY <2>2, <2>3
<1>7. CASE ConnectionChanges
  <2>1. /\ UNCHANGED <<alive, subscribed, timeoutOn, pending, timers, working,
                       called, replies>>
        /\ connected' \in BOOLEAN
    BY <1>7 DEF ConnectionChanges, ClientInv, TypeOK
  <2>. USE <2>1 DEF ClientInv
  <2>2. TypeOK' /\ WorkingWasCalled'
    BY DEF TypeOK, WorkingWasCalled
  <2>3. SlotKinds' /\ ExactlyOnce' /\ NoOrphanTimer'
    BY DEF SlotKinds, ExactlyOnce, NoOrphanTimer, Pending
  <2>. QED
    BY <2>2, <2>3
<1>8. CASE Destroy
  BY <1>8, DestroyInv
<1>9. CASE UNCHANGED vars
  <2>. USE <1>9 DEF ClientInv, vars
  <2>1. TypeOK' /\ WorkingWasCalled'
    BY DEF TypeOK, WorkingWasCalled
  <2>2. SlotKinds' /\ ExactlyOnce' /\ NoOrphanTimer'
    BY DEF SlotKinds, ExactlyOnce, NoOrphanTimer, Pending
  <2>. QED
    BY <2>1, <2>2
<1>. QED
  BY <1>1, <1>2, <1>3, <1>4, <1>5, <1>6, <1>7, <1>8, <1>9 DEF ClientNext

\* ClientInv is an inductive invariant of StorageClient.
THEOREM ClientInvariance == ClientSpec => []ClientInv
BY InitClientInv, NextClientInv, PTL DEF ClientSpec

\* The variables keep their types.
THEOREM TypeCorrect == ClientSpec => []TypeOK
BY ClientInvariance, PTL DEF ClientInv

\* "Callback fires exactly once" (StorageClient.h), whatever events arrive.
THEOREM AnsweredExactlyOnce == ClientSpec => []ExactlyOnce
BY ClientInvariance, PTL DEF ClientInv

\* No timer outlives its request (failPendingUpload, failPendingDownload).
THEOREM TimersAreOwn == ClientSpec => []NoOrphanTimer
BY ClientInvariance, PTL DEF ClientInv

-----------------------------------------------------------------------------
(* The completion routing.  What has to be known besides: as long as no       *)
(* upload has timed out, the only upload the storage module may still         *)
(* announce is the one in the slot.                                           *)
NoUploadGivenUp == \A r \in Uploads : ~GivenUp(r)

Routing ==
    (ForeignTexts = {} /\ ~Repeats /\ NoUploadGivenUp) =>
        /\ OwnCid
        /\ \A r \in working \intersect Uploads : Pending(r)

\* A step adds at most one entry to a request's history, and a timeout only
\* for the request whose own timer it was that fired.
LEMMA StepReplies ==
    ASSUME ClientInv, [ClientNext]_vars, NEW r \in Requests
    PROVE  \/ replies'[r] = replies[r]
           \/ \E rep \in Replies :
                /\ replies'[r] = Append(replies[r], rep)
                /\ rep.why = "timeout" => r \in timers /\ timers' = timers \ {r}
<1>. USE DEF ClientInv
<1>1. ASSUME NEW k \in Kinds, NEW why \in Refusals \union Closings, NEW text \in Texts,
             NEW running \in SUBSET timers, pending[k] # NoRequest, FailPending(k, why, text, running),
             why = "timeout" => pending[k] \in timers /\ running = timers \ {pending[k]}
      PROVE  \/ replies'[r] = replies[r]
             \/ \E rep \in Replies :
                  /\ replies'[r] = Append(replies[r], rep)
                  /\ rep.why = "timeout" => r \in timers /\ timers' = timers \ {r}
  <2>. DEFINE rep == [why |-> why, text |-> text]
  <2>1. rep \in Replies /\ rep.why = why
    BY DEF Replies
  <2>2. pending[k] \in Requests
    BY <1>1 DEF TypeOK
  <2>3. Reply(pending[k], why, text)
    BY <1>1 DEF FailPending
  <2>4. /\ replies'[pending[k]] = Append(replies[pending[k]], rep)
        /\ \A s \in Requests : s # pending[k] => replies'[s] = replies[s]
    BY <2>2, <2>3, ReplyLemma
  <2>5. why = "timeout" => pending[k] \in timers /\ timers' = timers \ {pending[k]}
    BY <1>1 DEF FailPending
  <2>. HIDE DEF rep
  <2>. QED
    BY <1>1, <2>1, <2>4, <2>5
<1>2. ASSUME NEW k \in Kinds, NEW args, OnEventResponse(k, args)
      PROVE  \/ replies'[r] = replies[r]
             \/ \E rep \in Replies :
                  /\ replies'[r] = Append(replies[r], rep)
                  /\ rep.why = "timeout" => r \in timers /\ timers' = timers \ {r}
  <2>1. CASE pending[k] = NoRequest
    BY <1>2, <2>1 DEF OnEventResponse
  <2>2. CASE pending[k] # NoRequest
    <3>1. PICK text \in Texts : FailPending(k, "done", text, timers)
      BY <1>2, <2>2 DEF OnEventResponse
    <3>2. "done" \in Refusals \union Closings /\ "done" # "timeout"
      BY DEF Closings
    <3>. QED
      BY <1>1, <2>2, <3>1, <3>2
  <2>. QED
    BY <2>1, <2>2
<1>3. CASE Calls
  <2>1. PICK s \in Requests, argsOk \in BOOLEAN : Call(s, argsOk)
    BY <1>3 DEF Calls
  <2>2. CASE Verdict(s, argsOk) = "taken"
    BY <2>1, <2>2 DEF Call, Take
  <2>3. CASE Verdict(s, argsOk) # "taken"
    <3>. DEFINE rep == [why |-> Verdict(s, argsOk), text |-> Empty]
    <3>1. Verdict(s, argsOk) \in Refusals
      BY <2>3 DEF Verdict, Refusals
    <3>2. rep \in Replies /\ rep.why # "timeout"
      BY <3>1, EmptyIsText DEF Replies, Refusals
    <3>3. Reply(s, Verdict(s, argsOk), Empty)
      BY <2>1, <2>3 DEF Call
    <3>4. /\ replies'[s] = Append(replies[s], rep)
          /\ \A q \in Requests : q # s => replies'[q] = replies[q]
      BY <2>1, <3>1, <3>3, EmptyIsText, ReplyLemma
    <3>. HIDE DEF rep
    <3>. QED
      BY <3>2, <3>4
  <2>. QED
    BY <2>2, <2>3
<1>4. CASE Events
  BY <1>2, <1>4, KindType DEF Events, Event
<1>5. CASE StrayEvents
  BY <1>2, <1>5 DEF StrayEvents, StrayEvent
<1>6. CASE Timeouts
  <2>1. PICK s \in Requests : TimerFires(s)
    BY <1>6 DEF Timeouts
  <2>2. s \in timers /\ pending[Kind(s)] = s
    BY <2>1 DEF TimerFires, NoOrphanTimer, Pending
  <2>3. FailPending(Kind(s), "timeout", Empty, timers \ {s})
    BY <2>1, <2>2, NoRequestIsNone DEF TimerFires
  <2>4. "timeout" \in Refusals \union Closings
    BY DEF Closings
  <2>. QED
    BY <1>1, <2>2, <2>3, <2>4, KindType, EmptyIsText, NoRequestIsNone
<1>7. CASE Losses \/ (\E on \in BOOLEAN : SetTimeoutMs(on)) \/ ConnectionChanges
           \/ UNCHANGED vars
  BY <1>7 DEF Losses, Lose, SetTimeoutMs, ConnectionChanges, vars
<1>8. CASE Destroy
  <2>. DEFINE rep == [why |-> "destroyed", text |-> Empty]
  <2>1. rep \in Replies /\ rep.why # "timeout"
    BY EmptyIsText DEF Replies, Closings
  <2>2. replies'[r] = IF pending[Kind(r)] = r THEN Append(replies[r], rep)
                      ELSE replies[r]
    BY <1>8 DEF Destroy
  <2>. HIDE DEF rep
  <2>. QED
    BY <2>1, <2>2
<1>. QED
  BY <1>3, <1>4, <1>5, <1>6, <1>7, <1>8 DEF ClientNext

\* What is in a request's history stays there.
LEMMA GivenUpStays ==
    ASSUME ClientInv, [ClientNext]_vars, NEW r \in Requests, GivenUp(r)
    PROVE  GivenUp(r)'
<1>1. replies[r] \in Seq(Replies)
  BY DEF ClientInv, TypeOK
<1>2. PICK i \in DOMAIN replies[r] : replies[r][i].why = "timeout"
  BY DEF GivenUp
<1>3. CASE replies'[r] = replies[r]
  BY <1>2, <1>3 DEF GivenUp
<1>4. ASSUME NEW rep \in Replies, replies'[r] = Append(replies[r], rep)
      PROVE  GivenUp(r)'
  <2>1. i \in DOMAIN replies'[r] /\ replies'[r][i] = replies[r][i]
    BY <1>1, <1>2, <1>4
  <2>. QED
    BY <1>2, <2>1 DEF GivenUp
<1>. QED
  BY <1>3, <1>4, StepReplies

\* A timeout is charged to the request whose own timer ran out: that timer and
\* no other is gone with the step (onUploadTimeout takes whatever is in the slot).
THEOREM TimeoutsAreOwn == ClientSpec => TimeoutIsOwn
<1>1. ASSUME ClientInv, [ClientNext]_vars
      PROVE  [\A r \in Requests : GivenUp(r)' /\ ~GivenUp(r) =>
                  r \in timers /\ timers' = timers \ {r}]_vars
  <2>. SUFFICES ASSUME NEW r \in Requests, GivenUp(r)', ~GivenUp(r)
                PROVE  r \in timers /\ timers' = timers \ {r}
    OBVIOUS
  <2>1. replies[r] \in Seq(Replies)
    BY <1>1 DEF ClientInv, TypeOK
  <2>2. PICK i \in DOMAIN replies'[r] : replies'[r][i].why = "timeout"
    BY DEF GivenUp
  <2>3. replies'[r] # replies[r]
    BY <2>2 DEF GivenUp
  <2>4. PICK rep \in Replies : /\ replies'[r] = Append(replies[r], rep)
                               /\ rep.why = "timeout" => r \in timers /\ timers' = timers \ {r}
    BY <1>1, <2>3, StepReplies
  <2>5. i \notin DOMAIN replies[r]
    <3>1. ASSUME i \in DOMAIN replies[r] PROVE FALSE
      <4>1. replies'[r][i] = replies[r][i]
        BY <2>1, <2>4, <3>1
      <4>. QED
        BY <2>2, <3>1, <4>1 DEF GivenUp
    <3>. QED
      BY <3>1
  <2>6. replies'[r][i] = rep
    BY <2>1, <2>2, <2>4, <2>5
  <2>. QED
    BY <2>2, <2>4, <2>6
<1>. QED
  BY <1>1, ClientInvariance, PTL DEF ClientSpec, TimeoutIsOwn

LEMMA InitRouting == ClientInit => Routing
<1>. SUFFICES ASSUME ClientInit PROVE OwnCid /\ working = {}
  BY DEF Routing
<1>1. \A r \in Uploads : replies[r] = <<>>
  BY DEF ClientInit, Requests
<1>. QED
  BY <1>1 DEF ClientInit, OwnCid

\* One invocation of a callback keeps OwnCid when it hands over the request's
\* own CID or nothing.
LEMMA ReplyOwnCid ==
    ASSUME TypeOK, OwnCid, NEW r \in Requests, NEW why \in Refusals \union Closings,
           NEW text \in Texts, Reply(r, why, text),
           r \in Uploads => text \in {r, Empty}
    PROVE  OwnCid'
<1>. DEFINE rep == [why |-> why, text |-> text]
<1>1. rep \in Replies /\ rep.text = text
  BY DEF Replies
<1>2. /\ replies'[r] = Append(replies[r], rep)
      /\ \A s \in Requests : s # r => replies'[s] = replies[s]
  BY ReplyLemma
<1>. HIDE DEF rep
<1>. SUFFICES ASSUME NEW u \in Uploads, NEW i \in DOMAIN replies'[u]
              PROVE  replies'[u][i].text \in {u, Empty}
  BY DEF OwnCid
<1>3. u \in Requests /\ replies[u] \in Seq(Replies)
  BY DEF Requests, TypeOK
<1>4. CASE u # r
  BY <1>2, <1>3, <1>4 DEF OwnCid
<1>5. CASE u = r /\ i \in DOMAIN replies[u]
  <2>1. replies'[u][i] = replies[u][i]
    BY <1>1, <1>2, <1>3, <1>5
  <2>. QED
    BY <1>5, <2>1 DEF OwnCid
<1>6. CASE u = r /\ i \notin DOMAIN replies[u]
  <2>1. replies'[u][i] = rep
    BY <1>1, <1>2, <1>3, <1>6
  <2>. QED
    BY <1>1, <1>6, <2>1
<1>. QED
  BY <1>4, <1>5, <1>6

LEMMA NextRouting ==
    ASSUME ClientInv, Routing, [ClientNext]_vars
    PROVE  Routing'
<1>. USE DEF ClientInv
<1>. SUFFICES ASSUME ForeignTexts = {}, ~Repeats, NoUploadGivenUp'
              PROVE  OwnCid' /\ \A u \in working' \intersect Uploads : Pending(u)'
  BY DEF Routing
<1>0. Uploads \subseteq Requests
  BY DEF Requests
<1>1. OwnCid /\ \A u \in working \intersect Uploads : Pending(u)
  BY <1>0, GivenUpStays DEF Routing, NoUploadGivenUp
<1>2. \A s \in Requests : Kind(s) = "upload" <=> s \in Uploads
  BY DEF Kind
\* Steps that leave the uploads alone.
<1>3. ASSUME UNCHANGED <<pending, replies>>, working' \subseteq working
      PROVE  OwnCid' /\ \A u \in working' \intersect Uploads : Pending(u)'
  BY <1>1, <1>3 DEF OwnCid, Pending
<1>4. ASSUME NEW k \in Kinds, NEW why \in Refusals \union Closings, NEW text \in Texts,
             NEW running \in SUBSET timers, pending[k] # NoRequest, FailPending(k, why, text, running),
             working' \subseteq working,
             k = "upload" => text \in {pending[k], Empty} /\ pending[k] \notin working'
      PROVE  OwnCid' /\ \A u \in working' \intersect Uploads : Pending(u)'
  <2>1. pending[k] \in Requests /\ Kind(pending[k]) = k
    BY <1>4 DEF TypeOK, SlotKinds
  <2>2. pending[k] \in Uploads => text \in {pending[k], Empty}
    BY <1>2, <1>4, <2>1
  <2>3. OwnCid'
    BY <1>1, <1>4, <2>1, <2>2, ReplyOwnCid DEF FailPending
  <2>4. ASSUME NEW u \in working' \intersect Uploads
        PROVE  Pending(u)'
    <3>1. Pending(u) /\ Kind(u) = "upload" /\ u \in Requests
      BY <1>0, <1>1, <1>2, <1>4
    <3>2. k # "upload"
      BY <1>4, <3>1 DEF Pending
    <3>. QED
      BY <1>4, <3>1, <3>2 DEF Pending, FailPending, TypeOK, Kinds
  <2>. QED
    BY <2>3, <2>4
<1>5. CASE Calls
  <2>1. PICK r \in Requests, argsOk \in BOOLEAN : Call(r, argsOk)
    BY <1>5 DEF Calls
  <2>2. CASE Verdict(r, argsOk) = "taken"
    <3>1. Take(r) /\ pending[Kind(r)] = NoRequest
      BY <2>1, <2>2 DEF Call, Verdict
    <3>2. OwnCid'
      BY <1>1, <3>1 DEF OwnCid, Take
    <3>3. ASSUME NEW u \in working' \intersect Uploads
          PROVE  Pending(u)'
      <4>1. CASE u = r
        BY <3>1, <4>1, KindType DEF Take, Pending, TypeOK
      <4>2. CASE u # r
        <5>1. Pending(u) /\ u \in Requests
          BY <1>0, <1>1, <3>1, <4>2 DEF Take
        <5>2. Kind(u) # Kind(r)
          BY <3>1, <5>1, NoRequestIsNone DEF Pending
        <5>. QED
          BY <3>1, <5>1, <5>2, KindType DEF Take, Pending, TypeOK
      <4>. QED
        BY <4>1, <4>2
    <3>. QED
      BY <3>2, <3>3
  <2>3. CASE Verdict(r, argsOk) # "taken"
    <3>1. Verdict(r, argsOk) \in Refusals \union Closings
      BY <2>3 DEF Verdict, Refusals
    <3>2. /\ Reply(r, Verdict(r, argsOk), Empty)
          /\ UNCHANGED <<pending, working>>
      BY <2>1, <2>3 DEF Call
    <3>3. OwnCid'
      BY <1>1, <2>1, <3>1, <3>2, EmptyIsText, ReplyOwnCid
    <3>. QED
      BY <1>1, <3>2, <3>3 DEF Pending
  <2>. QED
    BY <2>2, <2>3
<1>6. CASE Events
  <2>1. PICK r \in Requests : \E args \in EventArgs(r) : Event(r, args)
    BY <1>6 DEF Events
  <2>2. PICK args \in EventArgs(r) : Event(r, args)
    BY <2>1
  <2>3. r \in working /\ working' = working \ {r} /\ OnEventResponse(Kind(r), args)
    BY <2>2 DEF Event
  <2>4. CASE pending[Kind(r)] = NoRequest
    BY <1>3, <2>3, <2>4 DEF OnEventResponse
  <2>5. CASE pending[Kind(r)] # NoRequest
    <3>1. PICK text \in Texts : /\ IF Kind(r) = "upload" THEN IsCid(args, text)
                                       ELSE IsError(args, pending[Kind(r)], text)
                                /\ FailPending(Kind(r), "done", text, timers)
      BY <2>3, <2>5 DEF OnEventResponse
    <3>2. Kind(r) = "upload" => pending[Kind(r)] = r
      BY <1>1, <1>2, <2>3 DEF Pending
    <3>3. Kind(r) = "upload" => text \in {r, Empty}
      <4>1. r \in Uploads => \A i \in DOMAIN args : args[i] \in {Empty, r}
        BY DEF EventArgs, ArgsOver
      <4>. QED
        BY <1>2, <3>1, <4>1 DEF IsCid
    <3>4. "done" \in Refusals \union Closings
      BY DEF Closings
    <3>. QED
      BY <1>4, <2>3, <2>5, <3>1, <3>2, <3>3, <3>4, KindType
  <2>. QED
    BY <2>4, <2>5
<1>7. CASE StrayEvents
  BY <1>7 DEF StrayEvents
<1>8. CASE Timeouts
  <2>1. PICK r \in Requests : TimerFires(r)
    BY <1>8 DEF Timeouts
  <2>2. r \in timers /\ pending[Kind(r)] = r
    BY <2>1 DEF TimerFires, NoOrphanTimer, Pending
  <2>3. FailPending(Kind(r), "timeout", Empty, timers \ {r}) /\ working' = working
    BY <2>1, <2>2, NoRequestIsNone DEF TimerFires
  <2>4. "timeout" \in Refusals \union Closings
    BY DEF Closings
  <2>5. GivenUp(r)'
    <3>. DEFINE rep == [why |-> "timeout", text |-> Empty]
    <3>1. replies'[r] = Append(replies[r], rep) /\ rep \in Replies /\ replies[r] \in Seq(Replies)
      BY <2>2, <2>3, <2>4, EmptyIsText, ReplyLemma DEF FailPending, Replies, TypeOK
    <3>2. rep.why = "timeout"
      OBVIOUS
    <3>. HIDE DEF rep
    <3>3. replies'[r][Len(replies[r]) + 1] = rep
          /\ Len(replies[r]) + 1 \in DOMAIN replies'[r]
      BY <3>1
    <3>. QED
      BY <3>2, <3>3 DEF GivenUp
  <2>6. Kind(r) # "upload"
    BY <1>2, <2>5 DEF NoUploadGivenUp
  <2>. QED
    BY <1>4, <2>2, <2>3, <2>4, <2>6, KindType, EmptyIsText, NoRequestIsNone
<1>9. CASE Losses
  BY <1>3, <1>9 DEF Losses, Lose
<1>10. CASE (\E on \in BOOLEAN : SetTimeoutMs(on)) \/ ConnectionChanges \/ UNCHANGED vars
  BY <1>3, <1>10 DEF SetTimeoutMs, ConnectionChanges, vars
<1>11. CASE Destroy
  <2>1. working' = {}
    BY <1>11 DEF Destroy
  <2>2. ASSUME NEW u \in Uploads, NEW i \in DOMAIN replies'[u]
        PROVE  replies'[u][i].text \in {u, Empty}
    <3>. DEFINE rep == [why |-> "destroyed", text |-> Empty]
    <3>1. /\ u \in Requests
          /\ replies[u] \in Seq(Replies) /\ rep \in Replies
      BY <1>0, EmptyIsText DEF Replies, Closings, TypeOK
    <3>2. replies'[u] = replies[u] \/ replies'[u] = Append(replies[u], rep)
      BY <1>11, <3>1 DEF Destroy
    <3>3. rep.text = Empty
      OBVIOUS
    <3>. HIDE DEF rep
    <3>4. CASE i \in DOMAIN replies[u]
      <4>1. replies'[u][i] = replies[u][i]
        BY <3>1, <3>2, <3>4
      <4>. QED
        BY <1>1, <3>4, <4>1 DEF OwnCid
    <3>5. CASE i \notin DOMAIN replies[u]
      <4>1. replies'[u][i] = rep
        BY <3>1, <3>2, <3>5
      <4>. QED
        BY <3>3, <4>1
    <3>. QED
      BY <3>4, <3>5
  <2>. QED
    BY <2>1, <2>2 DEF OwnCid
<1>. QED
  BY <1>5, <1>6, <1>7, <1>8, <1>9, <1>10, <1>11 DEF ClientNext

\* As long as no upload times out, routing a completion to whatever is in the
\* slot hands every upload its own CID (onEventResponse).
THEOREM RoutingUntilTimeout == ClientSpec => []OwnCidUntilTimeout
<1>1. Routing => OwnCidUntilTimeout
  BY DEF Routing, OwnCidUntilTimeout, NoUploadGivenUp
<1>. QED
  BY <1>1, InitRouting, NextRouting, ClientInvariance, PTL DEF ClientSpec

-----------------------------------------------------------------------------
(* StorageClient keeps the promise of OneShotRequests: a request that is      *)
(* taken opens, one that is refused never does, and an event, a timer or the  *)
(* destructor answers what is open.                                           *)
LEMMA ProgressAt ==
    ASSUME NEW r \in Requests
    PROVE  Progress[r] =
              IF Pending(r) THEN "open"
              ELSE IF replies[r] = <<>> THEN "idle"
              ELSE IF Len(replies[r]) > 1 THEN "answered twice"
              ELSE IF replies[r][1].why \in Refusals THEN "refused" ELSE "answered"
BY DEF Progress

LEMMA InitPromise == ClientInit => OneShot!PromiseInit
<1>. SUFFICES ASSUME ClientInit, NEW r \in Requests PROVE Progress[r] = "idle"
  BY DEF OneShot!PromiseInit, Progress
<1>1. replies[r] = <<>> /\ ~Pending(r)
  BY KindType, NoRequestIsNone DEF ClientInit, Pending
<1>. QED
  BY <1>1, ProgressAt

\* A closing reply (done, timeout, destroyed) takes an open request to its
\* answer, a refusal takes one that was not made to "refused".
LEMMA ProgressAfterReply ==
    ASSUME ClientInv, NEW r \in Requests, NEW why \in Refusals \union Closings,
           NEW text \in Texts, Len(replies[r]) = 0, ~Pending(r)',
           replies'[r] = Append(replies[r], [why |-> why, text |-> text])
    PROVE  Progress'[r] = IF why \in Refusals THEN "refused" ELSE "answered"
<1>. DEFINE rep == [why |-> why, text |-> text]
<1>1. rep \in Replies /\ rep.why = why /\ replies[r] \in Seq(Replies)
  BY DEF Replies, ClientInv, TypeOK
<1>. HIDE DEF rep
<1>2. replies'[r] = Append(replies[r], rep)
  BY DEF rep
<1>3. replies'[r] # <<>> /\ Len(replies'[r]) = 1 /\ replies'[r][1] = rep
  BY <1>1, <1>2
<1>4. replies'[r][1].why = why
  BY <1>1, <1>3
<1>5. pending'[Kind(r)] # r
  BY DEF Pending
<1>6. ~(Len(replies'[r]) > 1)
  BY <1>3
<1>7. Progress'[r] = IF replies'[r][1].why \in Refusals THEN "refused" ELSE "answered"
  BY <1>3, <1>5, <1>6, Zenon DEF Progress, Pending
<1>. QED
  BY <1>4, <1>7

LEMMA ProgressUnchanged ==
    ASSUME NEW r \in Requests, replies'[r] = replies[r], Pending(r)' <=> Pending(r)
    PROVE  Progress'[r] = Progress[r]
BY DEF Progress

\* Emptying a slot answers the request that is open in it.
LEMMA FailPendingAnswers ==
    ASSUME ClientInv, NEW k \in Kinds, pending[k] # NoRequest,
           NEW why \in Closings, NEW text \in Texts, NEW running,
           FailPending(k, why, text, running)
    PROVE  OneShot!PromiseNext
<1>. DEFINE r == pending[k]
<1>1. r \in Requests /\ Kind(r) = k /\ Pending(r)
  BY DEF ClientInv, TypeOK, SlotKinds, Pending
<1>2. Len(replies[r]) = 0
  BY <1>1 DEF ClientInv, ExactlyOnce
<1>3. /\ replies'[r] = Append(replies[r], [why |-> why, text |-> text])
      /\ \A s \in Requests : s # r => replies'[s] = replies[s]
  BY <1>1, ReplyLemma DEF ClientInv, FailPending
<1>4. \A s \in Requests : Pending(s)' <=> Pending(s) /\ s # r
  BY <1>1, KindType, NoRequestIsNone DEF ClientInv, TypeOK, FailPending, Pending
<1>5. why \notin Refusals
  BY DEF Refusals, Closings
<1>6. Progress'[r] = "answered"
  BY <1>1, <1>2, <1>3, <1>4, <1>5, ProgressAfterReply
<1>7. \A s \in Requests : s # r => Progress'[s] = Progress[s]
  BY <1>3, <1>4, ProgressUnchanged
<1>8. r \in OneShot!OpenRequests
  BY <1>1, ProgressAt DEF OneShot!OpenRequests
<1>9. Progress' = [s \in Requests |-> IF s \in {r} THEN "answered" ELSE Progress[s]]
  BY <1>1, <1>6, <1>7 DEF Progress
<1>10. OneShot!Answer({r})
  BY <1>9 DEF OneShot!Answer
<1>. QED
  BY <1>8, <1>10 DEF OneShot!PromiseNext

LEMMA NextPromise ==
    ASSUME ClientInv, [ClientNext]_vars
    PROVE  OneShot!PromiseNext \/ UNCHANGED Progress
<1>. USE DEF ClientInv
<1>1. ASSUME UNCHANGED <<pending, replies>>
      PROVE  UNCHANGED Progress
  BY <1>1 DEF Progress, Pending
<1>2. ASSUME NEW k \in Kinds, NEW args, OnEventResponse(k, args)
      PROVE  OneShot!PromiseNext \/ UNCHANGED Progress
  <2>1. CASE pending[k] = NoRequest
    BY <1>1, <1>2, <2>1 DEF OnEventResponse
  <2>2. CASE pending[k] # NoRequest
    BY <1>2, <2>2, FailPendingAnswers DEF OnEventResponse, Closings
  <2>. QED
    BY <2>1, <2>2
<1>3. CASE Calls
  <2>1. PICK r \in Requests, argsOk \in BOOLEAN : Call(r, argsOk)
    BY <1>3 DEF Calls
  <2>2. r \notin called /\ Len(replies[r]) = 0 /\ ~Pending(r) /\ replies[r] \in Seq(Replies)
    BY <2>1 DEF Call, ExactlyOnce, TypeOK
  <2>3. Progress[r] = "idle"
    <3>1. replies[r] = <<>>
      BY <2>2
    <3>. QED
      BY <2>2, <3>1, ProgressAt
  <2>4. CASE Verdict(r, argsOk) = "taken"
    <3>1. Take(r) /\ pending[Kind(r)] = NoRequest
      BY <2>1, <2>4 DEF Call, Verdict
    <3>2. Pending(r)' /\ \A s \in Requests : s # r => (Pending(s)' <=> Pending(s))
      BY <3>1, KindType, NoRequestIsNone DEF Take, TypeOK, Pending
    <3>3. Progress'[r] = "open"
      BY <3>2 DEF Progress
    <3>4. \A s \in Requests : s # r => Progress'[s] = Progress[s]
      BY <3>1, <3>2, ProgressUnchanged DEF Take
    <3>5. Progress' = [Progress EXCEPT ![r] = "open"]
      BY <3>3, <3>4 DEF Progress
    <3>6. \A s \in OneShot!OpenRequests : Kind(s) # Kind(r)
      <4>. SUFFICES ASSUME NEW s \in Requests, Progress[s] = "open", Kind(s) = Kind(r)
                    PROVE  FALSE
        BY DEF OneShot!OpenRequests
      <4>1. Pending(s)
        BY ProgressAt
      <4>. QED
        BY <3>1, <4>1, NoRequestIsNone DEF Pending
    <3>. QED
      BY <2>3, <3>5, <3>6 DEF OneShot!PromiseNext, OneShot!Open
  <2>5. CASE Verdict(r, argsOk) # "taken"
    <3>1. Verdict(r, argsOk) \in Refusals
      BY <2>5 DEF Verdict, Refusals
    <3>2. /\ Reply(r, Verdict(r, argsOk), Empty)
          /\ UNCHANGED pending
      BY <2>1, <2>5 DEF Call
    <3>3. /\ replies'[r] = Append(replies[r], [why |-> Verdict(r, argsOk), text |-> Empty])
          /\ \A s \in Requests : s # r => replies'[s] = replies[s]
      BY <3>1, <3>2, EmptyIsText, ReplyLemma
    <3>4. \A s \in Requests : Pending(s)' <=> Pending(s)
      BY <3>2 DEF Pending
    <3>5. Progress'[r] = "refused"
      BY <2>2, <3>1, <3>3, <3>4, EmptyIsText, ProgressAfterReply
    <3>6. \A s \in Requests : s # r => Progress'[s] = Progress[s]
      BY <3>3, <3>4, ProgressUnchanged
    <3>7. Progress' = [Progress EXCEPT ![r] = "refused"]
      BY <3>5, <3>6 DEF Progress
    <3>. QED
      BY <2>3, <3>7 DEF OneShot!PromiseNext, OneShot!Refuse
  <2>. QED
    BY <2>4, <2>5
<1>4. CASE Events
  BY <1>2, <1>4, KindType DEF Events, Event
<1>5. CASE StrayEvents
  BY <1>2, <1>5 DEF StrayEvents, StrayEvent
<1>6. CASE Timeouts
  <2>1. PICK r \in Requests : TimerFires(r)
    BY <1>6 DEF Timeouts
  <2>2. pending[Kind(r)] = r
    BY <2>1 DEF TimerFires, NoOrphanTimer, Pending
  <2>3. FailPending(Kind(r), "timeout", Empty, timers \ {r}) /\ pending[Kind(r)] # NoRequest
    BY <2>1, <2>2, NoRequestIsNone DEF TimerFires
  <2>. QED
    BY <2>3, KindType, EmptyIsText, FailPendingAnswers DEF Closings
<1>7. CASE Losses \/ (\E on \in BOOLEAN : SetTimeoutMs(on)) \/ ConnectionChanges
           \/ UNCHANGED vars
  BY <1>1, <1>7 DEF Losses, Lose, SetTimeoutMs, ConnectionChanges, vars
<1>8. CASE Destroy
  <2>. DEFINE S == {r \in Requests : Pending(r)}
  <2>1. S = OneShot!OpenRequests
    BY ProgressAt DEF OneShot!OpenRequests
  <2>2. \A r \in Requests : ~Pending(r)'
    BY <1>8, KindType, NoRequestIsNone DEF Destroy, Pending
  <2>3. ASSUME NEW r \in S PROVE Progress'[r] = "answered"
    <3>1. replies'[r] = Append(replies[r], [why |-> "destroyed", text |-> Empty])
      BY <1>8 DEF Destroy, Pending
    <3>2. Len(replies[r]) = 0
      BY DEF ExactlyOnce
    <3>3. "destroyed" \in Closings /\ "destroyed" \notin Refusals
      BY DEF Closings, Refusals
    <3>. QED
      BY <2>2, <3>1, <3>2, <3>3, EmptyIsText, ProgressAfterReply
  <2>4. ASSUME NEW r \in Requests, r \notin S PROVE Progress'[r] = Progress[r]
    BY <1>8, <2>2, <2>4, ProgressUnchanged DEF Destroy, Pending
  <2>5. Progress' = [r \in Requests |-> IF r \in S THEN "answered" ELSE Progress[r]]
    BY <2>3, <2>4 DEF Progress
  <2>6. CASE S = {}
    BY <2>5, <2>6 DEF Progress
  <2>7. CASE S # {}
    BY <2>1, <2>5, <2>7 DEF OneShot!PromiseNext, OneShot!Answer
  <2>. QED
    BY <2>6, <2>7
<1>. QED
  BY <1>3, <1>4, <1>5, <1>6, <1>7, <1>8 DEF ClientNext

\* Every behaviour of StorageClient is one of OneShotRequests: one upload and
\* one download in flight, each request answered once or refused.
THEOREM PromiseKept == ClientSpec => KeepsPromise
BY InitPromise, NextPromise, ClientInvariance, PTL
   DEF ClientSpec, KeepsPromise, OneShot!Promise
=============================================================================
