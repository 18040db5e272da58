------------------------- MODULE AutoBackup_proofs -------------------------
(* Theorems about AutoBackup for every set of files, every bound, any other   *)
(* consumer of the storage module and any failure of a write.                 *)
(*                                                                            *)
(* The properties need each other and more: which upload may hold the slot    *)
(* (Slots), that a job of the current generation is a keycard session's and   *)
(* of the account in the database (Jobs, JobsOwnAccount), that the storage    *)
(* module only works on the upload in the slot while nothing disturbed the    *)
(* order of events (Routing), and that what is recorded was exported before   *)
(* whatever is in the slot now (RecordIsOld).  BackupInv collects it.         *)
EXTENDS AutoBackup, SequenceTheorems, TLAPS

\* Only uploads that were made are in the slot or with the storage module, and
\* nothing is ever downloaded.
Slots ==
    /\ pending["download"] = NoRequest
    /\ pending["upload"] # NoRequest => pending["upload"] \in called
    /\ working \subseteq called

\* Sessions are those of the account in the database.
Session ==
    /\ keySource \in {"none", account.source}
    /\ DebounceOnlyInKeycard

Exports == [account : 0..MaxAccounts, edits : 0..MaxEdits]

\* The callback of every upload in the slot was made in this process; one of
\* the current generation was made in the keycard session that goes on.
Jobs ==
    /\ \A b \in Backups : job[b] # None => job[b] \in 0..generation /\ b \in called
    /\ \A b \in Backups : job[b] = generation => keySource = "keycard"
    /\ \A b \in Backups : pending["upload"] = b => job[b] # None

\* "uploading" is never written to the database.
Status ==
    /\ meta.status # "uploading"
    /\ UploadingUnlessFenced
    /\ SyncedHasCid

Queue == QueueIsSet /\ RecordedCidIsQueued

\* Nothing has disturbed the order of the storage module's events.
Orderly ==
    /\ ForeignTexts = {} /\ ~Repeats
    /\ \A b \in Backups : ~TimedOut(b)

\* As long as that is so, the module works on the upload in the slot alone.
Routing ==
    Orderly => Client!OwnCid /\ working \subseteq {pending["upload"]}

\* A file of the current generation was exported from the current account, and
\* not from a later state of it.
JobsOwnAccount ==
    \A b \in Backups : job[b] = generation =>
        /\ origin[b] \in Exports
        /\ origin[b].account = account.id /\ origin[b].edits <= edits

\* What is recorded was exported from the current account, and not after the
\* upload in the slot.
RecordIsOld ==
    (Orderly /\ meta.cid \in Backups) =>
        /\ account.source # "none"
        /\ meta.cid \in called /\ origin[meta.cid] \in Exports
        /\ origin[meta.cid].account = account.id /\ origin[meta.cid].edits <= edits
        /\ \A b \in Backups : (pending["upload"] = b /\ job[b] = generation)
              => origin[meta.cid].edits <= origin[b].edits

\* What is queued is of the current account, when only the auto-backup queues.
QueueIsOwn ==
    (Orderly /\ Stashes = {} /\ ~torn) =>
        \A cid \in Queued :
            /\ account.source # "none"
            /\ cid \in called /\ origin[cid].account = account.id

BackupInv ==
    /\ BackupTypeOK
    /\ Slots /\ Session /\ Jobs
    /\ Status /\ Queue
    /\ Routing /\ JobsOwnAccount /\ RecordIsOld /\ QueueIsOwn

-----------------------------------------------------------------------------
(* What the client does to its part of the state.                            *)

LEMMA RequestsAre == Client!Requests = Backups
BY DEF Client!Requests

LEMMA KindIs == \A b \in Backups : Client!Kind(b) = "upload"
BY DEF Client!Kind

LEMMA KindsAre == Client!Kinds = {"upload", "download"}
BY DEF Client!Kinds

\* The markers are no CIDs.
LEMMA Markers ==
    /\ NoRequest \notin Backups /\ Empty \notin Cids /\ None \notin Cids
    /\ Backups \subseteq Cids /\ Stashes \subseteq Cids
    /\ Backups \intersect Stashes = {}
    /\ Backups \intersect ForeignTexts = {}
BY BackupAssumption DEF Cids

LEMMA Bounds ==
    /\ MaxEdits \in Nat /\ MaxAccounts \in Nat /\ MaxLocks \in Nat
    /\ MaxRestarts \in Nat /\ None \notin Nat
BY BackupAssumption

LEMMA WritesType == Writes \subseteq BOOLEAN
BY DEF Writes

\* One invocation of a callback adds one entry to its upload's history.
LEMMA ReplyMoves ==
    ASSUME Client!TypeOK, NEW b \in Backups, NEW why \in Client!Refusals \union Client!Closings,
           NEW text \in Client!Texts, Client!Reply(b, why, text)
    PROVE  /\ replies' \in [Backups -> Seq(Client!Replies)]
           /\ replies'[b] # replies[b]
           /\ replies'[b][Len(replies'[b])] = [why |-> why, text |-> text]
           /\ \E n \in DOMAIN replies'[b] : replies'[b][n] = [why |-> why, text |-> text]
           /\ \A c \in Backups : c # b => replies'[c] = replies[c]
           /\ \A n \in DOMAIN replies[b] : n \in DOMAIN replies'[b] /\ replies'[b][n] = replies[b][n]
           /\ \A n \in DOMAIN replies'[b] :
                n \in DOMAIN replies[b] \/ replies'[b][n] = [why |-> why, text |-> text]
<1>. DEFINE e == [why |-> why, text |-> text]
            s == replies[b]
            R == Client!Replies
<1>1. e \in R
  BY DEF Client!Replies
<1>2. replies \in [Backups -> Seq(R)]
  BY RequestsAre DEF Client!TypeOK
<1>3. s \in Seq(R)
  BY <1>2
<1>4. replies' = [replies EXCEPT ![b] = Append(s, e)]
  BY DEF Client!Reply
<1>5. /\ Append(s, e) \in Seq(R)
      /\ Len(Append(s, e)) = Len(s) + 1
      /\ \A i \in 1 .. Len(s) : Append(s, e)[i] = s[i]
      /\ Append(s, e)[Len(s) + 1] = e
  <2>. HIDE DEF s, e, R
  <2>. QED
    BY <1>1, <1>3, AppendProperties
<1>6. Len(s) \in Nat /\ DOMAIN s = 1 .. Len(s)
  <2>. HIDE DEF s, e, R
  <2>. QED
    BY <1>3, LenProperties
<1>7. DOMAIN Append(s, e) = 1 .. (Len(s) + 1)
  <2>. HIDE DEF s, e, R
  <2>. QED
    BY <1>5, LenProperties
<1>8. replies'[b] = Append(s, e)
  BY <1>2, <1>4
<1>9. replies' \in [Backups -> Seq(R)] /\ \A c \in Backups : c # b => replies'[c] = replies[c]
  BY <1>2, <1>4, <1>5
<1>10. /\ Append(s, e) # s
       /\ \E n \in DOMAIN Append(s, e) : Append(s, e)[n] = e
       /\ \A n \in DOMAIN s : n \in DOMAIN Append(s, e) /\ Append(s, e)[n] = s[n]
       /\ \A n \in DOMAIN Append(s, e) : n \in DOMAIN s \/ Append(s, e)[n] = e
  <2>. DEFINE l == Len(s)
              a == Append(s, e)
  <2>1. /\ l \in Nat /\ DOMAIN s = 1 .. l /\ DOMAIN a = 1 .. (l + 1) /\ Len(a) = l + 1
        /\ \A i \in 1 .. l : a[i] = s[i]
        /\ a[l + 1] = e
    BY <1>5, <1>6, <1>7
  <2>2. a # s
    <3>1. Len(a) # Len(s)
      BY <2>1
    <3>. QED
      BY <3>1
  <2>. HIDE DEF l, a, s, e
  <2>3. l + 1 \in DOMAIN a
    BY <2>1
  <2>4. \A n \in DOMAIN s : n \in DOMAIN a /\ a[n] = s[n]
    BY <2>1
  <2>5. \A n \in DOMAIN a : n \in DOMAIN s \/ n = l + 1
    BY <2>1
  <2>6. \A n \in DOMAIN a : n \in DOMAIN s \/ a[n] = e
    BY <2>1, <2>5
  <2>. QED
    BY <2>1, <2>2, <2>3, <2>4, <2>6 DEF a
<1>11. replies'[b][Len(replies'[b])] = e
  BY <1>5, <1>8
<1>. QED
  BY <1>8, <1>9, <1>10, <1>11
\* The part of StorageClient!TypeOK about what the client's steps change.
LEMMA ClientTypes ==
    ASSUME BackupTypeOK
    PROVE  /\ Client!TypeOK
           /\ pending \in [{"upload", "download"} -> Backups \union {NoRequest}]
           /\ timers \in SUBSET Backups /\ working \in SUBSET Backups
           /\ called \in SUBSET Backups
           /\ replies \in [Backups -> Seq(Client!Replies)]
BY RequestsAre, KindsAre DEF BackupTypeOK, Client!TypeOK

\* uploadFile refuses the file or takes it; it is taken when the slot is free.
LEMMA CallMoves ==
    ASSUME BackupTypeOK, NEW b \in Backups, Client!Call(b, TRUE), connected
    PROVE  /\ b \notin called /\ called' = called \union {b}
           /\ UNCHANGED <<alive, connected, timeoutOn>>
           /\ \/ /\ Client!Verdict(b, TRUE) = "taken"
                 /\ pending["upload"] = NoRequest
                 /\ pending' = [pending EXCEPT !["upload"] = b]
                 /\ working' = working \union {b}
                 /\ subscribed' \in BOOLEAN /\ timers' \in SUBSET Backups
                 /\ UNCHANGED replies
              \/ /\ Client!Verdict(b, TRUE) = "busy"
                 /\ Client!Reply(b, "busy", Empty)
                 /\ UNCHANGED <<subscribed, pending, timers, working>>
<1>1. Client!Kind(b) = "upload"
  BY KindIs
<1>2. Client!Verdict(b, TRUE) = IF pending["upload"] # NoRequest THEN "busy" ELSE "taken"
  BY <1>1 DEF Client!Verdict
<1>3. timers \in SUBSET Backups
  BY ClientTypes
<1>4. CASE pending["upload"] = NoRequest
  <2>1. Client!Take(b)
    BY <1>2, <1>4 DEF Client!Call
  <2>. QED
    BY <1>1, <1>2, <1>3, <1>4, <2>1 DEF Client!Call, Client!Take
<1>5. CASE pending["upload"] # NoRequest
  BY <1>2, <1>5 DEF Client!Call
<1>. QED
  BY <1>4, <1>5

\* An upload in the slot is answered, and the slot is free.
Answers(b, why, text) ==
    /\ pending["upload"] = b
    /\ pending' = [pending EXCEPT !["upload"] = NoRequest]
    /\ Client!Reply(b, why, text)

\* What an event may hand an upload: a CID or nothing.
UploadTexts == Backups \union ForeignTexts \union {Empty}

\* An event that completes an upload hands it one of the event's entries.
LEMMA EventAnswers ==
    ASSUME BackupTypeOK, Slots, NEW k \in {"upload", "download"}, NEW S, NEW args,
           args \in Client!ArgsOver(S), S \subseteq UploadTexts, Client!OnEventResponse(k, args)
    PROVE  \/ UNCHANGED <<pending, timers, replies>>
           \/ /\ timers' \subseteq timers
              /\ \E b \in Backups : \E text \in S \union {Empty} : Answers(b, "done", text)
<1>1. CASE pending[k] = NoRequest
  BY <1>1 DEF Client!OnEventResponse
<1>2. CASE pending[k] # NoRequest
  <2>1. k = "upload"
    BY <1>2 DEF Slots
  <2>2. PICK text \in Client!Texts :
          Client!IsCid(args, text) /\ Client!FailPending("upload", "done", text, timers)
    BY <1>2, <2>1 DEF Client!OnEventResponse
  <2>3. \A i \in DOMAIN args : args[i] \in S
    BY DEF Client!ArgsOver
  <2>4. text \in S \union {Empty}
    BY <2>2, <2>3 DEF Client!IsCid
  <2>5. pending["upload"] \in Backups
    BY <1>2, <2>1, ClientTypes
  <2>. QED
    BY <2>2, <2>4, <2>5 DEF Client!FailPending, Answers
<1>. QED
  BY <1>1, <1>2
\* A CID handed over in order is the upload's own, and the module is done.
InOrder(b, text) == text \in {b, Empty} /\ working' = {}

\* An event or a timeout: nothing is answered, or the upload in the slot is.
LEMMA AnswerMoves ==
    ASSUME BackupTypeOK, Slots, Client!Events \/ Client!StrayEvents \/ Client!Timeouts
    PROVE  /\ UNCHANGED <<alive, connected, subscribed, timeoutOn, called>>
           /\ timers' \in SUBSET Backups /\ working' \subseteq working
           /\ \/ UNCHANGED <<pending, replies>>
              \/ \E b \in Backups : \E text \in UploadTexts :
                   /\ Answers(b, "done", text)
                   /\ (Orderly /\ Routing) => InOrder(b, text)
              \/ \E b \in Backups : Answers(b, "timeout", Empty)
<1>1. timers \in SUBSET Backups /\ working \in SUBSET Backups
  BY ClientTypes
<1>2. Empty \in UploadTexts
  BY DEF UploadTexts
<1>3. CASE Client!Events
  <2>1. PICK r \in Backups : \E args \in Client!EventArgs(r) : Client!Event(r, args)
    BY <1>3, RequestsAre DEF Client!Events
  <2>2. PICK args \in Client!EventArgs(r) : Client!Event(r, args)
    BY <2>1
  <2>3. args \in Client!ArgsOver({Empty, r}) /\ {Empty, r} \subseteq UploadTexts
    BY DEF Client!EventArgs, UploadTexts
  <2>4. /\ UNCHANGED <<alive, connected, subscribed, timeoutOn, called>>
        /\ r \in working /\ working' \subseteq working
        /\ ~Repeats => working' = working \ {r}
        /\ Client!OnEventResponse("upload", args)
    BY <2>2, KindIs DEF Client!Event
  <2>5. \/ UNCHANGED <<pending, timers, replies>>
        \/ /\ timers' \subseteq timers
           /\ \E b \in Backups : \E text \in {Empty, r} \union {Empty} : Answers(b, "done", text)
    BY <2>3, <2>4, EventAnswers
  <2>6. ASSUME NEW b \in Backups, NEW text \in {Empty, r} \union {Empty},
               Answers(b, "done", text), Orderly /\ Routing
        PROVE  InOrder(b, text)
    <3>1. working \subseteq {b} /\ ~Repeats
      BY <2>6 DEF Answers, Routing, Orderly
    <3>. QED
      BY <2>4, <3>1 DEF InOrder
  <2>. QED
    BY <1>1, <2>3, <2>4, <2>5, <2>6
<1>4. CASE Client!StrayEvents
  <2>1. ForeignTexts # {}
    BY <1>4 DEF Client!StrayEvents
  <2>2. PICK k \in {"upload", "download"} : \E args \in Client!ArgsOver(ForeignTexts \union {Empty}) :
               Client!StrayEvent(k, args)
    BY <1>4, KindsAre DEF Client!StrayEvents
  <2>3. PICK args \in Client!ArgsOver(ForeignTexts \union {Empty}) : Client!StrayEvent(k, args)
    BY <2>2
  <2>4. /\ UNCHANGED <<alive, connected, subscribed, timeoutOn, called, working>>
        /\ Client!OnEventResponse(k, args)
    BY <2>3 DEF Client!StrayEvent
  <2>5. ForeignTexts \union {Empty} \subseteq UploadTexts
    BY DEF UploadTexts
  <2>6. \/ UNCHANGED <<pending, timers, replies>>
        \/ /\ timers' \subseteq timers
           /\ \E b \in Backups : \E text \in (ForeignTexts \union {Empty}) \union {Empty} :
                Answers(b, "done", text)
    BY <2>3, <2>4, <2>5, EventAnswers
  <2>7. ~Orderly
    BY <2>1 DEF Orderly
  <2>. QED
    BY <1>1, <2>4, <2>5, <2>6, <2>7
<1>5. CASE Client!Timeouts
  <2>1. PICK r \in Backups : Client!TimerFires(r)
    BY <1>5, RequestsAre DEF Client!Timeouts
  <2>2. /\ UNCHANGED <<alive, connected, subscribed, timeoutOn, called, working>>
        /\ IF pending["upload"] = NoRequest
           THEN timers' = timers \ {r} /\ UNCHANGED <<pending, replies>>
           ELSE Client!FailPending("upload", "timeout", Empty, timers \ {r})
    BY <2>1, KindIs DEF Client!TimerFires
  <2>3. CASE pending["upload"] = NoRequest
    BY <1>1, <2>2, <2>3
  <2>4. CASE pending["upload"] # NoRequest
    <3>1. pending["upload"] \in Backups
      BY <2>4, ClientTypes
    <3>. QED
      BY <1>1, <2>2, <2>4, <3>1 DEF Client!FailPending, Answers
  <2>. QED
    BY <2>3, <2>4
<1>. QED
  BY <1>3, <1>4, <1>5

\* The module loses an upload, or comes and goes.
LEMMA ModuleMoves ==
    ASSUME BackupTypeOK, ModuleChanges
    PROVE  /\ UNCHANGED <<alive, subscribed, timeoutOn, pending, timers, called, replies>>
           /\ UNCHANGED backupVars
           /\ connected' \in BOOLEAN /\ working' \subseteq working
BY DEF ModuleChanges, Client!Losses, Client!Lose, Client!ConnectionChanges, BackupTypeOK,
       Client!TypeOK, backupVars
-----------------------------------------------------------------------------
(* What the steps do to the records.                                         *)

\* saveMeta of a status: the row is written, or the loss is noted.
StatusSaved(status) ==
    /\ meta'.cid = meta.cid /\ meta'.status \in {meta.status, status}
    /\ meta' \in [cid : Cids \union {None}, status : Statuses]
    /\ torn' \in BOOLEAN /\ (torn => torn')

\* A CID is recorded, and enqueued unless the loss is noted.
CidSaved(cid) ==
    /\ meta'.cid \in {meta.cid, cid}
    /\ meta' \in [cid : Cids \union {None}, status : Statuses]
    /\ queue' \in {queue, Enqueued(queue, cid)}
    /\ torn' \in BOOLEAN /\ (torn => torn')
    /\ ~torn' => queue' = Enqueued(queue, cid)

LEMMA MetaType ==
    ASSUME BackupTypeOK
    PROVE  /\ meta \in [cid : Cids \union {None}, status : Statuses]
           /\ meta.cid \in Cids \union {None} /\ meta.status \in Statuses
           /\ torn \in BOOLEAN /\ queue \in [Cids -> Nat]
BY DEF BackupTypeOK

LEMMA PersistMoves ==
    ASSUME BackupTypeOK, NEW status \in Statuses, PersistStatus(status)
    PROVE  StatusSaved(status)
<1>1. PICK ok \in BOOLEAN : /\ meta' = IF ok THEN [meta EXCEPT !.status = status] ELSE meta
                            /\ torn' = (torn \/ ~ok)
  BY WritesType DEF PersistStatus
<1>2. meta' \in [cid : Cids \union {None}, status : Statuses] /\ meta'.cid = meta.cid
      /\ meta'.status \in {meta.status, status}
  BY <1>1, MetaType
<1>3. torn' \in BOOLEAN /\ (torn => torn')
  BY <1>1, MetaType
<1>. QED
  BY <1>2, <1>3 DEF StatusSaved

\* The branch of the callback that has a CID: "synced" comes with the CID.
Recorded(cid) ==
    /\ CidSaved(cid)
    /\ storageStatus' \in {"synced", "failed"}
    /\ meta'.status \in {meta.status, storageStatus'}
    /\ storageStatus' = "synced" => meta'.cid = cid

LEMMA RecordMoves ==
    ASSUME BackupTypeOK, NEW cid \in Cids, Record(cid)
    PROVE  Recorded(cid)
<1>1. PICK cidOk \in Writes, tsOk \in Writes, queueOk \in Writes, statusOk \in Writes :
        LET status == IF cidOk /\ tsOk THEN "synced" ELSE "failed"
        IN /\ storageStatus' = status
           /\ meta' = [cid    |-> IF cidOk THEN cid ELSE meta.cid,
                       status |-> IF statusOk THEN status ELSE meta.status]
           /\ queue' = IF cidOk /\ tsOk /\ queueOk THEN Enqueued(queue, cid) ELSE queue
           /\ torn' = (torn \/ ~(cidOk /\ tsOk /\ queueOk /\ statusOk))
  BY DEF Record
<1>. cidOk \in BOOLEAN /\ tsOk \in BOOLEAN /\ queueOk \in BOOLEAN /\ statusOk \in BOOLEAN
  BY WritesType
<1>2. storageStatus' \in {"synced", "failed"} /\ (storageStatus' = "synced" => cidOk)
  BY <1>1
<1>3. /\ meta'.cid = IF cidOk THEN cid ELSE meta.cid
      /\ meta'.status = IF statusOk THEN storageStatus' ELSE meta.status
      /\ meta' = [cid |-> meta'.cid, status |-> meta'.status]
  BY <1>1
<1>4. meta' \in [cid : Cids \union {None}, status : Statuses]
  <2>1. storageStatus' \in Statuses
    BY <1>2 DEF Statuses
  <2>. QED
    BY <1>3, <2>1, MetaType
<1>5. torn' \in BOOLEAN /\ (torn => torn') /\ (~torn' => cidOk /\ tsOk /\ queueOk)
  BY <1>1, MetaType
<1>6. queue' \in {queue, Enqueued(queue, cid)} /\ (~torn' => queue' = Enqueued(queue, cid))
  BY <1>1, <1>5
<1>7. CidSaved(cid)
  BY <1>3, <1>4, <1>5, <1>6 DEF CidSaved
<1>. QED
  BY <1>2, <1>3, <1>7 DEF Recorded

\* What the upload callback does with a text.
CallbackDoes(b, text) ==
    \/ Fenced(b) /\ UNCHANGED <<storageStatus, meta, queue, torn>>
    \/ ~Fenced(b) /\ text \in UploadTexts \ {Empty} /\ Recorded(text)
    \/ ~Fenced(b) /\ storageStatus' = "failed" /\ StatusSaved("failed") /\ UNCHANGED queue

LEMMA FailedIsStatus == "failed" \in Statuses
BY DEF Statuses

LEMMA CallbackMoves ==
    ASSUME BackupTypeOK, NEW b \in Backups, NEW why, NEW text \in UploadTexts,
           UploadCallback(b, [why |-> why, text |-> text])
    PROVE  CallbackDoes(b, text)
<1>. DEFINE reply == [why |-> why, text |-> text]
<1>1. CASE Fenced(b) /\ UNCHANGED <<storageStatus, recordVars>>
  BY <1>1 DEF CallbackDoes, recordVars
<1>2. CASE ~Fenced(b) /\ reply.text # Empty /\ Record(reply.text)
  <2>1. text # Empty /\ text \in Cids /\ Record(text)
    BY <1>2 DEF UploadTexts, Cids
  <2>2. Recorded(text)
    BY <2>1, RecordMoves
  <2>. QED
    BY <1>2, <2>1, <2>2 DEF CallbackDoes
<1>3. CASE ~Fenced(b) /\ storageStatus' = "failed" /\ PersistStatus("failed") /\ UNCHANGED queue
  <2>1. StatusSaved("failed")
    BY <1>3, PersistMoves, FailedIsStatus
  <2>. QED
    BY <1>3, <2>1 DEF CallbackDoes
<1>. QED
  BY <1>1, <1>2, <1>3 DEF UploadCallback
\* doAutoBackup without an upload, with one the client takes, and with one it
\* refuses.
NoUpload ==
    /\ UNCHANGED <<alive, connected, subscribed, timeoutOn, pending, timers, working, called, replies>>
    /\ UNCHANGED <<job, origin, queue>>
    /\ storageStatus' \in {"unavailable", "failed"} /\ StatusSaved("failed")

Starts(b) ==
    /\ b \notin called /\ called' = called \union {b}
    /\ UNCHANGED <<alive, connected, timeoutOn, queue>>
    /\ job' = [job EXCEPT ![b] = generation]
    /\ origin' = [origin EXCEPT ![b] = [account |-> account.id, edits |-> edits]]

Taken(b) ==
    /\ Starts(b)
    /\ storageStatus' = "uploading" /\ UNCHANGED <<meta, torn>>
    /\ pending["upload"] = NoRequest
    /\ pending' = [pending EXCEPT !["upload"] = b]
    /\ working' = working \union {b}
    /\ subscribed' \in BOOLEAN /\ timers' \in SUBSET Backups
    /\ UNCHANGED replies

Refused(b) ==
    /\ Starts(b)
    /\ storageStatus' = "failed" /\ StatusSaved("failed")
    /\ Client!Reply(b, "busy", Empty)
    /\ UNCHANGED <<subscribed, pending, timers, working>>

LEMMA UploadMoves ==
    ASSUME BackupTypeOK, Session, DebounceFires \/ TriggerBackup
    PROVE  /\ keySource = "keycard" /\ debounce' = FALSE
           /\ UNCHANGED <<keySource, generation, account, edits, saved, polling, inscribed, restarts>>
           /\ NoUpload \/ \E b \in Backups : Taken(b) \/ Refused(b)
<1>1. /\ keySource = "keycard" /\ debounce' = FALSE
      /\ UNCHANGED <<keySource, generation, account, edits, saved, polling, inscribed, restarts>>
      /\ DoAutoBackup
  BY DEF DebounceFires, TriggerBackup, Session, DebounceOnlyInKeycard, userVars
<1>2. CASE /\ storageStatus' = "unavailable"
           /\ UNCHANGED <<clientVars, job, origin, recordVars>>
  <2>1. StatusSaved("failed")
    BY <1>2, MetaType DEF StatusSaved, recordVars
  <2>. QED
    BY <1>1, <1>2, <2>1 DEF NoUpload, clientVars, recordVars
<1>3. CASE /\ storageStatus' = "failed"
           /\ PersistStatus("failed")
           /\ UNCHANGED <<clientVars, job, origin, queue>>
  <2>1. StatusSaved("failed")
    BY <1>3, PersistMoves, FailedIsStatus
  <2>. QED
    BY <1>1, <1>3, <2>1 DEF NoUpload, clientVars
<1>4. ASSUME connected, NEW b \in Backups, Upload(b)
      PROVE  Taken(b) \/ Refused(b)
  <2>1. /\ Client!Call(b, TRUE)
        /\ job' = [job EXCEPT ![b] = generation]
        /\ origin' = [origin EXCEPT ![b] = [account |-> account.id, edits |-> edits]]
        /\ IF Client!Verdict(b, TRUE) = "taken"
           THEN storageStatus' = "uploading" /\ UNCHANGED <<meta, queue, torn>>
           ELSE storageStatus' = "failed" /\ PersistStatus("failed") /\ UNCHANGED queue
    BY <1>4 DEF Upload, recordVars
  <2>2. /\ b \notin called /\ called' = called \union {b}
        /\ UNCHANGED <<alive, connected, timeoutOn>>
    BY <1>4, <2>1, CallMoves
  <2>3. Starts(b)
    BY <2>1, <2>2 DEF Starts
  <2>4. CASE Client!Verdict(b, TRUE) = "taken"
    <3>1. /\ pending["upload"] = NoRequest
          /\ pending' = [pending EXCEPT !["upload"] = b]
          /\ working' = working \union {b}
          /\ subscribed' \in BOOLEAN /\ timers' \in SUBSET Backups
          /\ UNCHANGED replies
      BY <1>4, <2>1, <2>4, CallMoves
    <3>. QED
      BY <2>1, <2>3, <2>4, <3>1 DEF Taken
  <2>5. CASE Client!Verdict(b, TRUE) = "busy"
    <3>1. /\ Client!Reply(b, "busy", Empty)
          /\ UNCHANGED <<subscribed, pending, timers, working>>
      BY <1>4, <2>1, <2>5, CallMoves
    <3>2. StatusSaved("failed")
      BY <2>1, <2>5, PersistMoves, FailedIsStatus
    <3>. QED
      BY <2>1, <2>3, <2>5, <3>1, <3>2 DEF Refused
  <2>. QED
    BY <1>4, <2>1, <2>4, <2>5, CallMoves
<1>. QED
  BY <1>1, <1>2, <1>3, <1>4 DEF DoAutoBackup

\* The client's event or timeout, with the callback it runs.
LEMMA ClientMoves ==
    ASSUME BackupTypeOK, Slots, ClientAnswers
    PROVE  /\ UNCHANGED <<alive, connected, subscribed, timeoutOn, called>>
           /\ timers' \in SUBSET Backups /\ working' \subseteq working
           /\ UNCHANGED <<keySource, generation, debounce, job, account, edits, saved, polling,
                          inscribed, restarts, origin>>
           /\ \/ UNCHANGED <<pending, replies, storageStatus, meta, queue, torn>>
              \/ \E b \in Backups : \E text \in UploadTexts :
                   /\ Answers(b, "done", text) /\ CallbackDoes(b, text)
                   /\ (Orderly /\ Routing) => InOrder(b, text)
              \/ \E b \in Backups : Answers(b, "timeout", Empty) /\ CallbackDoes(b, Empty)
<1>. DEFINE answered == {b \in Backups : replies'[b] # replies[b]}
<1>1. /\ Client!Events \/ Client!StrayEvents \/ Client!Timeouts
      /\ IF answered = {} THEN UNCHANGED <<storageStatus, recordVars>>
         ELSE \E b \in answered : UploadCallback(b, replies'[b][Len(replies'[b])])
      /\ UNCHANGED <<keySource, generation, debounce, job, account, edits, saved, polling,
                     inscribed, restarts, origin>>
  BY DEF ClientAnswers, sessionVars, userVars
<1>2. ASSUME NEW b \in Backups, NEW why \in {"done", "timeout"}, NEW text \in UploadTexts,
             Answers(b, why, text)
      PROVE  CallbackDoes(b, text)
  <2>1. Client!Reply(b, why, text) /\ text \in Client!Texts
        /\ why \in Client!Refusals \union Client!Closings
    BY <1>2, RequestsAre DEF Answers, UploadTexts, Client!Texts, Client!Closings
  <2>2. /\ replies'[b] # replies[b]
        /\ replies'[b][Len(replies'[b])] = [why |-> why, text |-> text]
        /\ \A c \in Backups : c # b => replies'[c] = replies[c]
    BY <2>1, ReplyMoves, ClientTypes
  <2>3. answered = {b}
    BY <2>2
  <2>4. UploadCallback(b, [why |-> why, text |-> text])
    BY <1>1, <2>2, <2>3
  <2>. QED
    BY <2>4, CallbackMoves
<1>3. Empty \in UploadTexts
  BY DEF UploadTexts
<1>4. ASSUME UNCHANGED replies
      PROVE  UNCHANGED <<storageStatus, meta, queue, torn>>
  <2>1. answered = {}
    BY <1>4
  <2>. QED
    BY <1>1, <2>1 DEF recordVars
<1>. HIDE DEF answered
<1>. QED
  BY <1>1, <1>2, <1>3, <1>4, AnswerMoves
\* A new process has no session, no jobs and a new client.
LEMMA NewProcessMoves ==
    ASSUME NEW status, NewProcess(status)
    PROVE  /\ keySource' = "none" /\ generation' = 0 /\ debounce' = FALSE
           /\ storageStatus' = status
           /\ job' = [b \in Backups |-> None] /\ polling' = None
           /\ subscribed' = FALSE /\ timers' = {} /\ working' = {}
           /\ pending' = [k \in {"upload", "download"} |-> NoRequest]
           /\ restarts < MaxRestarts /\ restarts' = restarts + 1
           /\ UNCHANGED <<alive, connected, timeoutOn, called, account, edits, saved, inscribed, origin>>
BY KindsAre DEF NewProcess

LEMMA RestartMoves ==
    ASSUME BackupTypeOK, Restart
    PROVE  \E status \in {meta.status, "failed"} :
             /\ NewProcess(status) /\ UNCHANGED <<queue, torn, replies>>
             /\ meta'.cid = meta.cid /\ meta'.status = status
             /\ meta' \in [cid : Cids \union {None}, status : Statuses]
<1>1. PICK status \in {meta.status, "failed"} :
        NewProcess(status) /\ meta' = [meta EXCEPT !.status = status] /\ UNCHANGED <<queue, torn, replies>>
  BY DEF Restart
<1>2. /\ meta'.cid = meta.cid /\ meta'.status = status
      /\ meta' \in [cid : Cids \union {None}, status : Statuses]
  BY <1>1, MetaType, FailedIsStatus
<1>. QED
  BY <1>1, <1>2

LEMMA CrashMoves ==
    ASSUME BackupTypeOK, CrashWhileRecording
    PROVE  /\ NewProcess(meta.status) /\ UNCHANGED replies /\ torn'
           /\ pending["upload"] \in Backups /\ ~Fenced(pending["upload"])
           /\ \E cid \in working :
                CidSaved(cid) /\ meta'.cid = cid /\ meta'.status = meta.status
<1>1. PICK cid \in working :
        meta' = [meta EXCEPT !.cid = cid] /\ queue' \in {queue, Enqueued(queue, cid)}
  BY DEF CrashWhileRecording
<1>2. /\ NewProcess(meta.status) /\ UNCHANGED replies /\ torn' = TRUE
      /\ pending["upload"] # NoRequest /\ ~Fenced(pending["upload"])
  BY DEF CrashWhileRecording
<1>3. cid \in Cids
  BY ClientTypes, Markers
<1>4. /\ meta'.cid = cid /\ meta'.status = meta.status
      /\ meta' \in [cid : Cids \union {None}, status : Statuses]
  BY <1>1, <1>3, MetaType
<1>5. CidSaved(cid)
  BY <1>1, <1>2, <1>4 DEF CidSaved
<1>. QED
  BY <1>2, <1>4, <1>5, ClientTypes

LEMMA StashMoves ==
    ASSUME BackupTypeOK, StashCidArrives
    PROVE  /\ UNCHANGED <<clientVars, keySource, generation, debounce, storageStatus, job,
                          account, edits, saved, inscribed, restarts, origin>>
           /\ polling \in Stashes /\ polling' = None
           /\ \E cid \in Stashes : CidSaved(cid) /\ meta'.status = meta.status
<1>1. PICK cid \in SameName(polling), cidOk \in Writes, tsOk \in Writes, queueOk \in Writes :
         /\ meta' = IF cidOk THEN [meta EXCEPT !.cid = cid] ELSE meta
         /\ queue' = IF cidOk /\ tsOk /\ queueOk THEN Enqueued(queue, cid) ELSE queue
         /\ torn' = (torn \/ ~(cidOk /\ tsOk /\ queueOk))
  BY DEF StashCidArrives
<1>. cidOk \in BOOLEAN /\ tsOk \in BOOLEAN /\ queueOk \in BOOLEAN
  BY WritesType
<1>2. cid \in Stashes /\ cid \in Cids
  BY Markers DEF SameName
<1>3. /\ meta'.cid \in {meta.cid, cid} /\ meta'.status = meta.status
      /\ meta' \in [cid : Cids \union {None}, status : Statuses]
  BY <1>1, <1>2, MetaType
<1>4. torn' \in BOOLEAN /\ (torn => torn') /\ (~torn' => cidOk /\ tsOk /\ queueOk)
  BY <1>1, MetaType
<1>5. CidSaved(cid)
  BY <1>1, <1>3, <1>4 DEF CidSaved
<1>6. /\ UNCHANGED <<clientVars, keySource, generation, debounce, storageStatus, job,
                     account, edits, saved, inscribed, restarts, origin>>
      /\ polling \in Stashes /\ polling' = None
  BY DEF StashCidArrives, sessionVars, BackupTypeOK
<1>. QED
  BY <1>2, <1>3, <1>5, <1>6

-----------------------------------------------------------------------------
(* Types.                                                                    *)

\* The client's types, from those of what the step changes.
LEMMA ClientTypesAfter ==
    ASSUME BackupTypeOK, UNCHANGED <<alive, timeoutOn>>,
           connected' \in BOOLEAN, subscribed' \in BOOLEAN,
           pending' \in [{"upload", "download"} -> Backups \union {NoRequest}],
           timers' \in SUBSET Backups, working' \in SUBSET Backups, called' \in SUBSET Backups,
           replies' \in [Backups -> Seq(Client!Replies)]
    PROVE  Client!TypeOK'
<1>1. alive' \in BOOLEAN /\ timeoutOn' \in BOOLEAN
  BY DEF BackupTypeOK, Client!TypeOK
<1>. QED
  BY <1>1, RequestsAre, KindsAre DEF Client!TypeOK

LEMMA ClientTypesSame ==
    ASSUME BackupTypeOK, UNCHANGED <<alive, connected, subscribed, timeoutOn, pending, timers,
                                     working, called, replies>>
    PROVE  Client!TypeOK'
BY DEF BackupTypeOK, Client!TypeOK

LEMMA AnswersTypes ==
    ASSUME BackupTypeOK, NEW b \in Backups, NEW why \in {"done", "timeout"}, NEW text \in UploadTexts,
           Answers(b, why, text)
    PROVE  /\ pending' \in [{"upload", "download"} -> Backups \union {NoRequest}]
           /\ replies' \in [Backups -> Seq(Client!Replies)]
<1>1. Client!Reply(b, why, text) /\ text \in Client!Texts
      /\ why \in Client!Refusals \union Client!Closings
  BY RequestsAre DEF Answers, UploadTexts, Client!Texts, Client!Closings
<1>2. replies' \in [Backups -> Seq(Client!Replies)]
  BY <1>1, ReplyMoves, ClientTypes
<1>. QED
  BY <1>2, ClientTypes DEF Answers

LEMMA RefusedTypes ==
    ASSUME BackupTypeOK, NEW b \in Backups, Client!Reply(b, "busy", Empty)
    PROVE  replies' \in [Backups -> Seq(Client!Replies)]
<1>1. Empty \in Client!Texts /\ "busy" \in Client!Refusals \union Client!Closings
  BY DEF Client!Texts, Client!Refusals
<1>. QED
  BY <1>1, ReplyMoves, ClientTypes
\* The steps of the user: the client and the records stay as they are.
UserStep ==
    \/ \E source \in Sources : Import(source)
    \/ Unlock \/ SaveNote \/ CreateOrDeleteNote \/ Lock
    \/ \E s \in Stashes : StartStash(s)

LEMMA UserMoves ==
    ASSUME UserStep
    PROVE  /\ UNCHANGED <<alive, connected, subscribed, timeoutOn, pending, timers, working,
                          called, replies>>
           /\ UNCHANGED <<storageStatus, job, meta, queue, torn, inscribed, restarts>>
BY DEF UserStep, Import, Unlock, SaveNote, CreateOrDeleteNote, Lock, StartStash, clientVars,
       sessionVars, recordVars, userVars

\* The kinds of steps, as the lemmas above describe them.
LEMMA Steps ==
    BackupNext => \/ UserStep \/ ResetAndWipe
                  \/ DebounceFires \/ TriggerBackup
                  \/ ClientAnswers \/ ModuleChanges
                  \/ StashCidArrives \/ \E cid \in Cids : MarkInscribed(cid)
                  \/ Restart \/ CrashWhileRecording
BY DEF BackupNext, UserStep

LEMMA NextClientTypes ==
    ASSUME BackupTypeOK, Slots, Session, BackupNext
    PROVE  Client!TypeOK'
<1>. connected \in BOOLEAN /\ subscribed \in BOOLEAN
  BY DEF BackupTypeOK, Client!TypeOK
<1>1. CASE UserStep \/ ResetAndWipe \/ StashCidArrives \/ \E cid \in Cids : MarkInscribed(cid)
  <2>1. UNCHANGED <<alive, connected, subscribed, timeoutOn, pending, timers, working, called, replies>>
    BY <1>1, UserMoves DEF ResetAndWipe, StashCidArrives, MarkInscribed, clientVars
  <2>. QED
    BY <2>1, ClientTypesSame
<1>2. CASE DebounceFires \/ TriggerBackup
  <2>1. CASE NoUpload
    <3>1. UNCHANGED <<alive, connected, subscribed, timeoutOn, pending, timers, working, called, replies>>
      BY <2>1 DEF NoUpload
    <3>. QED
      BY <3>1, ClientTypesSame
  <2>2. ASSUME NEW b \in Backups, Taken(b) \/ Refused(b)
        PROVE  Client!TypeOK'
    <3>1. UNCHANGED <<alive, connected, timeoutOn>> /\ called' \in SUBSET Backups
      BY <2>2, ClientTypes DEF Taken, Refused, Starts
    <3>2. CASE Taken(b)
      <4>1. /\ subscribed' \in BOOLEAN /\ timers' \in SUBSET Backups
            /\ pending' \in [{"upload", "download"} -> Backups \union {NoRequest}]
            /\ working' \in SUBSET Backups /\ replies' \in [Backups -> Seq(Client!Replies)]
        BY <3>2, ClientTypes DEF Taken
      <4>. QED
        BY <3>1, <4>1, ClientTypesAfter
    <3>3. CASE Refused(b)
      <4>1. /\ subscribed' \in BOOLEAN /\ timers' \in SUBSET Backups
            /\ pending' \in [{"upload", "download"} -> Backups \union {NoRequest}]
            /\ working' \in SUBSET Backups /\ Client!Reply(b, "busy", Empty)
        BY <3>3, ClientTypes DEF Refused
      <4>2. replies' \in [Backups -> Seq(Client!Replies)]
        BY <4>1, RefusedTypes
      <4>. QED
        BY <3>1, <4>1, <4>2, ClientTypesAfter
    <3>. QED
      BY <2>2, <3>2, <3>3
  <2>. QED
    BY <1>2, <2>1, <2>2, UploadMoves
<1>3. CASE ClientAnswers
  <2>1. /\ UNCHANGED <<alive, connected, subscribed, timeoutOn, called>>
        /\ timers' \in SUBSET Backups /\ working' \in SUBSET Backups /\ called' \in SUBSET Backups
    BY <1>3, ClientMoves, ClientTypes
  <2>2. /\ pending' \in [{"upload", "download"} -> Backups \union {NoRequest}]
        /\ replies' \in [Backups -> Seq(Client!Replies)]
    <3>1. Empty \in UploadTexts
      BY DEF UploadTexts
    <3>. QED
      BY <1>3, <3>1, ClientMoves, ClientTypes, AnswersTypes
  <2>. QED
    BY <2>1, <2>2, ClientTypesAfter
<1>4. CASE ModuleChanges
  <2>1. /\ UNCHANGED <<alive, subscribed, timeoutOn, pending, timers, called, replies>>
        /\ connected' \in BOOLEAN /\ working' \in SUBSET Backups
    BY <1>4, ModuleMoves, ClientTypes
  <2>. QED
    BY <2>1, ClientTypes, ClientTypesAfter
<1>5. CASE Restart \/ CrashWhileRecording
  <2>1. UNCHANGED replies /\ \E status : NewProcess(status)
    BY <1>5, RestartMoves, CrashMoves
  <2>2. /\ UNCHANGED <<alive, connected, timeoutOn, called, replies>>
        /\ subscribed' = FALSE /\ timers' = {} /\ working' = {}
        /\ pending' = [k \in {"upload", "download"} |-> NoRequest]
    BY <2>1, NewProcessMoves
  <2>. QED
    BY <2>2, ClientTypes, ClientTypesAfter
<1>. QED
  BY <1>1, <1>2, <1>3, <1>4, <1>5, Steps

LEMMA EnqueuedTypes ==
    ASSUME BackupTypeOK, NEW cid \in Cids, CidSaved(cid)
    PROVE  /\ queue' \in [Cids -> Nat] /\ torn' \in BOOLEAN
           /\ meta' \in [cid : Cids \union {None}, status : Statuses]
BY MetaType DEF CidSaved, Enqueued

\* The types of NotesBackend's own state.
OwnTypes ==
    /\ keySource \in Sources \union {"none"}
    /\ generation \in 0..MaxLocks
    /\ debounce \in BOOLEAN
    /\ storageStatus \in Statuses
    /\ job \in [Backups -> (0..MaxLocks) \union {None}]
    /\ account \in [id : 0..MaxAccounts, source : Sources \union {"none"}]
    /\ edits \in 0..MaxEdits /\ saved \in 0..MaxEdits
    /\ polling \in Stashes \union {None}
    /\ origin \in [Cids -> Exports \union {None}]
    /\ inscribed \in SUBSET Cids
    /\ restarts \in 0..MaxRestarts

RecordTypes ==
    /\ queue \in [Cids -> Nat] /\ torn \in BOOLEAN
    /\ meta \in [cid : Cids \union {None}, status : Statuses]

LEMMA TypesSplit == BackupTypeOK <=> Client!TypeOK /\ OwnTypes /\ RecordTypes
BY DEF BackupTypeOK, OwnTypes, RecordTypes, Exports

LEMMA NextRecordTypes ==
    ASSUME BackupTypeOK, Slots, Session, BackupNext
    PROVE  RecordTypes'
<1>1. CASE UserStep
  BY <1>1, UserMoves, MetaType DEF RecordTypes
<1>2. CASE ResetAndWipe
  <2>1. PICK ok \in Writes : /\ queue' = IF ok THEN NoQueue ELSE queue
                             /\ torn' = (torn \/ ~ok)
                             /\ meta' = NoMeta
    BY <1>2 DEF ResetAndWipe
  <2>2. ok \in BOOLEAN
    BY WritesType
  <2>3. queue' \in [Cids -> Nat]
    BY <2>1, <2>2, MetaType DEF NoQueue
  <2>. QED
    BY <2>1, <2>2, <2>3, MetaType DEF RecordTypes, NoMeta, Statuses
<1>3. CASE DebounceFires \/ TriggerBackup
  <2>1. UNCHANGED queue /\ (UNCHANGED <<meta, torn>> \/ StatusSaved("failed"))
    BY <1>3, UploadMoves DEF NoUpload, Taken, Refused, Starts
  <2>. QED
    BY <2>1, MetaType DEF RecordTypes, StatusSaved
<1>4. CASE ClientAnswers
  <2>1. ASSUME NEW b, NEW text, CallbackDoes(b, text)
        PROVE  RecordTypes'
    <3>1. CASE UNCHANGED <<meta, queue, torn>>
      BY <3>1, MetaType DEF RecordTypes
    <3>2. CASE StatusSaved("failed") /\ UNCHANGED queue
      BY <3>2, MetaType DEF RecordTypes, StatusSaved
    <3>3. CASE text \in UploadTexts \ {Empty} /\ CidSaved(text)
      <4>1. text \in Cids
        BY <3>3 DEF UploadTexts, Cids
      <4>. QED
        BY <3>3, <4>1, EnqueuedTypes DEF RecordTypes
    <3>. QED
      BY <2>1, <3>1, <3>2, <3>3 DEF CallbackDoes, Recorded
  <2>2. CASE UNCHANGED <<meta, queue, torn>>
    BY <2>2, MetaType DEF RecordTypes
  <2>. QED
    BY <1>4, <2>1, <2>2, ClientMoves
<1>5. CASE ModuleChanges
  BY <1>5, ModuleMoves, MetaType DEF RecordTypes, backupVars, recordVars
<1>6. CASE StashCidArrives
  BY <1>6, StashMoves, Markers, EnqueuedTypes DEF RecordTypes
<1>7. CASE \E cid \in Cids : MarkInscribed(cid)
  BY <1>7, MetaType DEF RecordTypes, MarkInscribed
<1>8. CASE Restart
  BY <1>8, RestartMoves, MetaType DEF RecordTypes
<1>9. CASE CrashWhileRecording
  BY <1>9, CrashMoves, ClientTypes, Markers, EnqueuedTypes DEF RecordTypes
<1>. QED
  BY <1>1, <1>2, <1>3, <1>4, <1>5, <1>6, <1>7, <1>8, <1>9, Steps
LEMMA Counting ==
    ASSUME NEW max \in Nat
    PROVE  /\ 0 \in 0..max
           /\ \A n \in 0..max : n < max => n + 1 \in 0..max
OBVIOUS

LEMMA Counters ==
    /\ 0 \in 0..MaxEdits /\ 0 \in 0..MaxLocks
    /\ \A n \in 0..MaxEdits : n < MaxEdits => n + 1 \in 0..MaxEdits
    /\ \A n \in 0..MaxAccounts : n < MaxAccounts => n + 1 \in 0..MaxAccounts
    /\ \A n \in 0..MaxLocks : n < MaxLocks => n + 1 \in 0..MaxLocks
    /\ \A n \in 0..MaxRestarts : n < MaxRestarts => n + 1 \in 0..MaxRestarts
BY Bounds, Counting

LEMMA NextOwnTypes ==
    ASSUME BackupTypeOK, Slots, Session, BackupNext
    PROVE  OwnTypes'
<1>0. OwnTypes
  BY TypesSplit
<1>1. CASE UserStep
  <2>1. ASSUME NEW source \in Sources, Import(source)
        PROVE  OwnTypes'
    <3>1. account.id + 1 \in 0..MaxAccounts
      BY <1>0, <2>1, Counters DEF Import, OwnTypes
    <3>. QED
      BY <1>0, <2>1, <3>1, Counters DEF Import, OwnTypes
  <2>2. CASE Unlock
    <3>1. account.source \in Sources
      BY <1>0, <2>2 DEF Unlock, OwnTypes
    <3>. QED
      BY <1>0, <2>2, <3>1 DEF Unlock, OwnTypes, userVars
  <2>3. CASE SaveNote \/ CreateOrDeleteNote
    <3>1. edits + 1 \in 0..MaxEdits
      BY <1>0, <2>3, Counters DEF SaveNote, CreateOrDeleteNote, OwnTypes
    <3>2. edits' = edits + 1 /\ saved' \in {saved, edits + 1} /\ debounce' \in BOOLEAN
      BY <1>0, <2>3 DEF SaveNote, CreateOrDeleteNote, OwnTypes, sessionVars
    <3>. QED
      BY <1>0, <2>3, <3>1, <3>2 DEF SaveNote, CreateOrDeleteNote, OwnTypes, sessionVars
  <2>4. CASE Lock
    <3>1. generation + 1 \in 0..MaxLocks
      BY <1>0, <2>4, Counters DEF Lock, OwnTypes
    <3>. QED
      BY <1>0, <2>4, <3>1 DEF Lock, OwnTypes, userVars
  <2>5. ASSUME NEW s \in Stashes, StartStash(s)
        PROVE  OwnTypes'
    <3>1. [account |-> account.id, edits |-> edits] \in Exports /\ s \in Cids
      BY <1>0, Markers DEF OwnTypes, Exports
    <3>2. origin' \in [Cids -> Exports \union {None}]
      BY <1>0, <2>5, <3>1 DEF OwnTypes, StartStash
    <3>. QED
      BY <1>0, <2>5, <3>2 DEF StartStash, OwnTypes, sessionVars
  <2>. QED
    BY <1>1, <2>1, <2>2, <2>3, <2>4, <2>5 DEF UserStep
<1>2. CASE ResetAndWipe
  <2>1. generation + 1 \in 0..MaxLocks
    BY <1>0, <1>2, Counters DEF ResetAndWipe, OwnTypes
  <2>2. "" \in Statuses
    BY DEF Statuses
  <2>. QED
    BY <1>0, <1>2, <2>1, <2>2, Counters DEF ResetAndWipe, OwnTypes
<1>3. CASE DebounceFires \/ TriggerBackup
  <2>1. /\ debounce' = FALSE
        /\ UNCHANGED <<keySource, generation, account, edits, saved, polling, inscribed, restarts>>
        /\ NoUpload \/ \E b \in Backups : Taken(b) \/ Refused(b)
    BY <1>3, UploadMoves
  <2>2. storageStatus' \in Statuses
    BY <2>1 DEF NoUpload, Taken, Refused, Statuses
  <2>3. /\ job' \in [Backups -> (0..MaxLocks) \union {None}]
        /\ origin' \in [Cids -> Exports \union {None}]
    <3>1. CASE NoUpload
      BY <1>0, <3>1 DEF OwnTypes, NoUpload
    <3>2. ASSUME NEW b \in Backups, Starts(b)
          PROVE  /\ job' \in [Backups -> (0..MaxLocks) \union {None}]
                 /\ origin' \in [Cids -> Exports \union {None}]
      <4>1. [account |-> account.id, edits |-> edits] \in Exports /\ b \in Cids
        BY <1>0, Markers DEF OwnTypes, Exports
      <4>. QED
        BY <1>0, <3>2, <4>1 DEF OwnTypes, Starts
    <3>. QED
      BY <2>1, <3>1, <3>2 DEF Taken, Refused
  <2>. QED
    BY <1>0, <2>1, <2>2, <2>3 DEF OwnTypes
<1>4. CASE ClientAnswers
  <2>1. UNCHANGED <<keySource, generation, debounce, job, account, edits, saved, polling,
                    inscribed, restarts, origin>>
    BY <1>4, ClientMoves
  <2>2. storageStatus' \in Statuses
    <3>1. \A b, text : CallbackDoes(b, text) => storageStatus' \in Statuses \union {storageStatus}
      BY DEF CallbackDoes, Recorded, Statuses
    <3>. QED
      BY <1>0, <1>4, <3>1, ClientMoves DEF OwnTypes
  <2>. QED
    BY <1>0, <2>1, <2>2 DEF OwnTypes
<1>5. CASE ModuleChanges
  BY <1>0, <1>5, ModuleMoves DEF OwnTypes, backupVars, sessionVars, userVars
<1>6. CASE StashCidArrives
  BY <1>0, <1>6, StashMoves DEF OwnTypes
<1>7. CASE \E cid \in Cids : MarkInscribed(cid)
  BY <1>0, <1>7 DEF OwnTypes, MarkInscribed, sessionVars
<1>8. CASE Restart \/ CrashWhileRecording
  <2>1. PICK status \in Statuses : NewProcess(status)
    BY <1>8, RestartMoves, CrashMoves, MetaType, FailedIsStatus
  <2>2. restarts + 1 \in 0..MaxRestarts
    BY <1>0, <2>1, NewProcessMoves, Counters DEF OwnTypes
  <2>. QED
    BY <1>0, <2>1, <2>2, NewProcessMoves, Counters DEF OwnTypes
<1>. QED
  BY <1>1, <1>2, <1>3, <1>4, <1>5, <1>6, <1>7, <1>8, Steps

LEMMA NextTypes ==
    ASSUME BackupTypeOK, Slots, Session, BackupNext
    PROVE  BackupTypeOK'
<1>1. Client!TypeOK' /\ OwnTypes' /\ RecordTypes'
  BY NextClientTypes, NextOwnTypes, NextRecordTypes
<1>. QED
  BY <1>1 DEF BackupTypeOK, OwnTypes, RecordTypes, Exports

-----------------------------------------------------------------------------
(* Slots, sessions and jobs.                                                 *)

LEMMA NextSlots ==
    ASSUME BackupTypeOK, Slots, Session, BackupNext
    PROVE  Slots'
<1>1. CASE UserStep \/ ResetAndWipe \/ StashCidArrives \/ \E cid \in Cids : MarkInscribed(cid)
  <2>1. UNCHANGED <<pending, working, called>>
    BY <1>1, UserMoves DEF ResetAndWipe, StashCidArrives, MarkInscribed, clientVars
  <2>. QED
    BY <2>1 DEF Slots
<1>2. CASE DebounceFires \/ TriggerBackup
  <2>1. CASE NoUpload
    BY <2>1 DEF NoUpload, Slots
  <2>2. ASSUME NEW b \in Backups, Taken(b)
        PROVE  Slots'
    BY <2>2, ClientTypes DEF Taken, Starts, Slots
  <2>3. ASSUME NEW b \in Backups, Refused(b)
        PROVE  Slots'
    BY <2>3 DEF Refused, Starts, Slots
  <2>. QED
    BY <1>2, <2>1, <2>2, <2>3, UploadMoves
<1>3. CASE ClientAnswers
  <2>1. working' \subseteq called' /\ called' = called
    BY <1>3, ClientMoves DEF Slots
  <2>2. \/ UNCHANGED pending
        \/ pending' = [pending EXCEPT !["upload"] = NoRequest]
    BY <1>3, ClientMoves DEF Answers
  <2>. QED
    BY <2>1, <2>2, ClientTypes DEF Slots
<1>4. CASE ModuleChanges
  BY <1>4, ModuleMoves DEF Slots
<1>5. CASE Restart \/ CrashWhileRecording
  <2>1. \E status : NewProcess(status)
    BY <1>5, RestartMoves, CrashMoves
  <2>. QED
    BY <2>1, NewProcessMoves DEF Slots
<1>. QED
  BY <1>1, <1>2, <1>3, <1>4, <1>5, Steps

LEMMA NextSession ==
    ASSUME BackupTypeOK, Slots, Session, BackupNext
    PROVE  Session'
<1>1. CASE UserStep \/ ResetAndWipe
  <2>. debounce \in BOOLEAN
    BY DEF BackupTypeOK
  <2>. account \in [id : 0..MaxAccounts, source : Sources \union {"none"}]
    BY DEF BackupTypeOK
  <2>1. ASSUME NEW source \in Sources, Import(source)
        PROVE  Session'
    <3>1. ~debounce
      BY <2>1 DEF Import, Session, DebounceOnlyInKeycard
    <3>. QED
      BY <2>1, <3>1 DEF Import, Session, DebounceOnlyInKeycard
  <2>2. CASE Unlock
    <3>1. ~debounce
      BY <2>2 DEF Unlock, Session, DebounceOnlyInKeycard
    <3>. QED
      BY <2>2, <3>1 DEF Unlock, Session, DebounceOnlyInKeycard, userVars
  <2>3. CASE SaveNote
    BY <2>3 DEF SaveNote, Session, DebounceOnlyInKeycard
  <2>4. CASE CreateOrDeleteNote \/ \E s \in Stashes : StartStash(s)
    BY <2>4 DEF CreateOrDeleteNote, StartStash, Session, DebounceOnlyInKeycard, sessionVars
  <2>5. CASE Lock \/ ResetAndWipe
    BY <2>5 DEF Lock, ResetAndWipe, Session, DebounceOnlyInKeycard
  <2>. QED
    BY <1>1, <2>1, <2>2, <2>3, <2>4, <2>5 DEF UserStep
<1>2. CASE DebounceFires \/ TriggerBackup
  BY <1>2, UploadMoves DEF Session, DebounceOnlyInKeycard
<1>3. CASE ClientAnswers \/ ModuleChanges \/ StashCidArrives \/ \E cid \in Cids : MarkInscribed(cid)
  <2>1. UNCHANGED <<keySource, debounce, account>>
    BY <1>3, ClientMoves, ModuleMoves, StashMoves DEF MarkInscribed, backupVars, sessionVars, userVars
  <2>. QED
    BY <2>1 DEF Session, DebounceOnlyInKeycard
<1>4. CASE Restart \/ CrashWhileRecording
  <2>1. \E status : NewProcess(status)
    BY <1>4, RestartMoves, CrashMoves
  <2>. QED
    BY <2>1, NewProcessMoves DEF Session, DebounceOnlyInKeycard
<1>. QED
  BY <1>1, <1>2, <1>3, <1>4, Steps
LEMMA JobTypes ==
    ASSUME BackupTypeOK
    PROVE  /\ generation \in Nat /\ generation \in 0..generation /\ None # generation
           /\ job \in [Backups -> (0..MaxLocks) \union {None}]
<1>1. generation \in 0..MaxLocks /\ job \in [Backups -> (0..MaxLocks) \union {None}]
  BY DEF BackupTypeOK
<1>2. generation \in Nat /\ generation \in 0..generation
  BY <1>1, Bounds
<1>. QED
  BY <1>1, <1>2, Bounds

\* A new generation: no job is of it.
LEMMA NewGeneration ==
    ASSUME BackupTypeOK, Jobs, generation' = generation + 1, UNCHANGED <<job, called, pending>>
    PROVE  Jobs' /\ \A b \in Backups : job'[b] # generation'
<1>. DEFINE g == generation
<1>1. g \in Nat
  BY JobTypes
<1>2. \A n \in 0..g : n \in 0..(g + 1) /\ n # g + 1
  <2>. HIDE DEF g
  <2>. QED
    BY <1>1
<1>3. g + 1 # None
  <2>1. g + 1 \in Nat
    BY <1>1
  <2>. QED
    BY <2>1, Bounds
<1>4. ASSUME NEW b \in Backups
      PROVE  job[b] # g + 1 /\ (job[b] # None => job[b] \in 0..(g + 1) /\ b \in called)
  <2>1. CASE job[b] = None
    BY <1>3, <2>1
  <2>2. CASE job[b] # None
    BY <1>2, <2>2 DEF Jobs
  <2>. QED
    BY <2>1, <2>2
<1>. QED
  BY <1>4 DEF Jobs

LEMMA NextJobs ==
    ASSUME BackupTypeOK, Slots, Session, Jobs, BackupNext
    PROVE  Jobs'
<1>1. CASE UserStep
  <2>1. CASE Lock
    <3>1. generation' = generation + 1 /\ UNCHANGED <<job, called, pending>>
      BY <2>1 DEF Lock, clientVars
    <3>. QED
      BY <3>1, NewGeneration
  <2>2. CASE ~Lock
    <3>1. /\ UNCHANGED <<job, called, pending, generation>>
          /\ keySource = "keycard" => keySource' = "keycard"
      <4>1. account.source = "none" => keySource = "none"
        BY DEF Session
      <4>. QED
        BY <1>1, <2>2, <4>1 DEF UserStep, Import, Unlock, SaveNote, CreateOrDeleteNote, StartStash,
           sessionVars, clientVars
    <3>. QED
      BY <3>1 DEF Jobs
  <2>. QED
    BY <2>1, <2>2
<1>2. CASE ResetAndWipe
  <2>1. generation' = generation + 1 /\ UNCHANGED <<job, called, pending>>
    BY <1>2 DEF ResetAndWipe, clientVars
  <2>. QED
    BY <2>1, NewGeneration
<1>3. CASE DebounceFires \/ TriggerBackup
  <2>1. /\ keySource = "keycard" /\ UNCHANGED <<keySource, generation>>
        /\ NoUpload \/ \E b \in Backups : Taken(b) \/ Refused(b)
    BY <1>3, UploadMoves
  <2>2. CASE NoUpload
    BY <2>1, <2>2 DEF NoUpload, Jobs
  <2>3. ASSUME NEW b \in Backups, Taken(b) \/ Refused(b)
        PROVE  Jobs'
    <3>1. called' = called \union {b} /\ job' = [job EXCEPT ![b] = generation]
      BY <2>3 DEF Taken, Refused, Starts
    <3>2. \A c \in Backups : job'[c] = IF c = b THEN generation ELSE job[c]
      BY <3>1, JobTypes
    <3>3. \A c \in Backups : pending'["upload"] = c => c = b \/ pending["upload"] = c
      BY <2>3, ClientTypes DEF Taken, Refused
    <3>4. \A c \in Backups : job'[c] # None => job'[c] \in 0..generation /\ c \in called'
      BY <3>1, <3>2, JobTypes DEF Jobs
    <3>5. \A c \in Backups : pending'["upload"] = c => job'[c] # None
      BY <3>2, <3>3, JobTypes DEF Jobs
    <3>. QED
      BY <2>1, <3>4, <3>5 DEF Jobs
  <2>. QED
    BY <2>1, <2>2, <2>3
<1>4. CASE ClientAnswers
  <2>1. UNCHANGED <<job, called, generation, keySource>>
    BY <1>4, ClientMoves
  <2>2. pending'["upload"] \in {pending["upload"], NoRequest}
    BY <1>4, ClientMoves, ClientTypes DEF Answers
  <2>. QED
    BY <2>1, <2>2, Markers DEF Jobs
<1>5. CASE ModuleChanges \/ StashCidArrives \/ \E cid \in Cids : MarkInscribed(cid)
  <2>1. UNCHANGED <<job, called, generation, keySource, pending>>
    BY <1>5, ModuleMoves, StashMoves DEF MarkInscribed, backupVars, sessionVars, clientVars
  <2>. QED
    BY <2>1 DEF Jobs
<1>6. CASE Restart \/ CrashWhileRecording
  <2>1. \E status : NewProcess(status)
    BY <1>6, RestartMoves, CrashMoves
  <2>2. None # 0
    BY Bounds
  <2>3. /\ generation' = 0 /\ job' = [b \in Backups |-> None]
        /\ pending'["upload"] = NoRequest
    BY <2>1, NewProcessMoves
  <2>4. \A b \in Backups : job'[b] = None /\ b # NoRequest
    BY <2>3, Markers
  <2>. QED
    BY <2>2, <2>3, <2>4 DEF Jobs
<1>. QED
  BY <1>1, <1>2, <1>3, <1>4, <1>5, <1>6, Steps

-----------------------------------------------------------------------------
(* The status.                                                               *)

\* Only an upload of the current session that is in the slot, or one of an
\* earlier session, explains "uploading".
LEMMA NextStatus ==
    ASSUME BackupTypeOK, Slots, Session, Jobs, Status, BackupNext
    PROVE  Status'
<1>. DEFINE Stays == /\ UNCHANGED <<storageStatus, meta, job, pending, generation>>
<1>1. ASSUME Stays PROVE Status'
  BY <1>1 DEF Status, UploadingUnlessFenced, SyncedHasCid, InFlight
<1>2. CASE UserStep
  <2>1. CASE Lock
    <3>1. generation' = generation + 1 /\ UNCHANGED <<job, called, pending, storageStatus, meta>>
      BY <2>1 DEF Lock, clientVars, recordVars
    <3>2. \A b \in Backups : job'[b] # generation'
      BY <3>1, NewGeneration
    <3>3. generation' > 0
      <4>1. generation \in Nat
        BY JobTypes
      <4>. QED
        BY <3>1, <4>1
    <3>. QED
      BY <3>1, <3>2, <3>3 DEF Status, UploadingUnlessFenced, SyncedHasCid
  <2>2. CASE ~Lock
    <3>1. Stays
      BY <1>2, <2>2, UserMoves DEF UserStep, Import, Unlock, SaveNote, CreateOrDeleteNote, StartStash,
         sessionVars
    <3>. QED
      BY <1>1, <3>1
  <2>. QED
    BY <2>1, <2>2
<1>3. CASE ResetAndWipe
  BY <1>3 DEF ResetAndWipe, NoMeta, Status, UploadingUnlessFenced, SyncedHasCid
<1>4. ASSUME StatusSaved("failed"), storageStatus' \in {"unavailable", "failed"}
      PROVE  Status'
  BY <1>4 DEF StatusSaved, Status, UploadingUnlessFenced, SyncedHasCid
<1>5. CASE DebounceFires \/ TriggerBackup
  <2>1. ASSUME NEW b \in Backups, Taken(b)
        PROVE  Status'
    <3>1. InFlight(b)' /\ job'[b] = generation
      BY <2>1, JobTypes, ClientTypes DEF Taken, Starts, InFlight
    <3>2. storageStatus' = "uploading" /\ UNCHANGED <<meta, generation>>
      BY <1>5, <2>1, UploadMoves DEF Taken
    <3>. QED
      BY <3>1, <3>2 DEF Status, UploadingUnlessFenced, SyncedHasCid
  <2>. QED
    BY <1>4, <1>5, <2>1, UploadMoves DEF NoUpload, Refused
<1>6. CASE ClientAnswers
  <2>1. UNCHANGED <<job, generation, keySource>>
    BY <1>6, ClientMoves
  <2>2. CASE UNCHANGED <<pending, storageStatus, meta>>
    BY <1>1, <2>1, <2>2
  <2>3. ASSUME NEW b \in Backups, pending["upload"] = b, NEW text \in UploadTexts,
               CallbackDoes(b, text)
        PROVE  Status'
    <3>1. CASE Fenced(b) /\ UNCHANGED <<storageStatus, meta>>
      <4>1. job[b] # generation
        BY <3>1 DEF Fenced, Jobs
      <4>2. \A c \in Backups : InFlight(c) => c = b
        BY <2>3 DEF InFlight
      <4>. QED
        BY <2>1, <3>1, <4>1, <4>2 DEF Status, UploadingUnlessFenced, SyncedHasCid
    <3>2. CASE text \in UploadTexts \ {Empty} /\ Recorded(text)
      <4>1. text # None
        BY <3>2, Markers DEF UploadTexts, Cids
      <4>2. storageStatus' \in {"synced", "failed"} /\ meta'.status \in {meta.status, storageStatus'}
            /\ meta'.cid \in {meta.cid, text} /\ (storageStatus' = "synced" => meta'.cid = text)
        BY <3>2 DEF Recorded, CidSaved
      <4>. QED
        BY <4>1, <4>2 DEF Status, UploadingUnlessFenced, SyncedHasCid
    <3>3. CASE storageStatus' = "failed" /\ StatusSaved("failed")
      BY <1>4, <3>3
    <3>. QED
      BY <2>3, <3>1, <3>2, <3>3 DEF CallbackDoes
  <2>4. Empty \in UploadTexts
    BY DEF UploadTexts
  <2>. QED
    BY <1>6, <2>2, <2>3, <2>4, ClientMoves DEF Answers
<1>7. CASE ModuleChanges \/ \E cid \in Cids : MarkInscribed(cid)
  <2>1. Stays
    BY <1>7, ModuleMoves DEF MarkInscribed, backupVars, sessionVars, clientVars, recordVars
  <2>. QED
    BY <1>1, <2>1
<1>8. CASE StashCidArrives
  <2>1. UNCHANGED <<storageStatus, job, pending, generation>>
    BY <1>8, StashMoves DEF clientVars
  <2>2. meta'.status = meta.status /\ (meta.cid # None => meta'.cid # None)
    BY <1>8, StashMoves, Markers DEF CidSaved
  <2>. QED
    BY <2>1, <2>2 DEF Status, UploadingUnlessFenced, SyncedHasCid, InFlight
<1>9. CASE Restart
  BY <1>9, RestartMoves, NewProcessMoves DEF Status, UploadingUnlessFenced, SyncedHasCid
<1>10. CASE CrashWhileRecording
  <2>1. storageStatus' = meta.status /\ meta'.status = meta.status /\ meta'.cid # None
    BY <1>10, CrashMoves, NewProcessMoves, ClientTypes, Markers
  <2>. QED
    BY <2>1 DEF Status, UploadingUnlessFenced, SyncedHasCid
<1>. QED
  BY <1>2, <1>3, <1>5, <1>6, <1>7, <1>8, <1>9, <1>10, Steps
-----------------------------------------------------------------------------
(* The queue.                                                                *)

\* enqueueCid adds at most the one CID, once.
LEMMA SavedQueue ==
    ASSUME BackupTypeOK, QueueIsSet, NEW cid \in Cids, CidSaved(cid)
    PROVE  /\ QueueIsSet'
           /\ Queued \subseteq Queued' /\ Queued' \subseteq Queued \union {cid}
           /\ ~torn' => cid \in Queued'
<1>1. queue \in [Cids -> Nat] /\ (\A c \in Cids : queue[c] \in {0, 1})
  BY MetaType DEF QueueIsSet
<1>2. Enqueued(queue, cid) =
        IF queue[cid] > 0 THEN queue ELSE [queue EXCEPT ![cid] = queue[cid] + 1]
  BY Markers DEF Enqueued
<1>3. /\ \A c \in Cids : c # cid => Enqueued(queue, cid)[c] = queue[c]
      /\ Enqueued(queue, cid)[cid] = 1
  BY <1>1, <1>2
<1>4. queue' \in {queue, Enqueued(queue, cid)} /\ (~torn' => queue' = Enqueued(queue, cid))
  BY DEF CidSaved
<1>5. /\ \A c \in Cids : queue'[c] = queue[c] \/ (c = cid /\ queue'[c] = 1)
      /\ ~torn' => queue'[cid] = 1
  BY <1>3, <1>4
<1>. QED
  BY <1>1, <1>5 DEF QueueIsSet, Queued

\* What keeps the recorded CID in the queue or inscribed.
LEMMA QueueKept ==
    ASSUME Queue, torn => torn', UNCHANGED <<queue, inscribed>>, meta'.cid = meta.cid,
           torn \in BOOLEAN, torn' \in BOOLEAN
    PROVE  Queue'
BY DEF Queue, QueueIsSet, RecordedCidIsQueued, Queued

LEMMA QueueSaved ==
    ASSUME BackupTypeOK, Queue, NEW cid \in Cids, CidSaved(cid), UNCHANGED inscribed
    PROVE  Queue'
<1>1. /\ QueueIsSet'
      /\ Queued \subseteq Queued' /\ (~torn' => cid \in Queued')
  BY SavedQueue DEF Queue
<1>2. (torn => torn') /\ meta'.cid \in {meta.cid, cid} /\ torn \in BOOLEAN /\ torn' \in BOOLEAN
  BY MetaType DEF CidSaved
<1>3. RecordedCidIsQueued'
  BY <1>1, <1>2 DEF Queue, RecordedCidIsQueued
<1>. QED
  BY <1>1, <1>3 DEF Queue

LEMMA NextQueue ==
    ASSUME BackupTypeOK, Slots, Session, Queue, BackupNext
    PROVE  Queue'
<1>. torn \in BOOLEAN
  BY MetaType
<1>1. CASE UserStep
  BY <1>1, UserMoves, QueueKept
<1>2. CASE ResetAndWipe
  <2>1. PICK ok \in Writes : queue' = IF ok THEN NoQueue ELSE queue
    BY <1>2 DEF ResetAndWipe
  <2>2. \A c \in Cids : queue'[c] \in {0, 1}
    BY <2>1 DEF NoQueue, Queue, QueueIsSet
  <2>3. meta'.cid = None
    BY <1>2 DEF ResetAndWipe, NoMeta
  <2>. QED
    BY <2>2, <2>3 DEF Queue, QueueIsSet, RecordedCidIsQueued
<1>3. CASE DebounceFires \/ TriggerBackup
  <2>1. UNCHANGED <<queue, inscribed>> /\ (UNCHANGED <<meta, torn>> \/ StatusSaved("failed"))
    BY <1>3, UploadMoves DEF NoUpload, Taken, Refused, Starts
  <2>2. (torn => torn') /\ torn' \in BOOLEAN /\ meta'.cid = meta.cid
    BY <2>1 DEF StatusSaved
  <2>. QED
    BY <2>1, <2>2, QueueKept
<1>4. CASE ClientAnswers
  <2>1. UNCHANGED inscribed
    BY <1>4, ClientMoves
  <2>2. ASSUME NEW b, NEW text, CallbackDoes(b, text)
        PROVE  Queue'
    <3>1. CASE UNCHANGED <<meta, queue, torn>>
      BY <2>1, <3>1, QueueKept
    <3>2. CASE StatusSaved("failed") /\ UNCHANGED queue
      BY <2>1, <3>2, QueueKept DEF StatusSaved
    <3>3. CASE text \in UploadTexts \ {Empty} /\ CidSaved(text)
      <4>1. text \in Cids
        BY <3>3 DEF UploadTexts, Cids
      <4>. QED
        BY <2>1, <3>3, <4>1, QueueSaved
    <3>. QED
      BY <2>2, <3>1, <3>2, <3>3 DEF CallbackDoes, Recorded
  <2>3. CASE UNCHANGED <<meta, queue, torn>>
    BY <2>1, <2>3, QueueKept
  <2>. QED
    BY <1>4, <2>2, <2>3, ClientMoves
<1>5. CASE ModuleChanges
  <2>1. UNCHANGED <<meta, queue, torn, inscribed>>
    BY <1>5, ModuleMoves DEF backupVars, recordVars, userVars
  <2>. QED
    BY <2>1, QueueKept
<1>6. CASE StashCidArrives
  BY <1>6, StashMoves, Markers, QueueSaved
<1>7. ASSUME NEW cid \in Cids, MarkInscribed(cid)
      PROVE  Queue'
  <2>1. queue' = [queue EXCEPT ![cid] = 0] /\ inscribed' = inscribed \union {cid}
        /\ UNCHANGED <<meta, torn>>
    BY <1>7 DEF MarkInscribed
  <2>2. \A c \in Cids : queue'[c] = IF c = cid THEN 0 ELSE queue[c]
    BY <2>1, MetaType
  <2>3. QueueIsSet' /\ Queued \subseteq Queued' \union {cid}
    BY <2>2 DEF Queue, QueueIsSet, Queued
  <2>. QED
    BY <2>1, <2>3 DEF Queue, RecordedCidIsQueued
<1>8. CASE Restart
  <2>1. UNCHANGED <<queue, torn, inscribed>> /\ meta'.cid = meta.cid
    BY <1>8, RestartMoves, NewProcessMoves
  <2>. QED
    BY <2>1, QueueKept
<1>9. CASE CrashWhileRecording
  <2>1. UNCHANGED inscribed
    BY <1>9, CrashMoves, NewProcessMoves
  <2>. QED
    BY <1>9, <2>1, CrashMoves, ClientTypes, Markers, QueueSaved
<1>. QED
  BY <1>1, <1>2, <1>3, <1>4, <1>5, <1>6, <1>7, <1>8, <1>9, Steps

-----------------------------------------------------------------------------
(* The order of events.                                                      *)

\* A time-out is never forgotten, and what was handed over stays.
LEMMA ReplyOrderly ==
    ASSUME BackupTypeOK, NEW b \in Backups, NEW why \in Client!Refusals \union Client!Closings,
           NEW text \in Client!Texts, Client!Reply(b, why, text), Orderly'
    PROVE  Orderly /\ why # "timeout"
           /\ (Client!OwnCid /\ text \in {b, Empty} => Client!OwnCid')
<1>1. /\ \E n \in DOMAIN replies'[b] : replies'[b][n] = [why |-> why, text |-> text]
      /\ \A c \in Backups : c # b => replies'[c] = replies[c]
      /\ \A n \in DOMAIN replies[b] : n \in DOMAIN replies'[b] /\ replies'[b][n] = replies[b][n]
      /\ \A n \in DOMAIN replies'[b] :
           n \in DOMAIN replies[b] \/ replies'[b][n] = [why |-> why, text |-> text]
  BY ReplyMoves, ClientTypes
<1>2. \A c \in Backups : \A n \in DOMAIN replies'[c] : replies'[c][n].why # "timeout"
  BY DEF Orderly, TimedOut, Client!GivenUp
<1>3. why # "timeout"
  BY <1>1, <1>2
<1>4. Orderly
  <2>1. \A c \in Backups : \A n \in DOMAIN replies[c] : replies[c][n].why # "timeout"
    BY <1>1, <1>2
  <2>. QED
    BY <2>1 DEF Orderly, TimedOut, Client!GivenUp
<1>5. ASSUME Client!OwnCid, text \in {b, Empty}
      PROVE  Client!OwnCid'
  <2>1. \A c \in Backups : \A n \in DOMAIN replies'[c] : replies'[c][n].text \in {c, Empty}
    BY <1>1, <1>5 DEF Client!OwnCid
  <2>. QED
    BY <2>1 DEF Client!OwnCid
<1>. QED
  BY <1>3, <1>4, <1>5

LEMMA SameReplies ==
    ASSUME UNCHANGED replies
    PROVE  (Orderly' <=> Orderly) /\ (Client!OwnCid' <=> Client!OwnCid)
BY DEF Orderly, TimedOut, Client!GivenUp, Client!OwnCid

\* An answered request and a refused one.
LEMMA AnswersOrderly ==
    ASSUME BackupTypeOK, NEW b \in Backups, NEW why \in {"done", "timeout"}, NEW text \in UploadTexts,
           Answers(b, why, text), Orderly'
    PROVE  Orderly /\ why # "timeout"
           /\ (Client!OwnCid /\ text \in {b, Empty} => Client!OwnCid')
<1>1. Client!Reply(b, why, text) /\ text \in Client!Texts
      /\ why \in Client!Refusals \union Client!Closings
  BY RequestsAre DEF Answers, UploadTexts, Client!Texts, Client!Closings
<1>. QED
  BY <1>1, ReplyOrderly

LEMMA RefusedOrderly ==
    ASSUME BackupTypeOK, NEW b \in Backups, Client!Reply(b, "busy", Empty), Orderly'
    PROVE  Orderly /\ (Client!OwnCid => Client!OwnCid')
<1>1. Empty \in Client!Texts /\ "busy" \in Client!Refusals \union Client!Closings
  BY DEF Client!Texts, Client!Refusals
<1>. QED
  BY <1>1, ReplyOrderly

LEMMA OrderlyBefore ==
    ASSUME BackupTypeOK, Slots, Session, BackupNext, Orderly'
    PROVE  Orderly
<1>1. CASE UNCHANGED replies
  BY <1>1, SameReplies
<1>2. CASE UserStep \/ ResetAndWipe \/ ModuleChanges \/ StashCidArrives
           \/ (\E cid \in Cids : MarkInscribed(cid)) \/ Restart \/ CrashWhileRecording
  <2>1. UNCHANGED replies
    BY <1>2, UserMoves, ModuleMoves, StashMoves, RestartMoves, CrashMoves
       DEF ResetAndWipe, MarkInscribed, clientVars
  <2>. QED
    BY <1>1, <2>1
<1>3. CASE DebounceFires \/ TriggerBackup
  <2>1. UNCHANGED replies \/ \E b \in Backups : Client!Reply(b, "busy", Empty)
    BY <1>3, UploadMoves DEF NoUpload, Taken, Refused
  <2>. QED
    BY <1>1, <2>1, RefusedOrderly
<1>4. CASE ClientAnswers
  <2>1. Empty \in UploadTexts
    BY DEF UploadTexts
  <2>. QED
    BY <1>1, <1>4, <2>1, ClientMoves, AnswersOrderly
<1>. QED
  BY <1>2, <1>3, <1>4, Steps
LEMMA NextRouting ==
    ASSUME BackupTypeOK, Slots, Session, Routing, BackupNext
    PROVE  Routing'
<1>. SUFFICES ASSUME Orderly'
              PROVE  Client!OwnCid' /\ working' \subseteq {pending'["upload"]}
  BY DEF Routing
<1>1. Orderly /\ Client!OwnCid /\ working \subseteq {pending["upload"]}
  BY OrderlyBefore DEF Routing
<1>2. CASE UserStep \/ ResetAndWipe \/ ModuleChanges \/ StashCidArrives
           \/ (\E cid \in Cids : MarkInscribed(cid))
  <2>1. UNCHANGED <<replies, pending>> /\ working' \subseteq working
    BY <1>2, UserMoves, ModuleMoves, StashMoves DEF ResetAndWipe, MarkInscribed, clientVars
  <2>. QED
    BY <1>1, <2>1, SameReplies
<1>3. CASE DebounceFires \/ TriggerBackup
  <2>1. CASE NoUpload
    BY <1>1, <2>1, SameReplies DEF NoUpload
  <2>2. ASSUME NEW b \in Backups, Taken(b)
        PROVE  Client!OwnCid' /\ working' \subseteq {pending'["upload"]}
    <3>1. working = {}
      BY <1>1, <2>2, ClientTypes, Markers DEF Taken
    <3>. QED
      BY <1>1, <2>2, <3>1, SameReplies, ClientTypes DEF Taken
  <2>3. ASSUME NEW b \in Backups, Refused(b)
        PROVE  Client!OwnCid' /\ working' \subseteq {pending'["upload"]}
    BY <1>1, <2>3, RefusedOrderly DEF Refused
  <2>. QED
    BY <1>3, <2>1, <2>2, <2>3, UploadMoves
<1>4. CASE ClientAnswers
  <2>1. CASE UNCHANGED <<pending, replies>>
    BY <1>1, <1>4, <2>1, ClientMoves, SameReplies
  <2>2. ASSUME NEW b \in Backups, NEW text \in UploadTexts, Answers(b, "done", text),
               InOrder(b, text)
        PROVE  Client!OwnCid' /\ working' \subseteq {pending'["upload"]}
    BY <1>1, <2>2, AnswersOrderly DEF InOrder
  <2>3. ASSUME NEW b \in Backups, Answers(b, "timeout", Empty)
        PROVE  FALSE
    <3>1. Empty \in UploadTexts
      BY DEF UploadTexts
    <3>. QED
      BY <2>3, <3>1, AnswersOrderly
  <2>. QED
    BY <1>1, <1>4, <2>1, <2>2, <2>3, ClientMoves
<1>5. CASE Restart \/ CrashWhileRecording
  <2>1. UNCHANGED replies /\ working' = {}
    BY <1>5, RestartMoves, CrashMoves, NewProcessMoves
  <2>. QED
    BY <1>1, <2>1, SameReplies
<1>. QED
  BY <1>2, <1>3, <1>4, <1>5, Steps

-----------------------------------------------------------------------------
(* Whose backups are recorded.                                               *)

\* Uploads that were made keep what they hold.
LEMMA OriginsStay ==
    ASSUME BackupTypeOK, Slots, Session, BackupNext
    PROVE  /\ called \subseteq called'
           /\ \A b \in Backups : b \in called => origin'[b] = origin[b]
<1>. origin \in [Cids -> Exports \union {None}]
  BY TypesSplit DEF OwnTypes
<1>1. ASSUME NEW s \in Stashes, StartStash(s)
      PROVE  UNCHANGED called /\ \A b \in Backups : origin'[b] = origin[b]
  BY <1>1, Markers DEF StartStash, clientVars
<1>2. CASE UserStep /\ ~(\E s \in Stashes : StartStash(s))
  BY <1>2 DEF UserStep, Import, Unlock, SaveNote, CreateOrDeleteNote, Lock, clientVars
<1>3. CASE ResetAndWipe \/ \E cid \in Cids : MarkInscribed(cid)
  BY <1>3 DEF ResetAndWipe, MarkInscribed, clientVars
<1>4. CASE DebounceFires \/ TriggerBackup
  <2>1. CASE NoUpload
    BY <2>1 DEF NoUpload
  <2>2. ASSUME NEW b \in Backups, Starts(b)
        PROVE  called \subseteq called' /\ \A c \in Backups : c \in called => origin'[c] = origin[c]
    BY <2>2, Markers DEF Starts
  <2>. QED
    BY <1>4, <2>1, <2>2, UploadMoves DEF Taken, Refused
<1>5. CASE ClientAnswers \/ ModuleChanges
  BY <1>5, ClientMoves, ModuleMoves DEF backupVars
<1>6. CASE StashCidArrives
  BY <1>6, StashMoves DEF clientVars
<1>7. CASE Restart \/ CrashWhileRecording
  BY <1>7, RestartMoves, CrashMoves, NewProcessMoves
<1>. QED
  BY <1>1, <1>2, <1>3, <1>4, <1>5, <1>6, <1>7, Steps DEF UserStep

\* The account in the database stays until it is wiped, and its notes only
\* change.
LEMMA AccountStays ==
    ASSUME BackupTypeOK, Slots, Session, BackupNext, account.source # "none", ~ResetAndWipe
    PROVE  account' = account /\ edits' \in {edits, edits + 1}
<1>1. CASE UserStep
  BY <1>1 DEF UserStep, Import, Unlock, SaveNote, CreateOrDeleteNote, Lock, StartStash, userVars
<1>2. CASE DebounceFires \/ TriggerBackup \/ ClientAnswers \/ ModuleChanges
           \/ StashCidArrives \/ \E cid \in Cids : MarkInscribed(cid)
  BY <1>2, UploadMoves, ClientMoves, ModuleMoves, StashMoves DEF backupVars, userVars, MarkInscribed
<1>3. CASE Restart \/ CrashWhileRecording
  BY <1>3, RestartMoves, CrashMoves, NewProcessMoves
<1>. QED
  BY <1>1, <1>2, <1>3, Steps

\* The upload in the slot ends in its own session, which goes on.
OwnUpload(b) ==
    /\ b \in Backups /\ pending["upload"] = b /\ ~Fenced(b)
    /\ pending'["upload"] = NoRequest
    /\ UNCHANGED <<origin, account, edits, called>>

\* A CID that is new in the records is that of such an upload, or of a stash.
RecordsGrow ==
    /\ meta'.cid \in Backups => meta'.cid = meta.cid \/ OwnUpload(meta'.cid)
    /\ \A cid \in Queued' : cid \in Queued \/ OwnUpload(cid) \/ cid \in Stashes
    /\ torn => torn'

LEMMA NewCids ==
    ASSUME BackupTypeOK, Slots, Session, Queue, Routing, BackupNext, Orderly'
    PROVE  RecordsGrow
<1>. Orderly /\ QueueIsSet
  BY OrderlyBefore DEF Queue
<1>1. ASSUME UNCHANGED queue, meta'.cid = meta.cid, torn => torn'
      PROVE  RecordsGrow
  BY <1>1 DEF Queued, RecordsGrow
<1>2. ASSUME NEW cid \in Cids, CidSaved(cid), OwnUpload(cid) \/ cid \in Stashes
      PROVE  RecordsGrow
  <2>1. Queued' \subseteq Queued \union {cid} /\ meta'.cid \in {meta.cid, cid} /\ (torn => torn')
    BY <1>2, SavedQueue DEF CidSaved
  <2>. QED
    BY <1>2, <2>1, Markers DEF RecordsGrow
<1>3. CASE UserStep \/ ModuleChanges
  BY <1>1, <1>3, UserMoves, ModuleMoves DEF backupVars, recordVars
<1>4. CASE ResetAndWipe
  <2>1. PICK ok \in Writes : queue' = (IF ok THEN NoQueue ELSE queue) /\ torn' = (torn \/ ~ok)
    BY <1>4 DEF ResetAndWipe
  <2>2. Queued' \subseteq Queued
    BY <2>1 DEF Queued, NoQueue
  <2>3. meta'.cid \notin Backups
    BY <1>4, Markers DEF ResetAndWipe, NoMeta
  <2>. QED
    BY <2>1, <2>2, <2>3 DEF RecordsGrow
<1>5. CASE DebounceFires \/ TriggerBackup
  <2>1. UNCHANGED queue /\ (UNCHANGED <<meta, torn>> \/ StatusSaved("failed"))
    BY <1>5, UploadMoves DEF NoUpload, Taken, Refused, Starts
  <2>. QED
    BY <1>1, <2>1 DEF StatusSaved
<1>6. CASE ClientAnswers
  <2>1. ASSUME NEW b \in Backups, NEW text \in UploadTexts, CallbackDoes(b, text),
               NEW why \in {"done", "timeout"}, Answers(b, why, text),
               text = Empty \/ InOrder(b, text)
        PROVE  RecordsGrow
    <3>1. CASE UNCHANGED <<meta, queue, torn>>
      BY <1>1, <3>1
    <3>2. CASE StatusSaved("failed") /\ UNCHANGED queue
      BY <1>1, <3>2 DEF StatusSaved
    <3>3. CASE ~Fenced(b) /\ text # Empty /\ CidSaved(text)
      <4>1. text = b /\ pending["upload"] = b /\ pending'["upload"] = NoRequest
        BY <2>1, <3>3, ClientTypes DEF InOrder, Answers
      <4>2. UNCHANGED <<origin, account, edits, called>>
        BY <1>6, ClientMoves
      <4>3. OwnUpload(b) /\ b \in Cids
        BY <3>3, <4>1, <4>2, Markers DEF OwnUpload
      <4>. QED
        BY <1>2, <3>3, <4>1, <4>3
    <3>. QED
      BY <2>1, <3>1, <3>2, <3>3 DEF CallbackDoes, Recorded
  <2>2. CASE UNCHANGED <<meta, queue, torn>>
    BY <1>1, <2>2
  <2>3. ASSUME NEW b \in Backups, NEW text \in UploadTexts,
               Answers(b, "done", text), CallbackDoes(b, text),
               (Orderly /\ Routing) => InOrder(b, text)
        PROVE  RecordsGrow
    BY <2>1, <2>3
  <2>4. ASSUME NEW b \in Backups, Answers(b, "timeout", Empty), CallbackDoes(b, Empty)
        PROVE  RecordsGrow
    <3>1. Empty \in UploadTexts
      BY DEF UploadTexts
    <3>. QED
      BY <2>1, <2>4, <3>1
  <2>. QED
    BY <1>6, <2>2, <2>3, <2>4, ClientMoves
<1>7. CASE StashCidArrives
  BY <1>2, <1>7, StashMoves, Markers
<1>8. ASSUME NEW cid \in Cids, MarkInscribed(cid)
      PROVE  RecordsGrow
  <2>1. queue' = [queue EXCEPT ![cid] = 0] /\ UNCHANGED <<meta, torn>>
    BY <1>8 DEF MarkInscribed
  <2>2. \A c \in Cids : queue'[c] = IF c = cid THEN 0 ELSE queue[c]
    BY <2>1, MetaType
  <2>3. Queued' \subseteq Queued
    BY <2>2 DEF Queued
  <2>. QED
    BY <2>1, <2>3 DEF RecordsGrow
<1>9. CASE Restart
  BY <1>1, <1>9, RestartMoves
<1>10. CASE CrashWhileRecording
  <2>1. PICK cid \in working : CidSaved(cid)
    BY <1>10, CrashMoves
  <2>2. pending["upload"] = cid /\ ~Fenced(cid) /\ cid \in Backups
    BY <1>10, <2>1, CrashMoves DEF Routing
  <2>3. pending'["upload"] = NoRequest /\ UNCHANGED <<origin, account, edits, called>>
    BY <1>10, CrashMoves, NewProcessMoves
  <2>4. OwnUpload(cid) /\ cid \in Cids
    BY <2>2, <2>3, Markers DEF OwnUpload
  <2>. QED
    BY <1>2, <2>1, <2>4
<1>. QED
  BY <1>3, <1>4, <1>5, <1>6, <1>7, <1>8, <1>9, <1>10, Steps
\* Arithmetic of the notes' changes.
LEMMA EditsGrow ==
    ASSUME BackupTypeOK, edits' \in {edits, edits + 1}
    PROVE  /\ edits <= edits
           /\ \A e \in Exports : e.edits <= edits => e.edits <= edits'
<1>1. edits \in Nat
  BY Bounds DEF BackupTypeOK
<1>2. \A n \in Nat : n <= edits => n <= edits'
  BY <1>1
<1>3. \A e \in Exports : e.edits \in Nat
  BY Bounds DEF Exports
<1>. QED
  BY <1>1, <1>2, <1>3

\* An export of this moment.
LEMMA NewExport ==
    ASSUME BackupTypeOK, NEW b \in Backups, Starts(b)
    PROVE  /\ origin'[b] \in Exports /\ origin'[b].account = account.id /\ origin'[b].edits = edits
           /\ \A c \in Backups : c # b => origin'[c] = origin[c] /\ job'[c] = job[c]
<1>1. /\ origin \in [Cids -> Exports \union {None}] /\ b \in Cids
      /\ account.id \in 0..MaxAccounts /\ edits \in 0..MaxEdits
  BY TypesSplit, Markers DEF OwnTypes
<1>2. [account |-> account.id, edits |-> edits] \in Exports
  BY <1>1 DEF Exports
<1>3. origin' = [origin EXCEPT ![b] = [account |-> account.id, edits |-> edits]]
      /\ job' = [job EXCEPT ![b] = generation]
  BY DEF Starts
<1>4. origin'[b] = [account |-> account.id, edits |-> edits]
  BY <1>1, <1>3
<1>5. \A c \in Backups : c # b => origin'[c] = origin[c] /\ job'[c] = job[c]
  BY <1>1, <1>3, Markers, JobTypes
<1>. QED
  BY <1>2, <1>4, <1>5

\* A job of the current generation was so before, of the same account, or it
\* starts with this step.
LEMMA CurrentJobs ==
    ASSUME BackupTypeOK, Slots, Session, Jobs, BackupNext, NEW b \in Backups, job'[b] = generation'
    PROVE  \/ /\ job[b] = generation /\ account.source # "none" /\ ~ResetAndWipe
              /\ b \in called
              /\ pending'["upload"] = b => pending["upload"] = b
           \/ Starts(b) /\ UNCHANGED <<account, edits>>
<1>1. ASSUME job[b] = generation
      PROVE  account.source # "none" /\ b \in called
  <2>1. keySource = "keycard"
    BY <1>1 DEF Jobs
  <2>. QED
    BY <1>1, <2>1, JobTypes DEF Session, Jobs
<1>2. CASE Lock \/ ResetAndWipe
  <2>1. generation' = generation + 1 /\ UNCHANGED <<job, called, pending>>
    BY <1>2 DEF Lock, ResetAndWipe, clientVars
  <2>2. job'[b] # generation'
    BY <2>1, NewGeneration
  <2>. QED
    BY <2>2
<1>3. CASE UserStep /\ ~Lock /\ ~ResetAndWipe
  <2>1. UNCHANGED <<job, generation, pending>>
    BY <1>3 DEF UserStep, Import, Unlock, SaveNote, CreateOrDeleteNote, StartStash, sessionVars, clientVars
  <2>. QED
    BY <1>1, <1>3, <2>1
<1>4. CASE (DebounceFires \/ TriggerBackup) /\ ~ResetAndWipe
  <2>1. UNCHANGED <<account, edits, generation>>
    BY <1>4, UploadMoves
  <2>2. CASE NoUpload
    BY <1>1, <1>4, <2>1, <2>2 DEF NoUpload
  <2>3. ASSUME NEW c \in Backups, Taken(c) \/ Refused(c)
        PROVE  \/ /\ job[b] = generation /\ account.source # "none" /\ ~ResetAndWipe
                  /\ b \in called
                  /\ pending'["upload"] = b => pending["upload"] = b
               \/ Starts(b) /\ UNCHANGED <<account, edits>>
    <3>1. Starts(c)
      BY <2>3 DEF Taken, Refused
    <3>2. CASE b = c
      BY <2>1, <3>1, <3>2
    <3>3. CASE b # c
      <4>1. job[b] = generation
        BY <2>1, <3>1, <3>3, NewExport
      <4>2. pending'["upload"] \in {pending["upload"], c}
        BY <2>3, ClientTypes DEF Taken, Refused
      <4>. QED
        BY <1>1, <1>4, <3>3, <4>1, <4>2
    <3>. QED
      BY <3>2, <3>3
  <2>. QED
    BY <1>4, <2>2, <2>3, UploadMoves
<1>5. CASE ClientAnswers /\ ~ResetAndWipe
  <2>1. UNCHANGED <<job, generation>>
    BY <1>5, ClientMoves
  <2>2. pending'["upload"] \in {pending["upload"], NoRequest} /\ b # NoRequest
    BY <1>5, ClientMoves, ClientTypes, Markers DEF Answers
  <2>. QED
    BY <1>1, <1>5, <2>1, <2>2
<1>6. CASE (ModuleChanges \/ StashCidArrives \/ \E cid \in Cids : MarkInscribed(cid)) /\ ~ResetAndWipe
  <2>1. UNCHANGED <<job, generation, pending>>
    BY <1>6, ModuleMoves, StashMoves DEF MarkInscribed, backupVars, sessionVars, clientVars
  <2>. QED
    BY <1>1, <1>6, <2>1
<1>7. CASE Restart \/ CrashWhileRecording
  <2>1. generation' = 0 /\ job'[b] = None
    BY <1>7, RestartMoves, CrashMoves, NewProcessMoves
  <2>. QED
    BY <2>1, Bounds
<1>. QED
  BY <1>2, <1>3, <1>4, <1>5, <1>6, <1>7, Steps
LEMMA NextJobsOwnAccount ==
    ASSUME BackupTypeOK, Slots, Session, Jobs, JobsOwnAccount, BackupNext
    PROVE  JobsOwnAccount'
<1>. SUFFICES ASSUME NEW b \in Backups, job'[b] = generation'
              PROVE  /\ origin'[b] \in Exports
                     /\ origin'[b].account = account'.id /\ origin'[b].edits <= edits'
  BY DEF JobsOwnAccount, Exports
<1>1. CASE Starts(b) /\ UNCHANGED <<account, edits>>
  BY <1>1, NewExport, EditsGrow
<1>2. CASE job[b] = generation /\ account.source # "none" /\ ~ResetAndWipe /\ b \in called
  <2>1. account' = account /\ edits' \in {edits, edits + 1} /\ origin'[b] = origin[b]
    BY <1>2, AccountStays, OriginsStay
  <2>2. /\ origin[b] \in Exports
        /\ origin[b].account = account.id /\ origin[b].edits <= edits
    BY <1>2 DEF JobsOwnAccount
  <2>. QED
    BY <2>1, <2>2, EditsGrow
<1>. QED
  BY <1>1, <1>2, CurrentJobs

\* Such an upload was exported from the account in the database.
LEMMA OwnUploadIs ==
    ASSUME BackupTypeOK, Slots, Session, Jobs, JobsOwnAccount, NEW b, OwnUpload(b)
    PROVE  /\ b \in Backups /\ b \in called /\ account.source # "none"
           /\ job[b] = generation /\ pending["upload"] = b /\ pending'["upload"] = NoRequest
           /\ origin[b] \in Exports /\ origin[b].account = account.id /\ origin[b].edits <= edits
           /\ UNCHANGED <<origin, account, edits, called>>
<1>1. b \in Backups /\ pending["upload"] = b /\ job[b] = generation /\ keySource = "keycard"
      /\ pending'["upload"] = NoRequest /\ UNCHANGED <<origin, account, edits, called>>
  BY DEF OwnUpload, Fenced
<1>2. b \in called
  BY <1>1, Markers DEF Slots
<1>3. account.source # "none"
  BY <1>1 DEF Session
<1>. QED
  BY <1>1, <1>2, <1>3 DEF JobsOwnAccount

LEMMA NextRecordIsOld ==
    ASSUME BackupTypeOK, Slots, Session, Jobs, Queue, Routing, JobsOwnAccount, RecordIsOld, BackupNext
    PROVE  RecordIsOld'
<1>. DEFINE c == meta'.cid
<1>. SUFFICES ASSUME Orderly', c \in Backups
              PROVE  /\ account'.source # "none"
                     /\ c \in called' /\ origin'[c] \in Exports
                     /\ origin'[c].account = account'.id /\ origin'[c].edits <= edits'
                     /\ \A b \in Backups : (pending'["upload"] = b /\ job'[b] = generation')
                           => origin'[c].edits <= origin'[b].edits
  BY DEF RecordIsOld, Exports
<1>1. Orderly /\ (c = meta.cid \/ OwnUpload(c))
  BY OrderlyBefore, NewCids DEF RecordsGrow
<1>2. CASE OwnUpload(c)
  <2>1. /\ c \in called /\ account.source # "none" /\ pending'["upload"] = NoRequest
        /\ origin[c] \in Exports /\ origin[c].account = account.id /\ origin[c].edits <= edits
        /\ UNCHANGED <<origin, account, edits, called>>
    BY <1>2, OwnUploadIs
  <2>2. \A b \in Backups : pending'["upload"] # b
    BY <2>1, Markers
  <2>. HIDE DEF c
  <2>. QED
    BY <2>1, <2>2
<1>3. CASE c = meta.cid
  <2>1. /\ account.source # "none"
        /\ c \in called /\ origin[c] \in Exports
        /\ origin[c].account = account.id /\ origin[c].edits <= edits
        /\ \A b \in Backups : (pending["upload"] = b /\ job[b] = generation)
              => origin[c].edits <= origin[b].edits
    BY <1>1, <1>3 DEF RecordIsOld
  <2>2. ASSUME ResetAndWipe PROVE FALSE
    <3>1. meta'.cid \notin Backups
      BY <2>2, Markers DEF ResetAndWipe, NoMeta
    <3>. QED
      BY <3>1
  <2>. HIDE DEF c
  <2>3. account' = account /\ edits' \in {edits, edits + 1}
    BY <2>1, <2>2, AccountStays
  <2>4. c \in called' /\ origin'[c] = origin[c]
    BY <2>1, OriginsStay
  <2>5. origin'[c].edits <= edits'
    BY <2>1, <2>3, <2>4, EditsGrow
  <2>6. ASSUME NEW b \in Backups, pending'["upload"] = b, job'[b] = generation'
        PROVE  origin'[c].edits <= origin'[b].edits
    <3>1. CASE Starts(b) /\ UNCHANGED <<account, edits>>
      BY <2>1, <2>4, <3>1, NewExport
    <3>2. CASE job[b] = generation /\ b \in called /\ pending["upload"] = b
      BY <2>1, <2>4, <3>2, OriginsStay
    <3>. QED
      BY <2>6, <3>1, <3>2, CurrentJobs
  <2>. QED
    BY <2>1, <2>3, <2>4, <2>5, <2>6
<1>. QED
  BY <1>1, <1>2, <1>3

LEMMA NextQueueIsOwn ==
    ASSUME BackupTypeOK, Slots, Session, Jobs, Queue, Routing, JobsOwnAccount, QueueIsOwn, BackupNext
    PROVE  QueueIsOwn'
<1>. SUFFICES ASSUME Orderly', Stashes = {}, ~torn', NEW cid \in Queued'
              PROVE  /\ account'.source # "none"
                     /\ cid \in called' /\ origin'[cid].account = account'.id
  BY DEF QueueIsOwn
<1>1. Orderly /\ ~torn /\ (cid \in Queued \/ OwnUpload(cid))
  BY OrderlyBefore, NewCids, MetaType DEF RecordsGrow
<1>2. CASE OwnUpload(cid)
  BY <1>2, OwnUploadIs
<1>3. CASE cid \in Queued
  <2>1. account.source # "none" /\ cid \in called /\ origin[cid].account = account.id
    BY <1>1, <1>3 DEF QueueIsOwn
  <2>2. ASSUME ResetAndWipe PROVE FALSE
    <3>1. PICK ok \in Writes : queue' = (IF ok THEN NoQueue ELSE queue) /\ torn' = (torn \/ ~ok)
      BY <2>2 DEF ResetAndWipe
    <3>2. queue' = NoQueue
      BY <3>1
    <3>. QED
      BY <3>2 DEF Queued, NoQueue
  <2>3. account' = account
    BY <2>1, <2>2, AccountStays
  <2>4. cid \in Backups
    BY <2>1, ClientTypes
  <2>. QED
    BY <2>1, <2>3, <2>4, OriginsStay
<1>. QED
  BY <1>1, <1>2, <1>3
-----------------------------------------------------------------------------
(* The invariant and the theorems.                                           *)

LEMMA InitBackupInv == BackupInit => BackupInv
<1>. SUFFICES ASSUME BackupInit PROVE BackupInv
  OBVIOUS
<1>1. /\ alive = TRUE /\ connected \in BOOLEAN /\ subscribed = FALSE /\ timeoutOn = TRUE
      /\ pending = [k \in {"upload", "download"} |-> NoRequest]
      /\ timers = {} /\ working = {} /\ called = {}
      /\ replies = [b \in Backups |-> <<>>]
  BY RequestsAre, KindsAre DEF BackupInit, Client!ClientInit
<1>2. Client!TypeOK
  <2>1. replies \in [Backups -> Seq(Client!Replies)]
    BY <1>1, EmptySeq
  <2>. QED
    BY <1>1, <2>1, RequestsAre, KindsAre DEF Client!TypeOK
<1>3. OwnTypes
  <2>1. 0 \in 0..MaxAccounts /\ 0 \in 0..MaxRestarts
    BY Bounds, Counting
  <2>. QED
    BY <2>1, Counters DEF BackupInit, OwnTypes, NoAccount, Statuses
<1>4. RecordTypes
  BY DEF BackupInit, RecordTypes, NoMeta, NoQueue, Statuses
<1>5. BackupTypeOK
  BY <1>2, <1>3, <1>4, TypesSplit
<1>6. Slots
  BY <1>1 DEF Slots
<1>7. Session /\ Status
  BY DEF BackupInit, Session, DebounceOnlyInKeycard, Status, UploadingUnlessFenced, SyncedHasCid, NoMeta
<1>8. Jobs /\ JobsOwnAccount
  <2>1. generation = 0 /\ \A b \in Backups : job[b] = None
    BY DEF BackupInit
  <2>2. \A b \in Backups : pending["upload"] # b
    BY <1>1, Markers
  <2>3. None # 0
    BY Bounds
  <2>. QED
    BY <2>1, <2>2, <2>3 DEF Jobs, JobsOwnAccount
<1>9. Queue /\ QueueIsOwn
  <2>1. \A c \in Cids : queue[c] = 0
    BY DEF BackupInit, NoQueue
  <2>2. meta.cid = None
    BY DEF BackupInit, NoMeta
  <2>. QED
    BY <2>1, <2>2 DEF Queue, QueueIsSet, RecordedCidIsQueued, QueueIsOwn, Queued
<1>10. Routing
  <2>1. Client!OwnCid
    BY <1>1 DEF Client!OwnCid
  <2>. QED
    BY <1>1, <2>1 DEF Routing
<1>11. RecordIsOld
  <2>1. meta.cid \notin Backups
    BY Markers DEF BackupInit, NoMeta
  <2>. QED
    BY <2>1 DEF RecordIsOld
<1>. QED
  BY <1>5, <1>6, <1>7, <1>8, <1>9, <1>10, <1>11 DEF BackupInv

\* Nothing of the invariant is changed by a step that changes nothing.
LEMMA StutterBackupInv == BackupInv /\ UNCHANGED allVars => BackupInv'
<1>. SUFFICES ASSUME BackupInv, UNCHANGED allVars PROVE BackupInv'
  OBVIOUS
<1>1. /\ UNCHANGED <<alive, connected, subscribed, timeoutOn, pending, timers, working, called, replies>>
      /\ UNCHANGED <<keySource, generation, debounce, storageStatus, job, account, edits, meta, queue,
                     polling, saved, origin, inscribed, torn, restarts>>
  BY DEF allVars, clientVars, backupVars, sessionVars, recordVars, userVars
<1>2. Client!TypeOK'
  BY <1>1, ClientTypesSame DEF BackupInv
<1>3. BackupTypeOK' /\ Slots' /\ Session' /\ Jobs'
  BY <1>1, <1>2 DEF BackupInv, BackupTypeOK, Slots, Session, DebounceOnlyInKeycard, Jobs
<1>4. Status' /\ Queue'
  BY <1>1 DEF BackupInv, Status, UploadingUnlessFenced, SyncedHasCid, InFlight,
       Queue, QueueIsSet, RecordedCidIsQueued, Queued
<1>5. Routing' /\ JobsOwnAccount'
  BY <1>1, SameReplies DEF BackupInv, Routing, JobsOwnAccount
<1>6. RecordIsOld' /\ QueueIsOwn'
  BY <1>1, SameReplies DEF BackupInv, RecordIsOld, QueueIsOwn, Queued
<1>. QED
  BY <1>3, <1>4, <1>5, <1>6 DEF BackupInv

LEMMA NextBackupInv == BackupInv /\ [BackupNext]_allVars => BackupInv'
<1>1. ASSUME BackupInv, BackupNext PROVE BackupInv'
  BY <1>1, NextTypes, NextSlots, NextSession, NextJobs, NextStatus, NextQueue, NextRouting,
     NextJobsOwnAccount, NextRecordIsOld, NextQueueIsOwn DEF BackupInv
<1>. QED
  BY <1>1, StutterBackupInv

LEMMA BackupInvariance == BackupSpec => []BackupInv
BY InitBackupInv, NextBackupInv, PTL DEF BackupSpec
\* Every variable of NotesBackend and of the client keeps its type.
THEOREM BackupTypes == BackupSpec => []BackupTypeOK
BY BackupInvariance, PTL DEF BackupInv

\* The debounce timer runs in keycard sessions alone, whatever locks, wipes,
\* imports and unlocks come between.
THEOREM DebounceIsKeycards == BackupSpec => []DebounceOnlyInKeycard
<1>1. BackupInv => DebounceOnlyInKeycard
  BY DEF BackupInv, Session
<1>. QED
  BY <1>1, BackupInvariance, PTL

\* "uploading" is explained by an upload of the session or by an earlier one's.
THEOREM UploadingExplained == BackupSpec => []UploadingUnlessFenced
<1>1. BackupInv => UploadingUnlessFenced
  BY DEF BackupInv, Status
<1>. QED
  BY <1>1, BackupInvariance, PTL

\* "synced", in memory or on disk, comes with a recorded CID.
THEOREM SyncedMeansRecorded == BackupSpec => []SyncedHasCid
<1>1. BackupInv => SyncedHasCid
  BY DEF BackupInv, Status
<1>. QED
  BY <1>1, BackupInvariance, PTL

\* The recorded CID is queued or inscribed, unless a write failed or the process
\* died between the two.
THEOREM RecordedIsQueued == BackupSpec => []RecordedCidIsQueued
<1>1. BackupInv => RecordedCidIsQueued
  BY DEF BackupInv, Queue
<1>. QED
  BY <1>1, BackupInvariance, PTL

\* The queue holds a CID once.
THEOREM QueuedOnce == BackupSpec => []QueueIsSet
<1>1. BackupInv => QueueIsSet
  BY DEF BackupInv, Queue
<1>. QED
  BY <1>1, BackupInvariance, PTL

\* An upload of the auto-backup is handed its own CID until one times out.
THEOREM UploadsGetOwnCid == BackupSpec => []OwnCidUntilTimeout
<1>1. BackupInv => OwnCidUntilTimeout
  BY RequestsAre DEF BackupInv, Routing, Orderly, TimedOut, OwnCidUntilTimeout, Client!OwnCidUntilTimeout
<1>. QED
  BY <1>1, BackupInvariance, PTL

\* Where nothing but the auto-backup uploads, what is recorded and queued is of
\* the account in the database: the session fence keeps the CIDs of a wiped
\* account out, across any number of accounts, locks and restarts.
THEOREM FenceKeepsForeignCidsOut ==
    ASSUME Stashes = {}, ForeignTexts = {}, ~Repeats
    PROVE  BackupSpec => []NoForeignCidUntilTimeout
<1>1. BackupInv => NoForeignCidUntilTimeout
  <2>. SUFFICES ASSUME BackupInv, \A b \in Backups : ~TimedOut(b), ~torn,
                       NEW cid \in Queued \union {meta.cid}, cid # None
                PROVE  origin[cid].account = account.id
    BY DEF NoForeignCidUntilTimeout, NoForeignCid
  <2>1. Orderly
    BY DEF Orderly
  <2>2. CASE cid \in Queued
    BY <2>1, <2>2 DEF BackupInv, QueueIsOwn
  <2>3. CASE cid = meta.cid
    <3>1. cid \in Backups
      BY <2>3, MetaType DEF BackupInv, Cids
    <3>. QED
      BY <2>1, <2>3, <3>1 DEF BackupInv, RecordIsOld
  <2>. QED
    BY <2>2, <2>3
<1>. QED
  BY <1>1, BackupInvariance, PTL

\* The recorded backup of an account is never replaced by an older one.
THEOREM RecordedNeverOlder ==
    ASSUME ForeignTexts = {}, ~Repeats
    PROVE  BackupSpec => NeverOlderBackup
<1>. DEFINE Newer == (/\ account'.id = account.id /\ {meta.cid, meta'.cid} \subseteq Backups
                      /\ \A b \in Backups : ~TimedOut(b)')
                       => origin[meta'.cid].edits >= origin[meta.cid].edits
<1>1. ASSUME BackupInv, BackupNext
      PROVE  Newer
  <2>. SUFFICES ASSUME meta.cid \in Backups, meta'.cid \in Backups, \A b \in Backups : ~TimedOut(b)'
                PROVE  origin[meta'.cid].edits >= origin[meta.cid].edits
    OBVIOUS
  <2>1. Orderly'
    BY DEF Orderly
  <2>2. Orderly
    BY <1>1, <2>1, OrderlyBefore DEF BackupInv
  <2>3. meta'.cid = meta.cid \/ OwnUpload(meta'.cid)
    BY <1>1, <2>1, NewCids DEF BackupInv, RecordsGrow
  <2>4. /\ origin[meta.cid] \in Exports
        /\ \A b \in Backups : (pending["upload"] = b /\ job[b] = generation)
              => origin[meta.cid].edits <= origin[b].edits
    BY <1>1, <2>2 DEF BackupInv, RecordIsOld
  <2>5. origin[meta.cid].edits \in Nat
    BY <2>4, Bounds DEF Exports
  <2>6. CASE meta'.cid = meta.cid
    BY <2>5, <2>6
  <2>7. CASE OwnUpload(meta'.cid)
    <3>1. /\ pending["upload"] = meta'.cid /\ job[meta'.cid] = generation
          /\ origin[meta'.cid] \in Exports
      BY <1>1, <2>7, OwnUploadIs DEF BackupInv
    <3>2. origin[meta'.cid].edits \in Nat
      BY <3>1, Bounds DEF Exports
    <3>3. origin[meta.cid].edits <= origin[meta'.cid].edits
      BY <2>4, <3>1
    <3>. QED
      BY <2>5, <3>2, <3>3
  <2>. QED
    BY <2>3, <2>6, <2>7
<1>2. BackupInv /\ [BackupNext]_allVars => [Newer]_allVars
  BY <1>1
<1>. QED
  BY <1>2, BackupInvariance, PTL DEF BackupSpec, NeverOlderBackup
=============================================================================
