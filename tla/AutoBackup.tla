----------------------------- MODULE AutoBackup -----------------------------
(* The auto-backup of NotesBackend (src/core/NotesBackend.cpp, issue #72) and *)
(* the queue of CIDs waiting to be inscribed (issue #104), composed with      *)
(* StorageClient: NotesBackend starts uploads, and the callback it passes     *)
(* runs inside the client's event and timeout handlers.                       *)
(*                                                                            *)
(* In memory: the session (m_keySource, m_sessionGeneration), the debounce    *)
(* timer and m_storageStatus.  On disk, surviving a restart: the account, its *)
(* notes, the meta rows backup_cid and storage_status, and the queue file.    *)
(* One thread runs it all, so a method is one action; a crash may also cut    *)
(* the callback short between its writes.                                     *)
EXTENDS Naturals, Sequences

CONSTANTS
    Backups,                    \* files exported for an upload; each is its own CID
    Stashes,                    \* files handed to the Stash module by the UI; likewise
    MaxEdits, MaxAccounts,      \* bounds: changes of the notes, accounts made,
    MaxLocks, MaxRestarts,      \* lock() and wipe calls, process restarts
    WritesFail,                 \* may a SQLite write or the queue file's save fail?
    ForeignTexts, MaxArgs, Repeats,                 \* see StorageClient
    NoRequest, Empty, ErrorText,
    None

Cids == Backups \union Stashes \union ForeignTexts

ASSUME BackupAssumption ==
    /\ {MaxEdits, MaxAccounts, MaxLocks, MaxRestarts, MaxArgs} \subseteq Nat
    /\ {WritesFail, Repeats} \subseteq BOOLEAN
    /\ {NoRequest, Empty, ErrorText, None} \intersect Cids = {}
    /\ Empty # ErrorText /\ None \notin Nat
    /\ Backups \intersect Stashes = {}
    /\ ForeignTexts \intersect (Backups \union Stashes) = {}

VARIABLES
    \* StorageClient and the storage module behind it
    alive, connected, subscribed, timeoutOn, pending, timers, working, called, replies,
    \* NotesBackend, in memory
    keySource,      \* m_keySource: "none", "mnemonic", "keycard"
    generation,     \* m_sessionGeneration
    debounce,       \* m_debounceTimer is running
    storageStatus,  \* m_storageStatus
    job,            \* the generation captured by each upload's callback
    \* on disk
    account,        \* [id, source] of the account in the database
    edits,          \* how often the account's notes changed
    meta,           \* [cid, status]: meta rows backup_cid and storage_status
    queue,          \* notes-inscription-queue.json: the entries of each CID
    \* the UI's stash poll (logosCidPollTimer in plugins/notes_ui/qml/Main.qml)
    polling,
    \* history
    saved,          \* the account's edits at its last saveNote
    origin,         \* what each exported file holds: the account and its edits
    inscribed,      \* CIDs that were taken off the queue
    torn,           \* a write failed, or a crash separated two writes
    restarts

clientVars == <<alive, connected, subscribed, timeoutOn, pending, timers,
                working, called, replies>>
sessionVars == <<keySource, generation, debounce>>
recordVars == <<meta, queue, torn>>
userVars == <<account, edits, saved, polling, inscribed, restarts>>
backupVars == <<sessionVars, storageStatus, job, recordVars, userVars, origin>>
allVars == <<clientVars, backupVars>>

Client == INSTANCE StorageClient WITH Uploads <- Backups, Downloads <- {}

Sources == {"mnemonic", "keycard"}
Statuses == {"", "unavailable", "uploading", "synced", "failed"}
NoAccount == [id |-> 0, source |-> "none"]
NoMeta == [cid |-> None, status |-> ""]
NoQueue == [c \in Cids |-> 0]

\* Outcomes of a write.
Writes == IF WritesFail THEN BOOLEAN ELSE {TRUE}

BackupInit ==
    /\ Client!ClientInit
    /\ keySource = "none" /\ generation = 0 /\ debounce = FALSE
    /\ storageStatus = ""
    /\ job = [b \in Backups |-> None]
    /\ account = NoAccount /\ edits = 0 /\ saved = 0
    /\ meta = NoMeta /\ queue = NoQueue
    /\ polling = None
    /\ origin = [c \in Cids |-> None]
    /\ inscribed = {} /\ torn = FALSE /\ restarts = 0

-----------------------------------------------------------------------------
\* Fault: the queue is not searched for the CID.
EnqueuedAgain(q, cid) == [q EXCEPT ![cid] = @ + 1]

\* enqueueCid: an entry is added unless the CID is empty or has one; nothing
\* happens when the queue file cannot be read or saved.
Enqueued(q, cid) == IF cid = Empty \/ q[cid] > 0 THEN q ELSE [q EXCEPT ![cid] = @ + 1]

\* saveMeta("storage_status", ...): a failure is only logged.
PersistStatus(status) ==
    \E ok \in Writes :
        /\ meta' = IF ok THEN [meta EXCEPT !.status = status] ELSE meta
        /\ torn' = (torn \/ ~ok)

\* Fault: the status does not depend on the writes.
RecordSyncedAnyway(cid) ==
    \E cidOk, tsOk, queueOk, statusOk \in Writes :
        /\ storageStatus' = "synced"
        /\ meta' = [cid    |-> IF cidOk THEN cid ELSE meta.cid,
                    status |-> IF statusOk THEN "synced" ELSE meta.status]
        /\ queue' = IF cidOk /\ tsOk /\ queueOk THEN Enqueued(queue, cid) ELSE queue
        /\ torn' = (torn \/ ~(cidOk /\ tsOk /\ queueOk /\ statusOk))

\* Fault: the CID is recorded and not enqueued.
RecordUnqueued(cid) ==
    \E cidOk, tsOk, statusOk \in Writes :
        LET status == IF cidOk /\ tsOk THEN "synced" ELSE "failed"
        IN /\ storageStatus' = status
           /\ meta' = [cid    |-> IF cidOk THEN cid ELSE meta.cid,
                       status |-> IF statusOk THEN status ELSE meta.status]
           /\ torn' = (torn \/ ~(cidOk /\ tsOk /\ statusOk))
           /\ UNCHANGED queue

\* The upload callback in doAutoBackup.  cidOk, tsOk, queueOk: the writes of
\* backup_cid, of backup_timestamp and of the queue file.
Record(cid) ==
    \E cidOk, tsOk, queueOk, statusOk \in Writes :
        LET status == IF cidOk /\ tsOk THEN "synced" ELSE "failed"
        IN /\ storageStatus' = status
           /\ meta' = [cid    |-> IF cidOk THEN cid ELSE meta.cid,
                       status |-> IF statusOk THEN status ELSE meta.status]
           /\ queue' = IF cidOk /\ tsOk /\ queueOk THEN Enqueued(queue, cid) ELSE queue
           /\ torn' = (torn \/ ~(cidOk /\ tsOk /\ queueOk /\ statusOk))

\* Fault: any keycard session will do.
FencedByKeySource(b) == keySource # "keycard"

Fenced(b) == generation # job[b] \/ keySource # "keycard"

\* Fault: an upload without a CID counts as done.
UploadCallbackEmptyCid(b, reply) ==
    \/ /\ Fenced(b)
       /\ UNCHANGED <<storageStatus, recordVars>>
    \/ /\ ~Fenced(b)
       /\ reply.why = "done"
       /\ Record(reply.text)
    \/ /\ ~Fenced(b)
       /\ reply.why # "done"
       /\ storageStatus' = "failed"
       /\ PersistStatus("failed")
       /\ UNCHANGED queue

\* Fault: an upload that failed is not reported.
UploadCallbackNoError(b, reply) ==
    \/ /\ Fenced(b) \/ ~(reply.why = "done" /\ reply.text # Empty)
       /\ UNCHANGED <<storageStatus, recordVars>>
    \/ /\ ~Fenced(b)
       /\ reply.why = "done" /\ reply.text # Empty
       /\ Record(reply.text)

UploadCallback(b, reply) ==
    \/ /\ Fenced(b)
       /\ UNCHANGED <<storageStatus, recordVars>>
    \/ /\ ~Fenced(b)
       /\ reply.why = "done" /\ reply.text # Empty
       /\ Record(reply.text)
    \/ /\ ~Fenced(b)
       /\ ~(reply.why = "done" /\ reply.text # Empty)
       /\ storageStatus' = "failed"
       /\ PersistStatus("failed")
       /\ UNCHANGED queue

-----------------------------------------------------------------------------
\* The upload of file b: uploadFile refuses it or takes it; a refusal runs the
\* callback before uploadFile returns, after the status was set to "uploading".
Upload(b) ==
    /\ Client!Call(b, TRUE)
    /\ job' = [job EXCEPT ![b] = generation]
    /\ origin' = [origin EXCEPT ![b] = [account |-> account.id, edits |-> edits]]
    /\ IF Client!Verdict(b, TRUE) = "taken"
       THEN storageStatus' = "uploading" /\ UNCHANGED recordVars
       ELSE /\ storageStatus' = "failed"
            /\ PersistStatus("failed")
            /\ UNCHANGED queue

\* doAutoBackup.  The export fails when a note cannot be read or is empty
\* (exportBackup reports ok = false), or the file cannot be written.
DoAutoBackup ==
    \/ /\ ~connected
       /\ storageStatus' = "unavailable"
       /\ UNCHANGED <<clientVars, job, origin, recordVars>>
    \/ /\ connected
       /\ storageStatus' = "failed"
       /\ PersistStatus("failed")
       /\ UNCHANGED <<clientVars, job, origin, queue>>
    \/ /\ connected /\ keySource # "none"
       /\ \E b \in Backups : Upload(b)

\* The debounce timer is single-shot.
DebounceFires ==
    /\ debounce
    /\ debounce' = FALSE
    /\ DoAutoBackup
    /\ UNCHANGED <<keySource, generation, userVars>>

\* triggerBackup ("Back up now") in a keycard session; while the status says
\* "uploading" it only returns an error.
TriggerBackup ==
    /\ keySource = "keycard"
    /\ storageStatus # "uploading"
    /\ debounce' = FALSE
    /\ DoAutoBackup
    /\ UNCHANGED <<keySource, generation, userVars>>

\* An event or a timeout of the client, with the callback it runs.
ClientAnswers ==
    /\ Client!Events \/ Client!StrayEvents \/ Client!Timeouts
    /\ LET answered == {b \in Backups : replies'[b] # replies[b]}
       IN IF answered = {} THEN UNCHANGED <<storageStatus, recordVars>>
          ELSE \E b \in answered : UploadCallback(b, replies'[b][Len(replies'[b])])
    /\ UNCHANGED <<sessionVars, job, userVars, origin>>

\* The storage module loses an upload, or comes and goes.
ModuleChanges ==
    /\ Client!Losses \/ Client!ConnectionChanges
    /\ UNCHANGED <<sessionVars, storageStatus, job, recordVars, userVars, origin>>

-----------------------------------------------------------------------------
\* importMnemonic and importWithKeycardKey, when they succeed: a new account
\* and its session.  They touch neither the status nor the generation.
Import(source) ==
    /\ account.source = "none" /\ account.id < MaxAccounts
    /\ account' = [id |-> account.id + 1, source |-> source]
    /\ keySource' = source
    /\ edits' = 0 /\ saved' = 0
    /\ UNCHANGED <<clientVars, generation, debounce, storageStatus, job, recordVars,
                   polling, inscribed, restarts, origin>>

\* unlockWithPin, unlockWithKeycardKey, when they succeed.
Unlock ==
    /\ account.source # "none" /\ keySource = "none"
    /\ keySource' = account.source
    /\ UNCHANGED <<clientVars, generation, debounce, storageStatus, job, recordVars,
                   userVars, origin>>

\* saveNote: (re)starts the debounce timer in a keycard session.
SaveNote ==
    /\ keySource # "none" /\ edits < MaxEdits
    /\ edits' = edits + 1 /\ saved' = edits + 1
    /\ debounce' = (debounce \/ keySource = "keycard")
    /\ UNCHANGED <<clientVars, keySource, generation, storageStatus, job, recordVars,
                   account, polling, inscribed, restarts, origin>>

\* createNote, deleteNote: change the notes without starting the timer.
CreateOrDeleteNote ==
    /\ keySource # "none" /\ edits < MaxEdits
    /\ edits' = edits + 1
    /\ UNCHANGED <<clientVars, sessionVars, storageStatus, job, recordVars,
                   account, saved, polling, inscribed, restarts, origin>>

\* Fault: the debounce timer goes on.
LockTimerLeft ==
    /\ keySource # "none" /\ generation < MaxLocks
    /\ keySource' = "none" /\ generation' = generation + 1
    /\ UNCHANGED <<clientVars, debounce, storageStatus, job, recordVars, userVars, origin>>

\* lock: the status is left as it is.
Lock ==
    /\ keySource # "none" /\ generation < MaxLocks
    /\ keySource' = "none" /\ generation' = generation + 1 /\ debounce' = FALSE
    /\ UNCHANGED <<clientVars, storageStatus, job, recordVars, userVars, origin>>

\* resetAndWipe: database and queue file are removed (a failure to remove the
\* queue is only logged).
ResetAndWipe ==
    /\ account.source # "none" /\ generation < MaxLocks
    /\ keySource' = "none" /\ generation' = generation + 1 /\ debounce' = FALSE
    /\ storageStatus' = ""
    /\ account' = [account EXCEPT !.source = "none"] /\ edits' = 0 /\ saved' = 0
    /\ meta' = NoMeta
    /\ \E ok \in Writes :
         /\ queue' = IF ok THEN NoQueue ELSE queue
         /\ torn' = (torn \/ ~ok)
    /\ UNCHANGED <<clientVars, job, polling, inscribed, restarts, origin>>

-----------------------------------------------------------------------------
\* doStashBackup (Main.qml): exports the notes, hands the file to Stash and
\* polls for its CID.  A new stash takes the place of the one polled for.
StartStash(s) ==
    /\ keySource # "none" /\ origin[s] = None
    /\ origin' = [origin EXCEPT ![s] = [account |-> account.id, edits |-> edits]]
    /\ polling' = s
    /\ UNCHANGED <<clientVars, sessionVars, storageStatus, job, recordVars,
                   account, edits, saved, inscribed, restarts>>

\* The poll takes the latest CID of Stash for its own when the file names agree;
\* a name is the account and the minute, so it may be that of an earlier stash.
SameName(s) == {t \in Stashes : origin[t] # None /\ origin[t].account = origin[s].account}

\* The poll finds a CID and calls setBackupCid, whatever became of the session
\* and the account meanwhile.  When the database refuses a write the CID is not
\* enqueued.
StashCidArrives ==
    /\ polling # None
    /\ polling' = None
    /\ \E cid \in SameName(polling) : \E cidOk, tsOk, queueOk \in Writes :
         /\ meta' = IF cidOk THEN [meta EXCEPT !.cid = cid] ELSE meta
         /\ queue' = IF cidOk /\ tsOk /\ queueOk THEN Enqueued(queue, cid) ELSE queue
         /\ torn' = (torn \/ ~(cidOk /\ tsOk /\ queueOk))
    /\ UNCHANGED <<clientVars, sessionVars, storageStatus, job, account, edits, saved,
                   inscribed, restarts, origin>>

\* markInscribed: the beacon module has put the CID on chain.
MarkInscribed(cid) ==
    /\ queue[cid] > 0
    /\ queue' = [queue EXCEPT ![cid] = 0]
    /\ inscribed' = inscribed \union {cid}
    /\ UNCHANGED <<clientVars, sessionVars, storageStatus, job, meta, torn,
                   account, edits, saved, polling, restarts, origin>>

-----------------------------------------------------------------------------
\* A new process: NotesBackend's constructor reads the status from the
\* database; the client and the storage node in it are new, callbacks are gone.
NewProcess(status) ==
    /\ restarts < MaxRestarts
    /\ restarts' = restarts + 1
    /\ keySource' = "none" /\ generation' = 0 /\ debounce' = FALSE
    /\ storageStatus' = status
    /\ job' = [b \in Backups |-> None]
    /\ polling' = None
    /\ subscribed' = FALSE /\ pending' = [k \in Client!Kinds |-> NoRequest]
    /\ timers' = {} /\ working' = {}
    /\ UNCHANGED <<alive, connected, timeoutOn, called, account, edits, saved, inscribed, origin>>

\* The process ends, killed or by ~NotesBackend.  The destructor runs the
\* pending upload's callback after m_keySource and m_storageStatus are
\* destroyed: it may find the session unfenced and write "failed", or not.
Restart ==
    \E status \in {meta.status} \union (IF pending["upload"] # NoRequest THEN {"failed"} ELSE {}) :
        /\ NewProcess(status)
        /\ meta' = [meta EXCEPT !.status = status]
        /\ UNCHANGED <<queue, torn, replies>>

\* The process dies while the callback records a CID: backup_cid is written,
\* the queue perhaps, the status not.
CrashWhileRecording ==
    /\ pending["upload"] # NoRequest /\ ~Fenced(pending["upload"])
    /\ \E cid \in working :
         /\ meta' = [meta EXCEPT !.cid = cid]
         /\ queue' \in {queue, Enqueued(queue, cid)}
    /\ torn' = TRUE
    /\ NewProcess(meta.status)
    /\ UNCHANGED replies

-----------------------------------------------------------------------------
BackupNext ==
    \/ \E source \in Sources : Import(source)
    \/ Unlock
    \/ SaveNote
    \/ CreateOrDeleteNote
    \/ Lock
    \/ ResetAndWipe
    \/ DebounceFires
    \/ TriggerBackup
    \/ ClientAnswers
    \/ ModuleChanges
    \/ \E s \in Stashes : StartStash(s)
    \/ StashCidArrives
    \/ \E cid \in Cids : MarkInscribed(cid)
    \/ Restart
    \/ CrashWhileRecording

BackupSpec == BackupInit /\ [][BackupNext]_allVars

\* The event loop delivers expired timers.
FairBackupSpec == BackupSpec /\ WF_allVars(Client!Timeouts /\ ClientAnswers)

-----------------------------------------------------------------------------
BackupTypeOK ==
    /\ Client!TypeOK
    /\ keySource \in Sources \union {"none"}
    /\ generation \in 0..MaxLocks
    /\ debounce \in BOOLEAN
    /\ storageStatus \in Statuses
    /\ job \in [Backups -> (0..MaxLocks) \union {None}]
    /\ account \in [id : 0..MaxAccounts, source : Sources \union {"none"}]
    /\ edits \in 0..MaxEdits /\ saved \in 0..MaxEdits
    /\ meta \in [cid : Cids \union {None}, status : Statuses]
    /\ queue \in [Cids -> Nat]
    /\ polling \in Stashes \union {None}
    /\ origin \in [Cids -> [account : 0..MaxAccounts, edits : 0..MaxEdits] \union {None}]
    /\ inscribed \in SUBSET Cids
    /\ torn \in BOOLEAN
    /\ restarts \in 0..MaxRestarts

\* The CIDs in the queue.
Queued == {cid \in Cids : queue[cid] > 0}

InFlight(b) == pending["upload"] = b /\ job[b] # None
TimedOut(b) == Client!GivenUp(b)

\* The comment at the timer: "only fires in keycard sessions" (NotesBackend's
\* constructor).  No sequence of locks, wipes, imports and unlocks leaves the
\* timer running outside one.
DebounceOnlyInKeycard == debounce => keySource = "keycard"

\* resetAndWipe: "Clear inscription queue so stale CIDs don't leak to the next
\* identity".  The recorded CID and the queued ones are of the account in the
\* database.
NoForeignCid ==
    \A cid \in Queued \union {meta.cid} :
        cid # None => origin[cid].account = account.id

\* The storage client hands this component's uploads their own CIDs as well
\* (StorageClient.h: the restriction to one upload "makes the FIFO-by-event-name
\* completion routing safe"), until one has timed out.
OwnCidUntilTimeout == Client!OwnCidUntilTimeout

\* The session fence does keep the auto-backup's CIDs apart as long as no
\* upload has timed out and the queue file could be removed.
NoForeignCidUntilTimeout ==
    ((\A b \in Backups : ~TimedOut(b)) /\ ~torn) => NoForeignCid

\* triggerBackup says "Upload already in progress" while the status is
\* "uploading".  That is an upload of the current session in the slot, or left
\* over from an earlier one: lock() leaves the status, and the session fence
\* discards the callback that would end it.
UploadingUnlessFenced ==
    storageStatus = "uploading" =>
        \/ \E b \in Backups : InFlight(b) /\ job[b] = generation
        \/ generation > 0 /\ \A b \in Backups : job[b] # generation

\* Auto-backup on save (docs/plans/v2-storage-autobackup.md): when a keycard
\* session shows "synced" with nothing armed and nothing in flight, the backup
\* it recorded holds the last saved note.
SyncedIsCurrent ==
    (/\ keySource = "keycard" /\ storageStatus = "synced" /\ ~debounce
     /\ \A b \in Backups : ~InFlight(b))
        => meta.cid # None /\ origin[meta.cid].edits >= saved

\* Only what was uploaded is ever "synced": a status of "synced", also one read
\* back after a restart, comes with a recorded CID.
SyncedHasCid ==
    "synced" \in {storageStatus, meta.status} => meta.cid # None

\* Every recorded CID is on its way to the chain (enqueueCid after saveMeta),
\* unless a write failed or the process died between the two.
RecordedCidIsQueued ==
    (~torn /\ meta.cid # None) => meta.cid \in Queued \union inscribed

\* A CID waits in the queue once, however often it is recorded, by an upload's
\* callback, by setBackupCid with the CID of an earlier stash or again after it
\* was inscribed (enqueueCid: "Idempotent"; the queue is an array, which a
\* second entry would grow).
QueueIsSet == \A cid \in Cids : queue[cid] \in {0, 1}

\* The recorded backup of an account never goes back to an older one, as long
\* as no upload has timed out.
NeverOlderBackup ==
    [][(/\ account'.id = account.id /\ {meta.cid, meta'.cid} \subseteq Backups
        /\ \A b \in Backups : ~TimedOut(b)')
          => origin[meta'.cid].edits >= origin[meta.cid].edits]_allVars

\* The status an upload started with does not last: it is over at some time,
\* and then, unless its session was fenced off or its process ended, the status
\* says "synced" or "failed".
StartedUploadReported ==
    \A b \in Backups :
        (InFlight(b) /\ ~Fenced(b)) ~>
            (\/ ~InFlight(b) /\ storageStatus \in {"synced", "failed"}
             \/ job[b] = None
             \/ Fenced(b))
==============================================================================
