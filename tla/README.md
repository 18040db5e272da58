# A TLA+ model of Immutable Notes

Immutable Notes (logos-notes) keeps encrypted notes in SQLite, unlocks them with
a PIN or a keycard, uploads encrypted backups to Logos Storage and queues the
resulting CIDs for inscription on chain. This directory models the C++ core
(`src/core`) and the part of the UI that takes part in its protocols
(`plugins/notes_ui/qml/Main.qml`). Paths and line numbers refer to the repository.

## 1. The system

| Part | State | Operations | Talks to |
|---|---|---|---|
| `StorageClient` | one upload slot, one download slot, a timer each, the subscription | `uploadFile`, `downloadToFile`, events, time-outs, `setTimeoutMs`, destructor | a transport (calls), its caller (callbacks) |
| `LibStorageTransport`, `LogosStorageTransport` | the node, readiness, callback contexts, posted signals | start, upload init and file, download, events | the storage library (threads of its own), `StorageClient` |
| `NotesBackend`, auto-backup | `m_debounceTimer`, `m_storageStatus`, `m_sessionGeneration`, `m_keySource`; rows `backup_cid`, `backup_timestamp`, `storage_status` | `saveNote` arms, `doAutoBackup`, `triggerBackup`, the upload callback, `setBackupCid` | `StorageClient`, the database |
| Inscription queue | `notes-inscription-queue.json` | `enqueueCid`, `markInscribed` | the UI and the beacon module |
| PIN lockout | `m_failedAttempts`, `m_lockoutUntil` and two rows | `unlockWithPin`, the constructor | the clock, the database |
| Accounts | `wrapped_key`, rows salt, fingerprint, `key_source`, `initialized`; the master key; `m_currentScreen` | `importMnemonic`, `importWithKeycardKey` with `importBackup`, the unlocks, `lock`, `resetAndWipe` | `DatabaseManager`, `KeyManager`, `CryptoManager` |
| Notes | table `notes`, the backup file | create, load, save, delete, list, `migratePlaintextTitles`, `exportBackup`, `importBackup` | the same |
| `DatabaseManager` | the SQLite file, the schema | `init` with two migrations, single statements, `wipe` | |
| `NotesPlugin` | none | wraps the backend's calls, judges some by the screen; builds no `StorageClient`, so the automatic upload runs only where one is injected | `NotesBackend` |
| `notes_ui` | screen, editor, autosave timer, keycard poller, stash poll | user actions and timers | `NotesPlugin`, and the keycard, stash and beacon modules through `callModule` |

The core runs on the Qt main thread. What makes it hard is mostly not parallelism
but what happens *between* two handlers: an upload outlives the session that
started it, timers fire in a state their author did not think of, each statement
is a commit of its own so that a crash or a failing write separates things that
belong together, and the storage module's events name no request. Two places do
interleave: the storage library calls back on threads of its own, also with
progress and in the middle of a handler, and `logos.callModule` blocks the UI's
JavaScript in an event loop in which other handlers run to their end.

Correctness, per part:

- *StorageClient*: a callback runs exactly once; a request with a timer is
  answered; a timer belongs to the request in the slot; an upload is handed its own CID.
- *Auto-backup*: CIDs stay with their account; the status tells what happened to
  the upload of this session; the recorded backup is never older than before;
  what is recorded is queued.
- *PIN lockout*: guesses beyond the limit are spaced by the schedule, across
  restarts; nobody is locked out before the limit.
- *Accounts*: whatever fails or dies, the rows on disk, the key in memory and the
  screen belong together; a restore is whole or undone; notes are readable.
- *Note store*: whatever version, failure or crash it starts from, the schema heals
  and titles end encrypted; texts change only by the calls of a session; a backup
  that says ok is whole and gives back what was saved.
- *LibStorageTransport*: a callback context lives until its last callback; what is
  announced reaches the request it is about.
- *notes_ui*: what is typed in a note is stored in that note, and is stored at all;
  a card's key serves the screen it was asked for on.

## 2. Modules

| Module | What it is |
|---|---|
| `OneShotRequests` | abstract: what a caller of `StorageClient` is promised |
| `StorageClient` | the client over any storage module; implements `OneShotRequests` |
| `LibStorageTransport` | the node in the process, its calls and callbacks, composed with the client (`Client == INSTANCE StorageClient`); implements `StorageClient`'s specification |
| `AutoBackup` | the auto-backup, the queue and the UI's stash poll, composed with the client in the same way |
| `PinLockout` | `unlockWithPin`'s counter |
| `Account` | imports, restore, unlocks, lock, wipe, statement by statement |
| `Notebook` | abstract: the notes as their user knows them |
| `NoteStore` | schema, rows, titles, backup file and restore; implements `Notebook` |
| `NotesUI` | the editor with its timers, the screens and the keycard poll over the calls of the notes module |
| `StorageClient_proofs`, `PinLockout_proofs`, `Account_proofs`, `NoteStore_proofs`, `AutoBackup_proofs`, `LibStorageTransport_proofs`, `NotesUI_proofs` | theorems about the module of that name (section 4) |
| `MC*` | instances for TLC |

Definitions with a comment "Fault:" are wrong variants of the definition below
them. Nothing uses them; each shows, put in place of the right one, that a
property notices.

### How state and actions correspond to the code

**StorageClient.** `pending[k]` is `m_pendingUpload`/`m_pendingDownload`, `timers`
the requests whose `QTimer` runs. `Call` is `uploadFile` or `downloadToFile`
(`Verdict`: their early returns in order; `Take`: slot, timer, transport);
`Event` and `StrayEvent` are `onEventResponse`; `TimerFires`, `SetTimeoutMs`,
`Destroy` are the handlers of that name. A callback runs last in a handler, so
what it does is a step of its own or, in `AutoBackup`, part of the same step. The
module behind the client may lose a request, answer late, and (`Repeats`) announce
a completion twice; `ForeignTexts` are events of another consumer. `called` and
`replies` record history.

**LibStorageTransport.** `node` is `m_ctx`, `ready` is `m_ready`, `contexts` the
callback contexts on the heap, `posted` the queued invocations on their way to the
main thread. A call the library accepts is a member of `jobs`; it may never end,
which is a lost request. `CbStart`, `CbUploadInit`, `CbUploadFile` and
`CbDownloadStream` run on the library's threads, so also between the client's `Call`
and the transport's `UploadOrDownloadUrl` inside it (`entering`). `said` records the
callbacks the code mistakes for an end. Of the library two things are assumed: a call it
refuses does not call back as well, and a node that was destroyed never does.
Refused calls of the client and `setTimeoutMs` do not reach the transport and are
left to `StorageClient`.

**AutoBackup.** One action per method. `ClientAnswers` is a client step together
with `UploadCallback`, which the client runs inside its handler; `Upload` is
`uploadFile` with the callback of a refusal run before it returns. `Record` is the
success branch: three writes and the queue's, each of which may fail. `queue` counts
the entries each CID has in the file; their order is left out, since nothing reads
it. `origin` says which account and which edit a file holds. `StashCidArrives` is the timer
`logosCidPollTimer` calling `setBackupCid`. `Restart` includes `~NotesBackend`,
which destroys `m_storage` *after* `m_keySource` and `m_storageStatus` (members
are destroyed in reverse order), so the pending callback reads destroyed objects:
the model takes both outcomes of that read. `CrashWhileRecording` cuts the
callback between its writes.

**PinLockout.** `attempts`, `until` are the members; `diskAttempts`, `diskUntil`
their rows; `Delay` the schedule. `wrong` and `lastWrong` record what was really
tried. A constructor whose query for a row fails starts with "0" (`misread`). The
clock is the system's, in seconds, and only moves forward in the model.

**Account.** `import.step` is where an import is in its sequence of statements:
`WriteRow`, `OpenBackup`, `RestoreCreates`, `RestoreSaves`, `EndImport`. Nothing
else is enabled while an import runs (one thread), except its end by `Restart`. A key
stands for itself, for its fingerprint and for its salt; two mnemonic imports have
different keys since the salt is random; a card has one key. A read that fails is
answered with the default of `loadMeta` or `isInitialized`: no account, no fingerprint
to compare, the PIN's flow. A card's import has no PIN rows; `importMnemonic` never
writes `key_source`.

**NoteStore.** `columns` is the table's schema and `alter` what `init` is about to
add to it, one `ALTER TABLE` a step; `InitFails` is any early return of `init`,
whose result the constructor ignores. `StoreInit` is no database or one of either
older version. A row is the text, the encrypted title and the plain title of old
versions; `Unwritten` is the `X''` of a note never saved. The loop of
`migratePlaintextTitles` is one step a row, with the process dying between two.
Export and import are one action each, with an outcome for every statement in
them (`unread`, `listed`, `fate`): they run on the main thread without a pause, and
what a crash inside a restore leaves is in `Account`. All notes are under the
session's key here; whose key they are under is `Account`'s subject. Timestamps and
the order of the list are left out. `file.texts` is what the notes were when the file
was made.

**NotesUI.** A text is the note it was written in and a version. Every handler is
cut at each of its `callModule` calls: the called module does its part when it is
called, what the handler does with the answer is a step of its own (`SaveReturns`,
`LoadReturns`, `CreateReturns`, `NewListReturns`, `DeleteReturns`, `LeaveReturns`,
`RequestReturns`, `PollReturns`, `KeyReturns`, ...), and until then it is a frame of
`stack` with what it needs for the rest. Other handlers start above a frame and end
before it, since the event loop of a call is left in the order it was entered. So
`createNewNote` is up to five steps (save, create, list, save, load), `requestAuth`
is answered on whatever screen is shown by then, and a lock or a wipe changes the
screen after its answer. `latest` is what the user last wrote in each note;
`faults` counts calls that fail and handlers inside handlers; `askedOn` are the
screens a request was made and answered on. The poll for the card (1000 ms) starts
after the editor's timers (200 and 300 ms) have fired, since on the screens it runs on
nothing restarts them. This UI's accounts are keycard accounts, so PIN entry does not
occur, and there is one card (what another one opens is in `Account`). Left out:
list calls that fail (the list is then as it was), other handlers that block while
the editor is in use (stash, beacon, settings), and the shortcuts Ctrl+N and Ctrl+L
on another screen than the note screen.

## 3. What the runs show

| Run | Configuration | Shows |
|---|---|---|
| `client_safety` | 2 uploads, 2 downloads, repeated and foreign events | `ExactlyOnce`, `NoOrphanTimer`, `TimeoutIsOwn`, `KeepsPromise` (refinement) |
| `transport` | 2 of 2 uploads and a download, a progress callback, fair timers | `ContextsOwned`, `OwnCidUnlessProgress`, `ImplementsClient` (refinement), `TimedRequestsAnswered` (liveness) |
| `backup_sessions` | 3 uploads, 2 accounts, 2 locks or wipes | `DebounceOnlyInKeycard`, `OwnCidUntilTimeout`, `NoForeignCidUntilTimeout`, `UploadingUnlessFenced`, `NeverOlderBackup` |
| `backup_faults` | 2 uploads, 2 stashes, failing writes, one restart or crash | `SyncedHasCid`, `RecordedCidIsQueued`, `QueueIsSet` |
| `backup_live` | 2 uploads, a lock, a restart, fair timers | `StartedUploadReported` (liveness) |
| `backup_synced` | 2 uploads, one edit | *violated*: `SyncedIsCurrent` |
| `pin_lockout` | limit 3, schedule 1, 2, 4, clock to 8, 6 wrong PINs | `NoEarlyLockout`, `GuessesAreSpaced` |
| `account` | 2 mnemonic imports, 2 cards, backups of 2 notes, every statement may fail | `NotesReadable`, `NothingBehindImport`, `InitializedIsWhole`, `NoteScreenIsSession`, `RestoredWhole` |
| `note_store` | 2 notes, 2 words, a blank text, every statement may fail | `SchemaHeals`, `TitlesEncrypted`, `OkIsWhole`, `RestoreGivesBack`, `KeepsNotebook` (refinement) |
| `store_blank` | the same, nothing fails | *violated*: `SkippedIsUnreadable` |
| `notes_ui` | 2 notes, each empty or restored and written once, 2 accounts, 2 failing calls or nested handlers (1.6 million states) | `OwnTextUnlessMisplaced`, `EditsKept`, `KeyForItsScreen` |
| `ui_wipe` | the same, nothing fails or nests | *violated*: `OwnText` |

### What was found

Three disagreements have a run that shows them:

1. *"synced" without the last note* (`backup_synced`). The debounce (30 s) is
   shorter than an upload may take (120 s); the refused upload is not repeated and
   the status of the older one hides it.
2. *A note that decrypts to nothing stops the backups* (`store_blank`). `exportBackup`
   takes an empty text or title for one it could not decrypt: a note saved empty or of
   blank lines is in no backup, and as long as it is there the export is not "ok" and
   no automatic backup starts.
3. *The editor outlives a wipe* (`ui_wipe`). Text and note number stay; after an
   import that restores notes the next key stores the wiped account's text over a
   note of the new one.

The other weaknesses that turned up are behind the exemptions of a property that
holds otherwise; dropping the exemption makes TLC show them (the two about
downloads have no property: what it would promise, the code breaks in both ways):

- A late event completes the wrong upload: routing by event name is safe until a
  request times out, after which each upload can be handed its predecessor's CID
  (`OwnCidUntilTimeout`). A progress callback during the upload's init has the same
  effect, since it is announced as a failure (`OwnCidUnlessProgress`).
- "uploading" survives a lock: the fenced callback no longer ends the status, and
  "Back up now" is refused with nothing in flight (`UploadingUnlessFenced`).
- A CID of the wiped account: `setBackupCid` has no fence and a wipe does not stop the
  UI's poll (`NoForeignCid`, with stashes and a second account).
- A restore cut short by a crash is appended to by the next import (`torn` in
  `NotesReadable`).
- A read that fails passes for an answer: the import screen over an account that is
  there, or any card let in (`misread` in `NotesReadable` and `NothingBehindImport`).
- A migration cut between the two columns of a pair is never completed: the check
  looks at one of them only (`cut` in `SchemaHeals`).
- A list of notes that cannot be read makes an empty backup that is "ok" (`listed`
  in `OkIsWhole`).
- A download without a stream: `storage_download_stream` is called from a progress
  callback only (`LibStorageTransport.cpp:265`); a `RET_OK` of the init, after which the
  comment at `:269` promises the stream, is announced as the end of the download.
- An error as a success: a `RET_ERR` without a message is announced with an empty
  error (`:287`), which `StorageClient` takes for none.
- A start that cannot read the PIN counter or the lockout gives the attempts back,
  and the next wrong PIN writes the small counter over the rows (`misread` in
  `GuessesAreSpaced`).
- A start's context is freed twice if `storage_new` calls the callback it is given, a
  download's used after a progress callback (`ContextsOwned`).
- `selectNote` sets the note's id before its text is there: after a load that failed
  the old text stands under the new id; and a note that cannot be read is shown as an
  empty one that typing overwrites (`misplaced` in `OwnTextUnlessMisplaced`).
- A deletion leaves an edit less than 200 ms old in the editor, to be taken for the
  text of the next note (`misplaced`). A lock within that time loses the edit, because
  the answer of `saveNote` is not looked at (`refused` in `EditsKept`).
- What is typed while a save waits for its answer counts as saved (`interrupted`).
- A card's key is used on the screen that is shown when it arrives, if that changed
  while `requestAuth` or the poll waited (`Top.asked` and `Top.on` in
  `KeyForItsScreen`): "Back to import" while `requestAuth` of the unlock screen waits
  resets a request that is not there yet, the answer makes it pending on the import
  screen, and the key that was asked for to unlock makes an account. And whatever screen its
  answer finds, a successful import or unlock shows the note screen, also after a
  wipe.

### Exemptions

Some properties hold only outside situations that the code is known not to handle,
and say so with a history variable or a condition on one:

| Exemption | Meaning | Ends |
|---|---|---|
| `torn` (`Account`, `AutoBackup`) | a write failed, or a process died between two that belong together | with a wipe that makes the state whole |
| `kept` | the database file could not be removed | with a wipe that removes it |
| `misread` (`Account`) | a read failed, and an account was overlooked or a card or PIN taken for it that is not its own | with a wipe that removes the file |
| `misread` (`PinLockout`) | the last start could not read the counter or the lockout | with a start that can, or a wipe (a wrong PIN meanwhile makes it `torn`) |
| `carried` (`PinLockout`) | the counter still holds PINs of a wiped account | with a right PIN, or a restart that finds no counter on disk |
| `GivenUp`, `TimedOut` | an upload timed out | never |
| `failed` (`NoteStore`) | a statement of init or of the title migration failed | with the process |
| `cut` | one `ALTER` of a pair was done and not the other | with a wipe |
| `file.listed`, `file.unread` | the list, or a note, could not be read for the export | with the next export |
| `"progress" \in said[r]`, `"new" \in said[NoRequest]` | the library reported progress, or called back from `storage_new` | never |
| `Top.on`, `Top.asked` (`KeyForItsScreen`) | the screen changed while the poll, or `requestAuth`, waited | with the request |
| `refused`, `interrupted`, `misplaced` (`NotesUI`) | a save failed; someone typed while a handler waited that will replace the text or count it as saved; someone typed in a text that is not the note's, or an edit outlived its note | never |

Each is as narrow as the model allows, and what happens inside is listed above or
a hazard in `PROJECT.json`.

### Bounds

Counters that grow for ever in the code are capped in guards: `MaxEdits`,
`MaxAccounts`, `MaxLocks` (generations), `MaxRestarts`, `MaxClock`, `MaxWrong`,
`MaxRows`, `MaxArgs`, `MaxCalls`, `MaxProgress`, `MaxNotes`, `MaxRestored`,
`MaxVersion`, `MaxFaults`. Three uploads are what an off-by-one of the routing and a
busy refusal between two others need; two accounts and two generations what the
fence tells apart; a schedule of three with six wrong PINs runs past its end. In
`backup_faults` notes are not edited, since its properties relate records on
disk only, and in `backup_sessions` nothing fails or restarts, and stashes are left
out (see "A CID of the wiped account"). In `transport` two calls are one that is late
and one it could be taken for, and one progress callback is enough to free or to keep
a context wrongly. In `note_store` two notes are both those of an old version, or one
that is there and one restored; two words and a blank text tell texts, titles and
empty titles apart. In `notes_ui` two notes are the one that is left and the one
selected, an edit of a restored note is told from the note and from an edit of
the other, and two faults are a handler inside one whose call fails, or inside one
that is inside another. An export and restore are single steps elsewhere, so one
restored note is enough. Requests, cards, imports and words are interchangeable and declared
symmetric in the runs that check no liveness.

### Fairness

`backup_live` has `WF` of a client time-out with its callback (`FairBackupSpec`),
`transport` `WF` of the timers and of `UploadOrDownloadUrl`, which is the rest of a
call the main thread is in (`FairTransportSpec`). A single-shot `QTimer` that
has expired is delivered by the event loop. Nothing is assumed of the storage module
or library, of the user or of the network. `StartedUploadReported` lets a session end
first (lock, wipe, restart), since then nobody is told.

The runs `client_safety` and `transport` do not check for deadlock: after the
destructor there is nothing left to do. All others do.

## 4. What is proved

Every safety property of the passing runs, and both refinements besides the
client's, for every value of the constants: the bounds of section 3 are bounds of
the runs, and the theorems hold for any. Each module has one inductive invariant
(`...Inv`), also checked by TLC on the module's instance before it was proved, that
holds the properties and what they need to be preserved.

**`StorageClient_proofs`** (`ClientInv`), from `ClientAssumption`: the request sets
are disjoint, texts differ from each other.

- `TypeCorrect`, `AnsweredExactlyOnce`, `TimersAreOwn`, `TimeoutsAreOwn` (the time-out
  of a request takes its own timer away and no other):
  `ExactlyOnce` and `NoOrphanTimer` are inductive only together: that a timer fires for
  the request in the slot, not for its successor, is what makes the time-out's answer
  its first.
- `RoutingUntilTimeout`: `OwnCidUntilTimeout` needs that without time-outs every
  unfinished upload the module has is the one in the slot.
- `PromiseKept`: every step of the client is a step of `OneShotRequests` under
  `Progress` or a stutter.

**`LibStorageTransport_proofs`** (`TransportInv`), from `TransportAssumption`: the
same of the requests, and the markers are none of them.

- `TransportTypesHold`, `ContextsAreOwned`, `UploadsGetOwnCid`.
  What carries them is `OneAtATime`: a request is about to enter the library, or has
  one call under way there, or one signal queued for the main thread, and never two
  of these unless the library reported progress; hence nobody else frees a call's
  context and nobody else's signal meets the slot (`UploadRouting`,
  `DownloadRouting`: what is being worked on is in the slot of its kind).
- `TransportImplementsClient`: each step of the composition is a step of
  `ClientSpec`, with repeated announcements, or a stutter.
- `AnsweredOnceOverTransport` puts the two together: what is proved of `ClientSpec`
  (`INSTANCE StorageClient_proofs`) is true over this transport.

**`AutoBackup_proofs`** (`BackupInv`), from `BackupAssumption`: uploads, stashes and
foreign texts are different files, and the markers none of them.

- `BackupTypes`, `DebounceIsKeycards`, `UploadingExplained`, `SyncedMeansRecorded`,
  `RecordedIsQueued`, `QueuedOnce`, `UploadsGetOwnCid`.
- `FenceKeepsForeignCidsOut` and `RecordedNeverOlder` are about an auto-backup that
  is alone with the storage module: no other consumer (`ForeignTexts = {}`), no
  completion announced twice (`~Repeats`), and for the first no stashes. These are
  hypotheses of the theorems, as they are values in `backup_sessions`; section 3 says
  what happens otherwise.
- The argument: a callback whose captured generation is the current one was made in
  the keycard session that goes on (`Jobs`), so from the account in the database and
  not from a later state of it (`JobsOwnAccount`). While the order of events is
  undisturbed the module works on the upload in the slot alone (`Routing`), so the CID
  that is recorded is that upload's; and what is recorded was exported before what is
  in the slot (`RecordIsOld`).

**`Account_proofs`** (`AccountInv`), from `AccountAssumption`: cards and mnemonic
imports have different keys, and `None` is neither a key nor "keycard".

- `AccountTypes`, `AllNotesReadable`, `NothingIsBehindImport`,
  `InitializedAccountIsWhole`, `NoteScreenNeedsSession`, `EveryNoteRestored`, for
  backups of any size and any number of failed statements and crashes.
- An import is many steps, and the properties are about its end. The invariant
  says for every step which rows it has written with its own key (`RowsWritten`),
  how far its restore has come and which notes that accounts for (`RestoreSoFar`), and
  that an import started from nothing and leaves one account (`OneAccount`, outside
  the exemptions).

**`NoteStore_proofs`** (`StoreInv`), from `StoreAssumption`: words, blank texts and
the empty text differ, and there is room for the two notes that a database of an
old version has in `StoreInit` (`MaxNotes` is 2 or more).

- `StoreTypes`, `SchemaAlwaysHeals`, `NoPlainTitle`, `OkBackupIsWhole`. The invariant
  follows `init` through its phases: each pair of columns is whole or missing but for
  the one being added (`Paired`), and what comes before a phase is there (`Progress`). A
  title is plain only in a row without an encrypted one, and is then on the list of the
  migration under way (`PlainTitles`).
- `StoreKeepsNotebook`: every step is a step of `Notebook` or a stutter.
- `RestoreGivesAllBack`: the new rows are counted through a bijection of the
  backup's entries and the numbers they get (cardinalities from `FiniteSetTheorems`).

**`NotesUI_proofs`** (`UiInv`), from `UiAssumption`: the bounds are numbers, and a
restore brings no more notes than an account may have.

- `UiTypes`, `TextsStayOwn`, `EditsAreKept`, `KeysForTheirScreen`, for any depth of
  handlers inside handlers.
- `EditsKept` is inductive only with what an edit is (`Edits`: the text in the
  editor is newer than the loaded one and the latest of the active note, so that a
  save stores it under the right note) and with the handlers below (`Kept`: while one
  waits that will replace the text or count it as saved, everything is stored).
- `KeyForItsScreen` follows from `Polls`: a pending request whose answer found the
  screen it was made on is of the screen that is shown, or a note screen is shown,
  where no key is used; each poll that waits took that with it. `Stack` bounds the
  stack by the handlers that ran inside others and says that one poll waits at most.

**`PinLockout_proofs`** (`LockoutInv`), from `LockoutAssumption`: a positive limit, a
non-empty growing schedule.

- `NobodyLockedOutEarly`, `GuessesSpaced`. The invariant says what the two copies of
  counter and lockout have to do with the PINs really tried: the counter is never
  behind, on disk and (unless the last start could not read it) in memory, and from
  the limit on the lockout, if it is still remembered, ends when the last wrong PIN's
  wait does, and if it is forgotten that time has passed. A failed read disturbs the
  memory only, so a later start that can read the rows restores the claim. `Delay`
  grows (`DelayMonotone`), so a counter that includes PINs of
  a wiped account only makes the wait longer.

Only model-checked: the two liveness properties, `TimedRequestsAnswered` and
`StartedUploadReported`, because fairness is about `ENABLED`, which is out of the
prover's reach; and the three violations, which need only their counterexample.

## 5. Plan

1. The replies of `NotesPlugin` to calls judged by the screen, in `Account`.
2. The inscription queue's consumer in the UI: stash log and beacon confirmation.
3. `Mnemonic`: the BIP39 checksum against its definition on short lists.
4. `NotesUI`: the two shortcuts on the other screens (a lock or a new note over no
   session), list calls that fail, and the stash handlers among those that wait.
5. Proofs: what is proved of `ClientSpec`, carried over to the client inside
   `AutoBackup` between two restarts.

## 6. Not modelled

Encryption and key derivation (`CryptoManager`; taken as ideal), memory hygiene
(`SecureBuffer`), the word list, the stateless adapter `LogosStorageTransport`, the
JSON texts of `NotesPlugin`, the standalone app's screens and `main.cpp` (the same
backend calls), packaging, the Phase 0 calls of `DatabaseManager` for a single note
(`DatabaseManager.cpp:131-155`). Of `notes_ui` the stash log, the beacon confirmation and
the settings page; of `Account` the refusals of invalid input and their messages; of `NoteStore`
timestamps and the order of the list. The parts of the plan above are not modelled yet.
