# A formal model of sigong-data

This directory holds TLA+ models of the construction-record service in
`src/apps/sigong-upload` and of the SharePoint library in
`src/packages/sharepoint-core`: technicians submit photos and videos of a
finished job through a web form, the server stages them on disk, a background
worker files them into a SharePoint document library, and administrators
configure, retry and inspect. TLC checks the models on small instances; TLAPS
proves their safety properties for every value of the constants.

1. [What is here](#1-what-is-here)
2. [Inventory of the system](#2-inventory-of-the-system)
3. [SubmissionPipeline](#3-submissionpipeline)
4. [LibrarySync](#4-librarysync)
5. [The server's smaller parts](#5-the-servers-smaller-parts)
6. [The screens](#6-the-screens)
7. [The runs](#7-the-runs)
8. [What is proved](#8-what-is-proved)
9. [Disagreements between code and text](#9-disagreements-between-code-and-text)
10. [Not modelled, and the plan](#10-not-modelled-and-the-plan)

## 1. What is here

| File | What it is |
| --- | --- |
| `SubmissionPipeline` | one submission's life: intake, worker, retries, restart, manual retry, with the library as the pipeline sees it |
| `FilingPromise` | what the pipeline promises a technician: the abstract specification it implements |
| `LibrarySync` | `SharePointService.syncSubmission` among several submissions of one building and day |
| `Common` | "no value" and the budget of rare events, for all modules below |
| `GraphTransport`, `UploadPromise` | the Graph client's calls with their retries, and what an upload promises its caller |
| `FileNaming`, `SiteNumbers`, `ManualUploads` | names of files, numbers of submissions, the pass over files put into the library by hand |
| `WorkOrders`, `OrderSheet`, `OrderReview` | the order book and its writers, how a sheet is read, the review of an order file |
| `AdminAccounts`, `LinkedAccounts`, `Roster` | the users' accounts, the accounts the server acts with, the technicians' roster |
| `Settings`, `IssueLog` | settings in memory and in the repository, the issue log over either record store |
| `AppShell`, `SubmissionForm`, `AdminTables`, `SettingsScreen`, `TypeEditors`, `RecordLists`, `DateRange`, `Calendar` | the screens of the web client |
| `SubmissionPipeline_proofs`, `PipelinePromise_proofs`, `LibrarySync_proofs`, `Orders_proofs`, `Accounts_proofs`, `Uploads_proofs`, `Office_proofs`, `Screens_proofs` | theorems and proofs |
| `MCSubmissionPipeline`, `MCLibrarySync`, `MCParts` | values of the constants for TLC |
| `*.cfg` | one TLC run each |
| `PROJECT.json` | components, runs, source lines of every definition, mutants, hazards, findings, theorems |

Run a configuration with `tlc -workers 2 -config library.cfg MCLibrarySync` and
a proof module with `tlapm LibrarySync_proofs.tla`. Deadlock checking is off in
every run: the system may stop. All submissions settled, or all retries and rare
events spent, is a state without a step.

Conventions. A step is one awaited call with the code that follows it up to the
next `await`: Node runs that code without interruption, so everything else can
happen between two steps and nothing within one. The client's handlers are cut
in the same way at their requests. What an `async` function read before an
`await` and uses after it is kept in the state of that function (`run[i].rec`,
`request`, `patches[c].copy`, `imports[p].copy`), which is how stale reads show.
Rare events (a crash, a rejected call, a lost answer, a person who acts) have a
budget per kind, counted in `spent`; `MaxKinds` bounds how many kinds one
behaviour has. The budget is not in the program. A variable called a ghost is
not in the program either: it remembers what a property excepts. The definitions
named `X_Something` under the comment "Mutant" are not used by the models: each
is a plausible bug of the definition `X` that follows it, and shows that a
property notices it.

## 2. Inventory of the system

"Hard" is what is difficult to test there. The list of single hazards, each
with its line, is in `PROJECT.json`.

**Submission intake** (`routes/public.ts`, `submission.ts`). State: the staging
directory on disk, the request. `POST /sites` streams files into a staging
directory, takes a site number, renames the directory, saves the record as
QUEUED, marks the work order submitted, answers 202 and enqueues; or deletes
what it staged and answers 500. Hard: the record is saved before the job is
queued, and a store call can fail after it took effect. Correct when: an
accepted file is never lost, a refused one leaves nothing behind.

**Submission worker** (`worker.ts`). State: queue, running jobs, retry timers,
all in memory. Operations: enqueue, pump, run, scheduleRetry, recoverPending,
shutdown. A run reads the record, saves it as PROCESSING, syncs the files that
are not filed yet, folds the outcome into the record, saves it, then cleans up
or sets a timer. Hard: crash between upload and save, timers that outlive their
purpose, a store that rejects, retries after partial failure. Correct when:
unfinished work is always owed by somebody, the record tells the truth, the
staged copies go only when everything is stored.

**Manual retry** (`routes/admin.ts` 292-312). No state of its own: reads the
record, awaits, writes the whole record back and enqueues. Hard: it races the
worker. **Process lifecycle** (`index.ts`, `context.ts`): boot with recovery,
SIGTERM with a drain and a time limit, crash.

**Record store** (`repositories/types.ts`, `table-store.ts`, `json-store.ts`).
Records by id; `save` replaces the whole record. Azure Tables in production, a
JSON file otherwise (a chain of atomic renames with one in-memory array). Hard:
whole-record writes by several actors; one rejected flush poisons the chain; an
unreadable file is taken for an empty one.

**Document library sync** (`sharepoint-service.ts`, `graph-client.ts`,
`folder-rules.ts`). State: `client` (the target), the lock `operationTail`, the
library itself. Operations: syncSubmission, reconcileManualUploads,
setStorageTarget, inspection. Hard: several submissions planned into one
folder, listings that fail, answers that are lost, flows and people who change
the folder at the same time, a target that changes under a sync. Correct when:
nothing is overwritten, submissions do not share a folder, what is reported
stored is there.

**Graph transport** (`graph-client.ts` 37-70, `graph-auth.ts`): retries and a
cached token round single requests.

**Folder and file naming** (`folder-rules.ts`, `address.ts`): pure functions of
templates, tokens and addresses.

**Site numbers** (`site-id.ts`). State: a counter in memory and in a file.
Operations: next, peek. Hard: best-effort persistence, a number taken by a
request whose record is saved later, restarts in between. Correct when: no two
records get one number.

**Manual upload reconciler** (`manual-upload-reconciler.ts`,
`sharepoint-service.ts` 556-797). State: delta cursor, target, enabledAt, audit
trail. Operations: runOnce, resetForTarget, start. Hard: the cursor is saved
apart from the audit lines it covers and may be replaced under a run. Correct
when: every file added by hand after the start is seen, renamed at most once,
and never with a number a sync uses.

**Work orders** (`work-orders.ts`, `order-import.ts`, `routes/work-orders.ts`)
and **sheet sync** (`google-sheet.ts`, `spreadsheet.ts`). State: orders keyed by
source row, a timer. Operations: import, update, markSubmitted, removeMissing,
tick. Hard: whole-order writes by importer, administrator and intake; deletion
by absence from a listing that may be partial. Correct when: a submitted order
is never lost or reopened by an import.

**Accounts and sessions** (`admin-directory.ts`, `auth.ts`, `routes/auth.ts`).
State: accounts in the store, a directory cached for 30 s. Hard: revocation
against the cache, sign-in that writes a stale account back, two creations of
one login.

**Microsoft and Google accounts** (`microsoft-account.ts`, `google-account.ts`,
`google-service-account.ts`). State: saved tokens, one refresh in flight,
pending sign-ins. Hard: a refresh that ends after a sign-out writes the account
back.

**Settings** (`settings.ts`). State: in-memory copies of stored values. Hard:
memory first or store first, in different orders for different settings; two
edits at once. **Issues, inspection, exports** (`routes/admin.ts`,
`routes/export.ts`): views, and an issue log kept by read-modify-write.
**Notifications** (`mailer.ts`, `teams.ts`), **OCR and import helpers**,
**configuration**, **web client**, **deployment**: outputs, pure functions or
no run-time state of the server.

How they meet: intake -> worker by a call of `enqueue`; worker -> library by
`syncSubmission`, one at a time under the lock, which the reconciler takes too;
worker, intake and administrator -> store by whole-record saves with no lock at
all; settings -> library by `setStorageTarget` and `rule`, without the lock;
boot -> worker by what the store lists as unfinished; sheet sync and intake ->
work orders by whole-order saves.

## 3. SubmissionPipeline

**State and code.** `record[s]` is the stored row (status, which files are
filed and where, attempts, retryAvailable), `staging` the files on the server's
disk, `library` what is in which folder, `queue` and `run` the worker's memory,
`timers` the retry timers, `intake` and `request` the HTTP handlers under way,
`mode` the process (up, stopping, down). `run[i].rec` and `request[s]` are the
copies those handlers hold.

| Actions | Code |
| --- | --- |
| `IntakeAccept`, `IntakeFails`, `IntakeAnswer` | `POST /sites` from the rename to the answer |
| `RunRead`, `RunClaim`, `RunSettle`, `RunDone`, `RunThrows` | `SubmissionWorker.run`, one per awaited store call, and `pump` |
| `SyncStart`, `SyncFails`, `UploadLands`, `UploadFails`, `UploadReplyLost`, `SyncReturns`, `SyncReturnsUnchecked` | `syncSubmissionUnlocked` as the worker sees it |
| `FlowTakes` | a library rule or flow outside the repository that takes a fresh file away |
| `TimerFires` | `scheduleRetry` |
| `RetryRead`, `RetrySave` | `POST /sites/:id/retry` around its await |
| `Shutdown`, `Exit`, `Crash`, `Boot`, `BootBlind` | SIGTERM, its time limit, a crash, `recoverPending` and its failing listing |

**Abstractions.** Every submission plans folders of its own here (sharing is
LibrarySync's subject); names, numbers and sidecars are left out; mails, cards
and audit lines are outputs. The store is the Table store, which hands out
copies: the JSON store hands out the object it keeps, and that aliasing is not
modelled.

**Properties.**

- `WorkIsOwed`: while the server takes work, an unfinished record is queued, run,
  timed or about to be queued by its request, or a rejected store call has dropped
  it until the next boot.
- `RecordedFilesAreStored`: a file the record calls stored is in the folder it
  names. `AcceptedFilesSurvive`: every file of an accepted submission is staged or
  in the library. Both hold while `Verified` does, that is unless a flow takes
  files *and* a listing fails, in which case the code loses the file (section 9).
- `StatusMatchesFiles`: COMPLETED, PARTIAL and FAILED count right, also after
  several attempts and retries.
- `DuplicatesNeedMishaps`: each further copy of a file in the library is due to a
  crash, a rejected save, a lost answer or a manual retry.
- `FilingIsKept` (action): no run forgets what an earlier one filed.
- `EverySubmissionSettles` (liveness): an accepted submission is settled in the
  end, unless a rejected store call dropped its job.
- `KeepsPromise`: the pipeline implements `FilingPromise` (owed, then filed or
  short, never broken, never owed for ever) under the mapping `PromiseOf`.

**Fairness.** Weak fairness of the worker's own steps, of the answer to an
accepted request, of timers, of the second half of a manual retry, of the end of
a stopping process, and of the boot that the platform's restart performs. The
event loop and the retry limits of `fetchWithRetry` justify them: a call ends, in
success or failure. No fairness makes an upload succeed, a fault happen or an
administrator act.

## 4. LibrarySync

**State and code.** `files[drive][folder][number]` and `sidecar[drive][folder]`
are the libraries; `drive` is where `this.client` points (the local disk of test
mode when there is none); `waiting` is the chain of promises of `operationTail`,
whose head holds the lock; `job` is what the head is doing; `filed` what has been
reported stored; `tries` counts the syncs asked for; `torn` remembers that a
target changed under a sync; `spent` counts events.

| Actions | Code |
| --- | --- |
| `Request` | `exclusively`, called by the worker for the files not recorded yet |
| `ChooseFolder`, `ChooseBlind` | `avoidCollision`, one candidate a step; a listing that fails reads as empty |
| `PrepareFolder`, `PrepareFails`, `PrepareReplyLost` | `ensureFolderPath`, `mkdirSync` and the sidecar; anything that throws ends the sync |
| `CountNames`, `CountBlind` | `existingNames` and `nextSequences` |
| `UploadLands`, `UploadRefused`, `UploadFails`, `UploadReplyLost` | the upload loop; Graph refuses a name in use, `copyFile` overwrites it |
| `Confirm`, `ConfirmBlind` | `verifyStored` and the report |
| `FlowActs`, `HandAdds` | a flow that takes or renames a fresh file, a person's file: outside the repository |
| `SwitchTarget` | `setStorageTarget`, which takes no lock |
| `Crash` | the process ends and starts again |

The code asks for `this.client` at each call but picks `uploadOne` once, at the
start; the model does the same (`job.live` against `drive`), so a switch in the
middle of a sync sends the sidecar to one drive and the files to another, or
leaves an upload without a client.

**Abstractions.** One kind of file (each kind counts its own numbers under the
default template), no attachments folder of its own (the default), contents told
apart by their size, the missing staged file left to the pipeline, a submission
never twice in the chain. Creating folders goes with the sidecar's call, a switch
between those two calls being taken as one before them. A folder is the number of
its suffix: the suffix list is 99 long, or shorter when `maxSegmentLength` cuts
the suffix off, down to none.

**Properties.**

- `FoldersAreNotMixed`: under a rule with a sidecar, no two submissions have
  files in one folder of a SharePoint drive. It is not `avoidCollision` that
  ensures it (its listings may fail, its suffixes run out) but the refusal of the
  second sidecar. It needs that no target changes under a sync: without that
  guard TLC finds a mixed folder.
- `NothingIsOverwritten` (action): no sync replaces an item that exists. On a
  SharePoint drive unconditionally; on the local disk as long as no listing
  failed, nobody added files and no target changed under a sync, because there
  nothing but lock and numbering prevents it.
- `FiledFilesStay`: what was reported stored stays where it was reported, with
  its own content. A failed closing listing together with a flow breaks it, hence
  the guard; so does the local disk when its numbering is misled.
- `CalmSyncsFileAll`: without rare events one sync files everything, whatever
  folders, sidecars and numbers earlier submissions left. With a sidecar on
  SharePoint it needs a suffix for every further submission: beyond that the
  fallback to the planned folder (sharepoint-service.ts:349) is refused there.
- `SyncsReturn` (liveness): every sync asked for returns, also when holders of the
  lock before it throw.

**Fairness.** Only `SyncStep`, the next call of the lock's holder: Graph calls end
because `fetchWithRetry` gives up after `MAX_RETRIES`, and the event loop goes on.
Nothing makes a sync be requested or an event happen.

## 5. The server's smaller parts

Each of these modules stands for itself and rests on `Common`. The actions are
named for the functions they model; `PROJECT.json` has the lines.

### WorkOrders: the order book

*Code*: `work-orders.ts`, the sync loop of `google-sheet.ts`, the two stores'
order collection. *State*: `sheet` (what a row says now), `orders` (the stored
order per identity), `links`, `paused` and `round` (linked sheets, those switched
off, what the minute timer has yet to look at), `imports` (per importer: the
timer, the office's button, an order file) and `edits` (the office, a submission)
with the copies they hold, and `moving` (who has deleted an order's row and has yet
to write the new one). *Actions*: `TickStarts`, `TickReads`, `TickSkips`,
`ManualReads`, `FileReads`; `SyncStep` (look a key up, save the row, remove the
missing ones), `RowFails`, `SyncThrows`; `OfficeReads`, `SubmissionReads`,
`Writes`, `WriteFails`; `RowChanges`, `LinkChanges`, `OrdersCrash`.

The table store keeps an order in a row named after its day. A save that changes the
day is therefore two steps, `RowMoves` or `WriteMoves` (the old row is deleted) and
`SaveRow` or `Writes` (the new one is written), and others read, a call fails or the
process ends between them. `DayOf` says which values are of one day; where all are,
the save is one step, as in the JSON store.

- `OneOrderPerKey`: one site is one order, except for a row two writers handled at
  once (no lock is taken).
- `SyncsDoNoHarm` (action): no sync, import or clean-up undoes a finished order or
  what the office typed, or loses an order whose row is there, also while the order
  is on its way to another day. It names its exceptions: writers that crossed, the
  office's own edits, an order file (which may replace a typed value), a tab that was
  passed over, links that changed, and a move that a rejected call or a restart cut
  short (section 9).
- `ListFollowsSheet` (liveness): once people stop, the list follows each linked
  sheet. A sheet with an unfit row is never cleaned up, so it is left out.

### OrderSheet and OrderReview: from a grid of cells to orders

*Code*: `order-import.ts`, `spreadsheet.ts`, `google-sheet.ts` (mapping and state
column); `AdminWorkOrders.tsx` for the review. *State*: `grid`, the columns a link
was saved with, the keys read last, the `year` it is and the one it was then; for the
review what is on the screen, corrected, struck out and under way. *Actions*:
`ReadSheet`, `SaveColumns`, `NewYear` and
what people do to a sheet (`InsertColumn`, `WriteCell`, `InsertLine`);
`ChooseFile`, `EditRow`, `DropRow`, `ChangeMapping`, `SendRows`, `Discard` and the
answers.

- `OrdersComeFromTheirRows`: an untouched order is read again under its key
  wherever lines and columns were put (`RowsKeepTheirOrders`; a date without a year
  is read in the current year and is part of the key, so such lines are excepted at
  New Year, `Redated`), nothing of a row is
  dropped but what the comment names (`NothingIsLost`), columns can be told apart
  (`NamesDiffer`), and no row is sent that was struck out or needed a person who
  did not look (`OnlyReviewedRowsGo`).

### SiteNumbers: the number of a submission

*Code*: `site-id.ts`, `routes/public.ts`, `submission.ts`. *State*: `counters` and
their best-effort copy, `records` and `folders` per id, each request's stage.
*Actions*: `Arrives`, `Allocates`, `Probe`, `KeepCounters`, `MoveFolder`,
`SaveRecord`, `SubmissionFails`, `Filed`, `NumbersCrash`.

- `SubmissionsStayApart` (action): no record is replaced by another submission's,
  and the photos under a record's id are its own. Left out of the first half: a
  series with more records than `MaxProbes` and no counter, and dates long past,
  whose counter is pruned at once.

### AdminAccounts: who may do what

*Code*: `admin-directory.ts`, `auth.ts`, the routes on users and technicians in
`admin.ts`. *State*: `accounts` (the store), `cache`, logins and requests under
way, each manager's PATCH as what is left of a sequence of edits, the roster, a
technician about to be removed. *Actions*: `VisitCached`, `VisitFetches`,
`VisitAnswered`, `Stamp`, `StampFails`, `Expire`; `Ask`, `PatchStep`, `EditFails`;
`RosterChecks`, `RosterDrops`; `AccountsCrash`. An edit may link an account to any
technician's id, one who is no longer on the roster included: the server does not
look (admin-directory.ts:298-309).

- `AccountsFitTheirRoles`: what an account may see fits its role, and the
  technician it is linked to exists.
- `AccountsChangeByIntent` (action): an account changes by a manager's edit in the
  fields of that edit; no login's stamp and no other edit takes anything back,
  unless it held an older answer.
- `RevokedLoseAccess` (liveness): whatever the cache held, a disabled or removed
  account is turned away in the end.

### LinkedAccounts: the accounts the server acts with

*Code*: `microsoft-account.ts`, `google-account.ts`, `google-service-account.ts`.
*State*: `account` in memory, `stored` in the repository, the cached `token`, what
each actor awaits. *Actions*: `SignInAsks`, `SignInAnswered`, `SignOut`,
`RefreshAsks`, `RefreshEnds`, `TokenExpires`, `SaveLands`, `CallFails`, `Revoke`,
`LinkedCrash`. Who needs a token of Google asks with the service account's key first;
the linked account is asked about only when there is no key or the key does not
answer (`NoKey`, `Unanswered`).

- `LinkedAccountsAgree`: the token is of the account shown, and a restart brings
  that account back, unless a write was under way, refused or overtaken.
- `RevokedAreForgotten` (liveness): as long as somebody goes on needing tokens, an
  account the provider takes no longer does not go on claiming to be connected, unless
  it is a Google account whose place a working key has taken. That somebody asks is a
  premise of the property (`GoOnAsking`) and no fairness of the specification: the
  sheet timer asks Google, but Microsoft is asked only when a master looks up a
  channel (admin.ts:1063-1066).

### ManualUploads: files put into the library by hand

*Code*: `manual-upload-reconciler.ts`, `sharepoint-service.ts` 556-797,
`manual-audit.ts`. *State*: the changes of the drives, `target`, `cursor` and
`enabledAt` in memory and as `kept`, `pass` (what `runOnce` is doing), `reset`
(what `resetForTarget` has yet to save), the audit file. *Actions*: `PassStep`,
`PassFails`, `RenameFails`, `CursorExpires`, `ResetForTarget`, `ResetSaves`,
`ResetFails`, people's uploads and deletions, `ManualCrash`. The delta feed is the
cursor's drive's, but `LookAt` and `RenameItem` look on the drive in use by then: a
file of another drive is not found (404) and passed over, and a group whose folder
cannot be listed fails the pass (`RenameMisses`).

- `CursorPassesNothing`: what the saved cursor has passed on the drive in use is
  renamed or gone, and its deletion, on any drive, is in the audit file or about to
  be.
- `ManualUploadsAreNamed` (liveness): no file of the drive in use is passed over for
  good, unless a pass over the former drive replaced the new target's cursor.

### FileNaming: names and numbers of files

*Code*: `folder-rules.ts`, `sharepoint-service.ts`. A name is a sequence of atoms, a
rule one of words; `Rendered` is what `buildStoredName` makes of a rule, separators
dropped as there, `Readings` the matches of the expression that `followsFileNameRule`
and `nextSequences` build from it, `Laziest` the one it finds. *Actions*: `Uploads`,
`Lands`, `PassRenames`, `PersonAdds`, `RuleChanges`.

- `NamesAreSound`: no file is planned under a name in use or that of another file
  planned with it, and no pass renames what the app named itself. The exceptions of
  the code are spelled out: rules without `{번호}`, tokens without a value, rules
  whose names cannot be read back (`ReadsBack`), kinds that share numbers, and an
  upload whose listing failed: `existingNames` reads that as an empty folder (`Seen`),
  numbering starts at 001 again, and only Graph's refusal (`Lands`;
  `NothingIsOverwritten` of `LibrarySync`) keeps what is there.

### GraphTransport and UploadPromise

*Code*: `graph-client.ts` (`fetchWithRetry`, folders, small and large uploads,
listings, the lookup of a Teams channel) and its token. *State*: `library`, `made`
(levels of the folder path), `cached` (age of the token), `calls`. *Actions*:
`StartCall`, `CallStep`, `Throttled`, `LookupThrown`, `Refused`, `AnswerLost`,
`TimePasses`, `HandPuts`.

- `AnswersAreHonest`: a call fails only for a cause that tries do not mend, and a
  listing that returns has every file that was there when it began.
- `UploadsKeepTheirPromise`: the transport implements `UploadPromise`: an upload
  appears once, whole, under a name that was free, over nobody's file.
  `LibrarySync` and `SubmissionPipeline` are written for such a caller.

### Settings, Roster and IssueLog

`Settings` (`settings.ts`, `admin.ts`): `mem`, `repo`, `live` (the place of the target
in use and the common rule, as the library has them) and a request per manager that
changes memory, writes a key, may go on to another key and, when the last write
succeeded, hands place or rule on to the library. Saving a target that exists replaces
it in memory before the write; a PUT of the target in use reroutes uploads, a POST
that names it does not (`Routed`). `SettingsAgree`: memory and repository agree on
whatever nobody is changing, unless a write was rejected or two overlapped
(`RestartKeepsSettings`); uploads go to the place of the target in use, unless a
request about targets failed, two overlapped or a POST replaced that target
(`UploadsGoToActiveTarget`); and folders follow the common rule, unless the last
request that set it failed (`FoldersFollowTheRule`).

`Roster` (`settings.ts`, `admin.ts`, `technician-import.ts`): `people` in memory
and in the repository, the queue of writes, previews of imports, managers of one
company beside the master. `RosterStaysRight`: no two entries of one name and
title, no growth beyond the limit, memory and repository agree, nobody leaves but
by a removal or a restart, and a manager's edit leaves other companies' tags alone
(unless it came in while another edit of the same person was waiting).

`IssueLog` (`json-store.ts`, `table-store.ts`, the issue routes): with the JSON
store's shared objects, its chain of snapshots, the rename and the in-place write
that replaces a refused one. `AnsweredIsKept`: a comment answered with 201 is in
its issue and in the file the next start reads, until a delete, an older copy
(Azure Tables) or a torn write gives it up.

## 6. The screens

The client's modules treat the server as the other side of requests whose answers
come in any order or not at all.

| Module | Code | State | Property |
| --- | --- | --- | --- |
| `AppShell` | `App.tsx`, `AdminLogin.tsx` | view, session, sites, what is awaited | `NoBlankScreen`: once all is answered a screen is drawn, if the last move was not made during an earlier request |
| `SubmissionForm` | `ExternalSubmissionForm.tsx`, the pickers, `submission-layout.ts`, `routes/public.ts` | the office's and the screen's layouts, the roster and the screen's copy of it, form, orders shown, the request | `FilingsAreMeant`: one filling files one submission, unless a reply was lost or the server failed after recording it (`ServerFails`, the 500), and never an order of another 시공종류. `ValidFormsAreAccepted` (action): what the screen let pass the server refuses only for the reasons named: no photos, a 시공종류 that changed, technicians who left the roster, an order that is gone, of another 시공종류, without address or date, or that could not be read, and a record that could not be written |
| `AdminTables` | `WorkOrderTable.tsx`, `TechnicianManager.tsx` | entries, rows shown, ticks, handlers | `OnlyWhatWasSeen` (action): nothing is changed that was not on the screen when it was confirmed |
| `SettingsScreen` | `AdminSettings.tsx`, `settings.ts` | what the server has, drafts, editors, requests under way | `SettledScreenIsTrue`: a screen that awaits nothing shows what the server has. `SavesAreMeant` (action): a draft is saved for its own 시공종류, an edit brings back no removed target |
| `TypeEditors` | `SubmissionOrderSettings.tsx`, `ConstructionTypeFields.tsx` | layouts and fields at the server, loads and saves | `EditorsAreTrue`, part of `SettledScreenIsTrue` |
| `RecordLists` | `SiteHistory.tsx`, `AdminUploadLogs.tsx`, `AdminIssues.tsx`, both stores' paging | records, filter, rows, page, loads | `ListsTellTheTruth`: rows fit the filter, pages together show all, none twice |
| `DateRange` | `DateRangeInput.tsx` | period, boxes, calendar | `BoxesShowTheRange`, part of it |
| `Calendar` | `AdminCalendar.tsx` | view, day, loads, filters | `GridIsWhole`, `MonthsStepByOne`, `FilterIsOnOffer`, part of it |

`TypeEditors` is joined to `SettingsScreen`, and `DateRange` and `Calendar` to
`RecordLists`, as screens of one client that share no state but the budget.

## 7. The runs

| Run | Instance | States | Shows |
| --- | --- | --- | --- |
| `pipeline_safety` | one submission, two files, one slot, two attempts; one each of a crash or SIGTERM, a rejected store call, a flow, a failing listing, a lost answer, a manual retry | 490 thousand | the six safety properties of section 3 |
| `pipeline_liveness` | two submissions of one file, one slot, a crash or SIGTERM and a manual retry | 43 thousand | `EverySubmissionSettles`, `KeepsPromise` |
| `library` | two submissions of two files, one suffix, the local disk and a SharePoint drive, a sidecar, two syncs each, one event of each kind (two target switches) and two kinds in one behaviour | 279 thousand | the five properties of section 4 |
| `loops` | `WorkOrders`, `AdminAccounts`, `LinkedAccounts`, `ManualUploads`, each alone | 150 thousand | their safety and, under fairness, their liveness |
| `parts` | the nineteen other parts, each alone | 353 thousand | their properties |
| six `violation` runs beside `failed_tab_deletes_orders` | as small as their counterexample allows | | section 9 |

*Why the bounds are enough.* Two files are needed for partial failure and for a
rename onto a neighbour, two attempts for a retry and for giving up; six folders
are more than attempts and retries can use, nine numbers more than the syncs can.
Two submissions with one suffix exhaust the suffixes as soon as both have files,
so that a retry meets the fallback. In the smaller parts there are two actors of
each kind (three submissions for the numbers: one that holds a number, one that
was given the next, one that finds it taken), two or three items, and each kind of
event once; twice where only the second one matters (an edit behind an edit, a
list's answer behind another), three refusals for the three sources of a site id.
`MaxKinds = 2`: a behaviour has events of at most two kinds, since each hazard of
this code needs at most two different things to go wrong. The instances use no
symmetry, so liveness is checked soundly. The pipeline runs have one slot: that two
runs of one record overlap when there are more (worker.ts:44) is covered by
`RecordsAreTrue` and `NoFileIsLost`, which are proved for any number of slots; and
`pipeline_liveness` has no rejected store calls, which `WorkIsOwed` is about.

In `loops` and `parts` a behaviour is one of a single part, chosen at the start
(`MCParts`); the others rest in a state without a step. The parts share no state,
so nothing is lost by that; one run with all of them keeps the constants in one
place.

*Fairness* in `loops`: the interval of the sheet sync and of the pass goes on
firing, awaited calls end (in success or failure), the clock of the 30-second cache
and of a token goes on. Nothing makes a person act, a call succeed or anybody ask for
a token: the one property that needs it says so (`GoOnAsking`).

## 8. What is proved

tlapm checks every proof to the last leaf. The theorems hold for any number of
submissions, files, slots, folders, drives, keys, accounts, people, requests and events;
they rest on the assumptions on the constants stated in each module (all evaluated
by TLC on every run) and on what the table says.

| Module | Theorem | States |
| --- | --- | --- |
| `SubmissionPipeline_proofs` | `TypeCorrect`, `RecordsAreTrue`, `NoFileIsLost`, `StatusesAreRight` | `[]TypeOK`, `[]RecordedFilesAreStored`, `[]AcceptedFilesSurvive`, `[]StatusMatchesFiles` |
| `PipelinePromise_proofs` | `WorkIsOwedAlways` | `[]WorkIsOwed`, if `RecoverLimit >= NSites` |
| | `FilingIsNeverForgotten`, `DuplicatesAreAccountedFor` | `FilingIsKept`, `[]DuplicatesNeedMishaps`, for one slot |
| | `PromiseIsKeptSafely` | the pipeline implements `FilingPromise!SafeSpec`, for one slot and behaviours in which `Verified` holds |
| `LibrarySync_proofs` | `TypeCorrect`, `FoldersStayApart`, `NamesAreFresh`, `StoredFilesStay`, `CalmSyncsFileAllAlways` | `[]TypeOK`, `[]FoldersAreNotMixed`, `NothingIsOverwritten`, `[]FiledFilesStay`, `[]CalmSyncsFileAll` |
| `Orders_proofs` | `OrdersTypeCorrect`, `OneOrderPerKeyAlways`, `SyncsDoNoHarmAlways` | `[]OrdersTypeOK`, `[]OneOrderPerKey`, `SyncsDoNoHarm` |
| | `NumbersTypeCorrect`, `SubmissionsAreKeptApart` | `[]NumbersTypeOK`, `SubmissionsStayApart` |
| | `SheetsTypeCorrect`, `OrdersComeFromTheirRowsAlways` | `[](SheetTypeOK /\ ReviewTypeOK)`, `OrdersComeFromTheirRows`, for OrderSheet and OrderReview composed |
| `Accounts_proofs` | `AccountsTypeCorrect`, `AccountsFitAlways`, `AccountsChangeByIntentAlways` | `[]AccountsTypeOK`, `[]AccountsFitTheirRoles`, `AccountsChangeByIntent` |
| | `LinkedTypeCorrect`, `LinkedAccountsAgreeAlways` | `[]LinkedTypeOK`, `[]LinkedAccountsAgree` |
| | `RosterTypeCorrect`, `RosterStaysRightAlways` | `[]RosterTypeOK`, `RosterStaysRight` |
| `Uploads_proofs` | `ManualTypeCorrect`, `CursorPassesNothingAlways` | `[]ManualTypeOK`, `[]CursorPassesNothing` |
| | `TransportTypeCorrect`, `AnswersAreHonestAlways`, `PromiseIsKeptByTransport` | `[]TransportTypeOK`, `[]AnswersAreHonest`, the refinement `UploadsKeepTheirPromise` |
| | `NamingTypeCorrect`, `NamesAreSoundAlways` | `[]NamingTypeOK`, `NamesAreSound` |
| `Office_proofs` | `IssuesTypeCorrect`, `AnsweredIsKeptAlways` | `[]IssuesTypeOK`, `[]AnsweredIsKept` |
| | `SettingsTypeCorrect`, `SettingsAgreeAlways` | `[]SettingsTypeOK`, `[]SettingsAgree` |
| | `ShellTypeCorrect`, `NoBlankScreenAlways` | `[]ShellTypeOK`, `[]NoBlankScreen` |
| | `FormTypeCorrect`, `FilingsAreMeantAlways`, `ValidFormsAreAcceptedAlways` | `[]FormTypeOK`, `[]FilingsAreMeant`, `ValidFormsAreAccepted` |
| `Screens_proofs` | `ScreensTypeCorrect`, `SettledScreenIsTrueAlways`, `SavesAreMeantAlways` | `[](PanelTypeOK /\ EditorsTypeOK)`, `[]SettledScreenIsTrue`, `SavesAreMeant` |
| | `TablesTypeCorrect`, `OnlyWhatWasSeenAlways` | `[]TablesTypeOK`, `OnlyWhatWasSeen` |
| | `OverviewTypeCorrect`, `ListsTellTheTruthAlways` | the types of RecordLists, DateRange and Calendar composed, `ListsTellTheTruth` |

### Assumptions beyond the modules' own

- `RecoverLimit >= NSites` for `WorkIsOwed`: `recoverPending` reads one page of 200
  unfinished records (table-store.ts:255). With more of them a restart leaves some
  behind, and the property is false.
- `Concurrency = 1` for three theorems about the pipeline: the default
  (`config.ts:62`). With two slots one manual retry is enough to let two runs of one
  submission overlap, and the later save forgets what the other one filed: TLC
  shows `FilingIsKept` violated there.
- `[]Verified` for `PromiseIsKeptSafely`: not both a flow that takes files and a
  listing that fails (`unchecked_files_lost` shows what happens otherwise).
- In the modules: None is different from every value; the sheets a server is linked
  to are finite; the labels "hand" and "others" name no call; `RecentSites` is part
  of `Sites`; there are two marks a filter can tell apart; the identities a
  technician may get are finitely many, so that a roster can be counted; what is
  reviewed has a page; a text that is the name of a field contains one, and a name
  with a number contains what the name without it contains; rules and names are made
  of given words, the default rule is one the office may set, and a file that is
  uploaded or put there is a picture or a video and has an ending of one or none.

### The arguments

*Pipeline.* `FilesInv` is the inductive invariant of the first three properties. A
record and each stale copy of it is honest (its status fits its files); at most one
slot uploads, because of the lock; what the uploading slot has landed is there;
and, while `Verified` holds, every stale copy claims only files that are stored,
the folder under way is used by nobody's record, and an accepted file is staged or
stored. The copies are why the invariant is needed: a manual retry or a second run
writes back what it read long ago, so the record is true only because every copy
in flight is. `OwedInv` gives each unfinished record a next step, which
`WorkIsOwed` alone does not: a slot that is settled with a terminal status counts
there, but has nothing left to do for a record reopened meanwhile. `OneSlotInv`
orders the copies of a record into a chain (the retry's snapshot knows no more than
the store, the store no more than the run), and `CopiesAreAccounted` counts the
copies in the library together with those that may yet come without another
mishap. `PromiseIsKeptSafely` maps every step to a step of `FilingPromise` or a
stutter.

*Library.* `MarkInv`: while no target has changed under a sync, a sync past its
sidecar finds its own submission named there, and every file on a SharePoint drive
belongs to the submission its folder's sidecar names. `Numbered`: past the last
number used the local folder is free as long as nothing has misled the count.
`StayInv`: the files of the sync under way are not recorded yet, so that a flow,
which touches only those, spares the recorded ones. `CalmInv` is a pigeonhole
argument: sidecars stand where files are, one for each submission that is through,
so a folder without one is among the candidates.

*Orders.* `OrdersInv`: an identity is known under one key; who holds an answer
about a key nobody crossed has the one the store would give, or would have given
before the holder took the order out; an order that nobody crossed is taken out by one
actor, and no sync is about to delete it (`MoverAlone`); and what a sync is about to
delete has been off its sheet. `SyncsDoNoHarm` speaks of what stands of an order: its
row, or, while it moves, the copy the mover is about to write. *Numbers.* `IInv`: one request allocates at
a time; probes rise; a number taken and not yet claimed is nobody else's; at most
as many numbers are handed out as there are submissions. *Accounts.* `AccountsInv`
and `LinkedInv` ask of every copy (in the cache, a visit, a patch, a refresh, a
write under way) what the properties ask of the store, since each is written back
whole. *Roster.* `RosterInv`: only the write at the head of the queue has begun, and
what it writes is memory, or memory with new people whom no waiting edit means; an
edit that waits behind another of the same person knows it, and one that does not
has the tags of other companies as memory has them. A new identity is one that
nobody holds or asks for, any of them: where none is left the write is refused,
which random identities never meet.

*Transport.* `TransportInv`: every try before the present one was one Graph did not
answer, and a listing has what was there when it began as far as it has read.
*Manual uploads.* `ManualInv` asks of the cursor in memory and of the one a pass is
about to save what `CursorPassesNothing` asks of the saved one. A file that a pass
awaits no more is about to be renamed, has its name or is not on the drive in use; the
choice of another drive voids the claim for the cursor of the former one.

*Names.* The lemmas before the invariant say that a name is read as it was written.
`LaidParts` follows `Rendered` part by part: a part that is not open stands as one
atom where `Cut` says, and an open part keeps at least one atom, though its last
separator may go to the separator behind it or be dropped at the end. So the lengths
that came out are a reading (`ReadsItself`), and the name fits its rule. The
expression may find another one, with other cuts; but number and kind stand before
the first open part, where every reading counts from the start, or behind the last,
where every reading counts from the end (`SaidAt`), and what is found exists because
the shortest readings can be picked part by part (`LaziestIs`). Hence a number in use
is never missed, and `Given` counts on from the highest. `NamingInv` adds that what
the app named fits its rule for ever, whatever rule is in force later.

*Issues.* `IssuesInv`: a saved comment is in every snapshot from its own request's
on. *Settings.* `SettingsInv`: a key nobody disturbed has one writer at most, whose
copy is what memory has; while nothing about targets failed or overlapped there is one
request about them, and the library is where that request will leave it or found it;
with no request about the common rule under way the library has memory's, unless the
last one failed. *Shell.* `ShellInv`: a user who is not hasty waits for one
answer at most, on the screen that answer is for. *Form.* `FormInv` counts filings
against lost replies and failed calls. *Settings screen.* `PanelInv`: a section has one request
under way, and either the screen or the answer on its way has the list as it is; an
open editor's target exists or its removal will close it. *Editors.* `EditorsInv`:
as long as no load met a save, what is known or on its way is what the server has.
*Tables.* `TablesInv`: ticks are among the rows shown, and what a handler has left
is among what it saw. *Lists.* `RecordsInv`: the rows on the screen, and those a page
under way would leave there, are right for what the list asks (`ShowsRight`): every
record that is owed and not shown is past the page to come, and a record is shown
twice only where pages are counted by offset and records were added meanwhile.
*Calendar.* `GridInv` and `ScheduleInv`: the grid is the days of its month in turn,
and the filter is on offer in every answer that arrives.

*Sheets.* `RowsKept` is the invariant behind `RowsKeepTheirOrders`: the line of the
names exists, and every order that was read last and that nobody wrote on stands
below it and would still be read under its key, by the columns saved or found. It is
about the sheet, not about the table read from it, so that it holds between readings,
while the names may be lost among other lines. Each change keeps it: a line moves
lines down; a column whose name means nothing moves columns to the right and leaves
each field's column the same one (`Widened`: meaning and order of the other names
are untouched, so the first free name that fits is the same); a cell written on
takes its line out of the claim. At a reading the names stand out, so they are the
header that the score picks. *Review.* `AllReviewed` says the same of what is on the
screen and of the answer a change of columns waits for.

*Induction.* Where a definition recurs or counts (the first place that fits, the
place of a filtered element, a page), its facts come from a least counterexample:
a set of naturals that is not empty has a least element, by the library's `WFMin`.

What proving showed about the models themselves: an order file may replace a typed
value (an exception `SyncsDoNoHarm` now names); a company account without a
시공종류 exists after a change of role, so no property claims otherwise; two `CASE`
expressions had arms that overlapped; a comment whose issue is deleted and brought
back by a third request has to be given up in `AnsweredIsKept`. `RowsKeepTheirOrders`
used to claim too much: when the names stand beyond the thirtieth filled line or have
fewer than three short labels, when columns are saved while another line is read as
the names, and when the column that tells which orders are off is known by its place
alone, an inserted line or column can move every key. The small sheets of the run had
none of these; `StandsOut` and `telling` now say so. `NamesAreSound` was false for
rules that begin or end with a separator or double one, and for those with number or
kind between two open parts: none of them was in the run, and one now is. `SyncsDoNoHarm` could not be proved of
`orders` alone once a save was two steps: while an order moves, what stands of it is
the copy its mover holds.

### Only model-checked

- Liveness (`EverySubmissionSettles`, `SyncsReturn`, `ListFollowsSheet`,
  `RevokedLoseAccess`, `RevokedAreForgotten`, `ManualUploadsAreNamed`, the liveness
  half of `KeepsPromise`): fairness and ENABLED are out of the prover's reach.
- The type invariant of `MCParts`, a conjunction of the modules' own.

## 9. Disagreements between code and text

### Shown by a run

Each run checks one property, which states what a comment says, and TLC finds it
violated by what the code does. The findings in `PROJECT.json` quote the lines.

| Run | What the text says | What the run shows |
| --- | --- | --- |
| `retry_splits_folder` | numbering continues on a retry; one folder per submission | the retry takes its own files for another submission's and goes to a second folder |
| `crash_duplicates_files` | a retry never duplicates files | a crash between upload and save does |
| `stale_timer_reopens` | a terminal state is final for the worker | a timer set before a manual retry reopens the record |
| `stale_retry_loses_staging` | retryAvailable means files are staged | a manual retry saved after the worker's end claims it with nothing staged |
| `unchecked_files_lost` | nothing is reported stored until seen | a failed listing skips the check |
| `leftover_sidecar` | an empty folder is not left unused for ever | a folder with only its sidecar refuses every later sync |
| `failed_tab_deletes_orders` | an incomplete reading deletes nothing | a tab that answers with an error is passed over, and its orders are deleted |

### Met while modelling

These have no run of their own; where a property of a run would otherwise be
violated by one of them, the property names the exception.

*Orders and sheets.* A sync whose link was removed meanwhile, with one other link
left, takes itself for the only one and deletes the other link's orders. In the table
store a save that gives an order another day deletes the old row before it writes the
new one (table-store.ts:604-608): when the write fails or the process ends between
them, the order is lost with its status and what was typed, and the next sync makes a
new open one of its row. A date without a year is read in the current year
(order-import.ts:219-221) and is part of the key of an order without a number
(293-296): at New Year an untouched row gets another key, its order is deleted and a
new open one made. The table
kept for changing columns (`AdminWorkOrders.tsx` 197-214) is rebuilt from parsed
rows: an unreadable date and its mark are lost, rows struck out come back.
`changeMapping` and `patchSheet` go on with the review as it was: corrections made
while an answer is awaited are undone (against the comment on line 235). In
`order-import.ts` a header literally named "비고 (2)" makes two columns of one name;
the row number ignores the preface and blank rows; with a sparse line under the
names an order becomes the header; a link's saved mapping is used for tabs whose
columns differ.

*Submission form.* Undated or address-less orders can be picked and are refused
(`public.ts` 346, 348). Technicians are looked up in the roster of the moment, so a
complete form whose technicians were all removed meanwhile is refused (266-268,
343-345); an order whose lookup fails is called not found (288-293). A save that is
rejected after it took effect answers 500 and has the staged photos removed (410-418),
though the record stands. A required custom field whose section was taken off the
layout blocks the form. After a reload, opening a menu item before the session's
answer leaves the login form although one is signed in.

*Numbers and names.* Dates more than 120 days past have their counter pruned at
once, so two overlapping requests may hold one number. A rule without `{번호}` (only
through the environment) gets numbers that are never counted. A folder whose listing
fails is taken for empty (sharepoint-service.ts:287-296), so an upload numbers from 001
again; Graph refuses the names in use and those files stay unfiled until a retry. A token without a
value makes a name that its own rule does not recognise: numbering restarts, and
the pass over manual uploads renames the app's own file. So it is with every file
under a rule that begins or ends with a separator or doubles one, which
`validateFileNameTemplate` accepts: `buildStoredName` drops the separator
(folder-rules.ts 243-244), and the expression made from the rule asks for it. A rule
with number or kind between two open parts (`{원본파일명}_{번호}_{건물명}`) may read a
number out of the original name, although the comment at folder-rules.ts 338-339 takes
the shortest match to be safe. Files named under an earlier custom rule and reported
later are renamed.

*Accounts and roster.* A change of role to 업체 관리자 leaves the account without a
시공종류 (`AdminAccounts.tsx` 531-541), which creation refuses. The tags of another
company are resolved from memory before the queue (`admin.ts` 682-688) and may be
undone or restored by a waiting edit. A single edit clears `busy` while a bulk
action of `TechnicianManager` is still under way.

*Targets and manual uploads.* A request that changes a target or the common rule
changes memory first and tells the library last (`settings.ts` 449-484, `admin.ts`
894-904, 1133-1172): when its write fails, settings and library stay apart until the
next success or restart. A POST with the id of the target in use replaces it without
rerouting uploads; the screen uses PUT for a target that has an id. A pass under way
when the target changes looks for the old drive's files on the new one, finds none and
lets its cursor pass them (sharepoint-service.ts:693-694): on the old drive they keep
the names people gave them.

*Settings screen.* `handleSaveTypeConfig` and the answers to removals act on
whatever is chosen by then; saving the common rule does not refresh the 시공종류 the
server moved along with it; `isDirty` is always true; saving the entry whose removal
was awaited creates it again. `SubmissionOrderSettings` treats a failed load as the
defaults, and a save then overwrites the stored order. `ConstructionTypeFields`
sends its whole draft, folder rule included, and cannot load for a manager of one
company (`admin.ts` 937).

*Lists and calendar.* Loads are not guarded: an older filter's answer, its further
pages and its exports may come last. `narrowed` compares lengths, so that a filter
which matches every loaded row still shows the server's totals. The table store
filters technicians after paging, and `SiteHistory` reads one page. The presets and
the calendar's today are UTC days. A period equal to the one typed last leaves the
boxes empty. The month view keeps a foreign week after a February of four weeks.

*Server.* Issue routes and two reads of sites do not catch a rejected store call,
which ends the process. `graph-client.ts` refreshes a token a minute early "so a
token never expires mid-request", but one token serves all tries and `Retry-After`
is honoured without limit.

## 10. Not modelled, and the plan

Not modelled: notifications (best-effort output), OCR (single calls that answer
text), configuration (its numbers are constants here), deployment, presentation,
and the string work of addresses, templates' wording and file formats. Partly
modelled components say in `PROJECT.json` what they leave out; the map covers about
a third of the implementation's lines, most of the rest being layout, messages and
formatting.

Next:

1. `LibrarySync` with kinds of files that share numbers under a rule without
   `{종류}`, which `FileNaming` has.
2. Names down to their characters: a number that touches the digits of a value, and
   the cut at 120 characters, which `FileNaming` leaves out.
3. `PromiseIsKeptSafely` for more than one slot, with the overlap of two runs of one
   submission as a further exception.
