------------------------- MODULE SubmissionPipeline -------------------------
(***************************************************************************)
(* The life of a submission in the sigong-upload server, from the moment   *)
(* POST /sites writes its record to the moment the background worker is    *)
(* done with it: the intake, the in-process queue, the worker's runs, the  *)
(* retry timers, the administrator's manual retry, crashes, restarts and   *)
(* shutdowns, the record store, the staged copies on disk and the document *)
(* library.                                                                *)
(*                                                                         *)
(* The server is one Node process, so the code between two awaits runs     *)
(* alone.  A step of this module is one awaited call together with the     *)
(* code that runs when it returns.  A read of the store therefore takes a  *)
(* snapshot, and the save that ends the handler writes that snapshot back  *)
(* whatever has happened meanwhile (the Table store hands out copies).     *)
(*                                                                         *)
(* What is abstracted: a submission is its number in order of acceptance,  *)
(* a file its position in the upload, a folder the number of its           *)
(* collision suffix (0 is the planned folder).  Names, sizes, metadata     *)
(* files, the numbering of names inside a folder, audit log lines, cards   *)
(* and mails are left out.                                                 *)
(***************************************************************************)
EXTENDS Integers, Sequences, FiniteSets

CONSTANTS
    NSites,        \* how many submissions arrive
    NFiles,        \* files of a submission
    Concurrency,   \* config.worker.concurrency
    MaxAttempts,   \* config.worker.maxAttempts
    RecoverLimit,  \* listUnfinished's page: how many records boot re-queues
    MaxFolder,     \* collision suffixes the model may use
    Budget         \* how often each kind of rare event may happen

EventKinds == {"crash", "store", "flow", "listing", "reply", "retry"}

ASSUME ConstantsAssumption ==
    /\ NSites \in Nat
    /\ NFiles \in Nat \ {0}
    /\ Concurrency \in Nat \ {0}
    /\ MaxAttempts \in Nat \ {0}
    /\ RecoverLimit \in Nat
    /\ MaxFolder \in Nat
    /\ Budget \in [EventKinds -> Nat]

Sites   == 1..NSites
Files   == 1..NFiles
Slots   == 1..Concurrency
Folders == 0..MaxFolder

NotStored == -1  \* the record does not say that the file is in the library
NoSite    == 0   \* the site of an idle slot

Statuses         == {"NONE", "QUEUED", "PROCESSING", "COMPLETED", "PARTIAL", "FAILED"}
TerminalStatuses == {"COMPLETED", "PARTIAL", "FAILED"}
OpenStatuses     == {"QUEUED", "PROCESSING"}

(***************************************************************************)
(* A SiteRecord.  stored[f] is the folder of files[f].remotePath when the  *)
(* file's status is 'completed', and NotStored otherwise.                  *)
(***************************************************************************)
Record == [ status         : Statuses,
            attempts       : Nat,
            retryAvailable : BOOLEAN,
            folder         : Folders,
            stored         : [Files -> Folders \cup {NotStored}] ]

NoRecord == [ status |-> "NONE", attempts |-> 0, retryAvailable |-> FALSE,
              folder |-> 0, stored |-> [f \in Files |-> NotStored] ]

\* What SubmissionIntake.accept saves.
AcceptedRecord == [ status |-> "QUEUED", attempts |-> 0, retryAvailable |-> TRUE,
                    folder |-> 0, stored |-> [f \in Files |-> NotStored] ]

(***************************************************************************)
(* One execution of SubmissionWorker.run in a slot of the worker.          *)
(***************************************************************************)
RunPhases == {"idle",       \* no job
              "reading",    \* sites.get is pending
              "claiming",   \* the save of the PROCESSING record is pending
              "syncing",    \* waits for the library's operation lock
              "uploading",  \* holds the lock, uploads one file after another
              "settling",   \* the save of the outcome is pending
              "settled"}    \* outcome saved, the audit append is pending

Run == [ phase  : RunPhases,
         site   : Sites \cup {NoSite},
         rec    : Record,          \* the run's private copy of the record
         folder : Folders,         \* the folder this attempt files into
         todo   : SUBSET Files,    \* files the loop has yet to try
         landed : SUBSET Files ]   \* files whose upload call succeeded

IdleRun == [ phase |-> "idle", site |-> NoSite, rec |-> NoRecord,
             folder |-> 0, todo |-> {}, landed |-> {} ]

StartedRun(s) == [ phase |-> "reading", site |-> s, rec |-> NoRecord,
                   folder |-> 0, todo |-> {}, landed |-> {} ]

IntakeStates == {"idle",      \* not here yet
                 "saved",     \* recorded, not yet queued and answered
                 "answered",  \* queued and told 202
                 "cut",       \* recorded, the process died before the answer
                 "refused"}   \* told 500

VARIABLES
    mode,      \* the process: "up", "stopping" (SIGTERM seen) or "down"
    intake,    \* per site, how far its POST /sites request is
    record,    \* the record store
    staging,   \* per site, the files staged on local disk
    library,   \* per site and file, the folders holding a copy of the file
    queue,     \* SubmissionWorker.queue
    run,       \* the worker's slots; active = the slots that are not idle
    timers,    \* per site, the retry timers that have not fired
    request,   \* per site, the snapshot of a manual retry being handled
    abandoned, \* sites a store error left without a job since the last boot
    spent      \* events of each kind so far

vars == <<mode, intake, record, staging, library, queue, run, timers,
          request, abandoned, spent>>

\* What a restart leaves alone.
durable == <<record, staging, library>>

TypeOK ==
    /\ mode \in {"up", "stopping", "down"}
    /\ intake \in [Sites -> IntakeStates]
    /\ record \in [Sites -> Record]
    /\ staging \in [Sites -> SUBSET Files]
    /\ library \in [Sites -> [Files -> SUBSET Folders]]
    /\ queue \in Seq(Sites)
    /\ run \in [Slots -> Run]
    /\ timers \in [Sites -> Nat]
    /\ request \in [Sites -> Record]
    /\ abandoned \in SUBSET Sites
    /\ spent \in [EventKinds -> Nat]

Init ==
    /\ mode = "up"
    /\ intake = [s \in Sites |-> "idle"]
    /\ record = [s \in Sites |-> NoRecord]
    /\ staging = [s \in Sites |-> {}]
    /\ library = [s \in Sites |-> [f \in Files |-> {}]]
    /\ queue = << >>
    /\ run = [k \in Slots |-> IdleRun]
    /\ timers = [s \in Sites |-> 0]
    /\ request = [s \in Sites |-> NoRecord]
    /\ abandoned = {}
    /\ spent = [e \in EventKinds |-> 0]

\* One more event of kind e: each kind is bounded by Budget.
Spend(e) ==
    /\ spent[e] < Budget[e]
    /\ spent' = [spent EXCEPT ![e] = @ + 1]

----------------------------------------------------------------------------
(* The queue *)

Queued    == {queue[i] : i \in DOMAIN queue}
IdleSlots == {k \in Slots : run[k].phase = "idle"}
Running   == {run[k].site : k \in Slots \ IdleSlots}

(***************************************************************************)
(* SubmissionWorker.enqueue, which ends in pump.  A site that waits in the *)
(* queue is not added again; one that runs or has a timer is.  When a slot *)
(* is idle the queue was empty, since the end of a job calls pump, so that *)
(* pump's loop starts exactly one job.                                     *)
(***************************************************************************)
Enqueue(s) ==
    \/ /\ mode # "up" \/ s \in Queued
       /\ UNCHANGED <<queue, run>>
    \/ /\ mode = "up" /\ s \notin Queued
       /\ IdleSlots = {}
       /\ queue' = Append(queue, s)
       /\ UNCHANGED run
    \/ /\ mode = "up" /\ s \notin Queued
       /\ \E k \in IdleSlots :
             run' = [run EXCEPT ![k] = StartedRun(Head(Append(queue, s)))]
       /\ queue' = Tail(Append(queue, s))

(***************************************************************************)
(* The end of a job: active drops by one and pump starts the next one.     *)
(***************************************************************************)
Release(k) ==
    \/ /\ queue = << >>
       /\ run' = [run EXCEPT ![k] = IdleRun]
       /\ UNCHANGED queue
    \/ /\ queue # << >>
       /\ run' = [run EXCEPT ![k] = StartedRun(Head(queue))]
       /\ queue' = Tail(queue)

----------------------------------------------------------------------------
(* The intake: POST /sites once the form is valid and the files are staged *)

\* Submissions are numbered in the order in which accept stamps them.
NextSite(s) ==
    /\ mode \in {"up", "stopping"}
    /\ intake[s] = "idle"
    /\ \A t \in Sites : t < s => intake[t] # "idle"

IntakeAccept(s) ==
    /\ NextSite(s)
    /\ intake' = [intake EXCEPT ![s] = "saved"]
    /\ staging' = [staging EXCEPT ![s] = Files]
    /\ record' = [record EXCEPT ![s] = AcceptedRecord]
    /\ UNCHANGED <<mode, library, queue, run, timers, request, abandoned, spent>>

\* accept's save rejects: the request is answered 500 and its staged files
\* are removed.  The write may have reached the store all the same.
IntakeFails(s) ==
    /\ NextSite(s)
    /\ Spend("store")
    /\ intake' = [intake EXCEPT ![s] = "refused"]
    /\ \/ record' = [record EXCEPT ![s] = AcceptedRecord]
       \/ UNCHANGED record
    /\ abandoned' = abandoned \cup {s}
    /\ UNCHANGED <<mode, staging, library, queue, run, timers, request>>

\* The order is marked submitted, the job queued and the submitter told 202.
IntakeAnswer(s) ==
    /\ mode \in {"up", "stopping"}
    /\ intake[s] = "saved"
    /\ intake' = [intake EXCEPT ![s] = "answered"]
    /\ Enqueue(s)
    /\ UNCHANGED <<mode, record, staging, library, timers, request, abandoned, spent>>

----------------------------------------------------------------------------
(* SubmissionWorker.run *)

Stored(rec)    == {f \in Files : rec.stored[f] # NotStored}
NotFiled(rec)  == Files \ Stored(rec)
AllStored(rec) == NotFiled(rec) = {}

\* How a record ends up when some file stays out of the library.
ShortStatus(rec) == IF Stored(rec) # {} THEN "PARTIAL" ELSE "FAILED"

\* sites.get returns.  A record already filed ends the job; PARTIAL and FAILED
\* do not.
RunRead(k) ==
    LET s == run[k].site IN
    /\ run[k].phase = "reading"
    /\ \/ /\ record[s].status \in {"NONE", "COMPLETED"}
          /\ Release(k)
       \/ /\ record[s].status \notin {"NONE", "COMPLETED"}
          /\ run' = [run EXCEPT
                       ![k].phase = "claiming",
                       ![k].rec = [record[s] EXCEPT !.attempts = @ + 1,
                                                    !.status = "PROCESSING"]]
          /\ UNCHANGED queue
    /\ UNCHANGED <<mode, intake, durable, timers, request, abandoned, spent>>

\* Mutant: files already in the library are not filtered out.
Pending_All(s, rec) == staging[s]

\* The files pendingUploads returns: not in the library, and still staged.
Pending(s, rec) == NotFiled(rec) \cap staging[s]

\* The PROCESSING record is saved and the upload list is built.  With nothing
\* left to upload although files are missing, the run gives the record up.
RunClaim(k) ==
    LET s == run[k].site
        rec == run[k].rec
    IN
    /\ run[k].phase = "claiming"
    /\ record' = [record EXCEPT ![s] = rec]
    /\ \/ /\ Pending(s, rec) = {} /\ NotFiled(rec) # {}
          /\ run' = [run EXCEPT
                       ![k].phase = "settling",
                       ![k].rec = [rec EXCEPT !.status = ShortStatus(rec),
                                              !.retryAvailable = FALSE]]
       \/ /\ Pending(s, rec) # {} \/ NotFiled(rec) = {}
          /\ run' = [run EXCEPT ![k].phase = "syncing",
                                ![k].todo = Pending(s, rec)]
    /\ UNCHANGED <<mode, intake, staging, library, queue, timers, request,
                   abandoned, spent>>

\* Mutant: the status is decided before the sync result is folded in.
Outcome_StatusFirst(rec, folder, synced) ==
    [rec EXCEPT
       !.folder = folder,
       !.stored = [f \in Files |-> IF f \in synced THEN folder ELSE @[f]],
       !.retryAvailable = ~AllStored(rec),
       !.status = IF AllStored(rec) THEN "COMPLETED"
                  ELSE IF rec.attempts >= MaxAttempts THEN ShortStatus(rec)
                  ELSE "PROCESSING"]

\* Mutant: the file list is rebuilt from this sync alone.
Outcome_Forgets(rec, folder, synced) ==
    LET filed == [rec EXCEPT
                    !.folder = folder,
                    !.stored = [f \in Files |-> IF f \in synced THEN folder ELSE NotStored]]
    IN IF AllStored(filed)
       THEN [filed EXCEPT !.status = "COMPLETED", !.retryAvailable = FALSE]
       ELSE IF filed.attempts >= MaxAttempts
       THEN [filed EXCEPT !.status = ShortStatus(filed), !.retryAvailable = TRUE]
       ELSE [filed EXCEPT !.status = "PROCESSING", !.retryAvailable = TRUE]

\* applySyncResult and the status that follows from it.
Outcome(rec, folder, synced) ==
    LET filed == [rec EXCEPT
                    !.folder = folder,
                    !.stored = [f \in Files |-> IF f \in synced THEN folder ELSE @[f]]]
    IN IF AllStored(filed)
       THEN [filed EXCEPT !.status = "COMPLETED", !.retryAvailable = FALSE]
       ELSE IF filed.attempts >= MaxAttempts
       THEN [filed EXCEPT !.status = ShortStatus(filed), !.retryAvailable = TRUE]
       ELSE [filed EXCEPT !.status = "PROCESSING", !.retryAvailable = TRUE]

----------------------------------------------------------------------------
(* SharePointService.syncSubmission, under the operation lock *)

LockFree == \A k \in Slots : run[k].phase # "uploading"

FolderEmpty(s, n) == \A f \in Files : n \notin library[s][f]

\* avoidCollision: the planned folder if nothing was filed there, otherwise
\* the first suffix whose folder is empty.
Destination(s, n) ==
    /\ FolderEmpty(s, n)
    /\ \A m \in Folders : m < n => ~FolderEmpty(s, m)

SyncStart(k) ==
    /\ run[k].phase = "syncing"
    /\ LockFree
    /\ \E n \in Folders :
          /\ Destination(run[k].site, n)
          /\ run' = [run EXCEPT ![k].phase = "uploading",
                                ![k].folder = n,
                                ![k].landed = {}]
    /\ UNCHANGED <<mode, intake, durable, queue, timers, request, abandoned, spent>>

\* The folder or its metadata cannot be written: every file is reported failed.
SyncFails(k) ==
    /\ run[k].phase = "syncing"
    /\ LockFree
    /\ \E n \in Folders :
          /\ Destination(run[k].site, n)
          /\ run' = [run EXCEPT ![k].phase = "settling",
                                ![k].rec = Outcome(@, n, {}),
                                ![k].todo = {}]
    /\ UNCHANGED <<mode, intake, durable, queue, timers, request, abandoned, spent>>

\* The upload loop tries the files in the order of the record.
NextFile(k, f) ==
    /\ run[k].phase = "uploading"
    /\ f \in run[k].todo
    /\ \A g \in run[k].todo : f <= g

UploadLands(k, f) ==
    /\ NextFile(k, f)
    /\ f \in staging[run[k].site]
    /\ library' = [library EXCEPT ![run[k].site][f] = @ \cup {run[k].folder}]
    /\ run' = [run EXCEPT ![k].todo = @ \ {f}, ![k].landed = @ \cup {f}]
    /\ UNCHANGED <<mode, intake, record, staging, queue, timers, request,
                   abandoned, spent>>

\* The upload fails, or the staged copy has gone; the loop goes on.
UploadFails(k, f) ==
    /\ NextFile(k, f)
    /\ run' = [run EXCEPT ![k].todo = @ \ {f}]
    /\ UNCHANGED <<mode, intake, durable, queue, timers, request, abandoned, spent>>

\* The file reaches the library but the answer does not come back.
UploadReplyLost(k, f) ==
    /\ NextFile(k, f)
    /\ f \in staging[run[k].site]
    /\ Spend("reply")
    /\ library' = [library EXCEPT ![run[k].site][f] = @ \cup {run[k].folder}]
    /\ run' = [run EXCEPT ![k].todo = @ \ {f}]
    /\ UNCHANGED <<mode, intake, record, staging, queue, timers, request, abandoned>>

\* A rule or flow of the library takes away a file that has just landed,
\* before the listing.  What it may do later the server never looks at.
FlowTakes(k, f) ==
    /\ run[k].phase = "uploading"
    /\ f \in run[k].landed
    /\ run[k].folder \in library[run[k].site][f]
    /\ Spend("flow")
    /\ library' = [library EXCEPT ![run[k].site][f] = @ \ {run[k].folder}]
    /\ UNCHANGED <<mode, intake, record, staging, queue, run, timers, request,
                   abandoned>>

\* Mutant: a successful upload call is taken as proof.
Seen_Unchecked(k) == run[k].landed

\* verifyStored: what a listing of the destination shows of the landed files.
Seen(k) == {f \in run[k].landed : run[k].folder \in library[run[k].site][f]}

\* The loop is over and the files of synced are reported stored.
Report(k, synced) ==
    /\ run[k].phase = "uploading"
    /\ run[k].todo = {}
    /\ run' = [run EXCEPT ![k].phase = "settling",
                          ![k].rec = Outcome(@, run[k].folder, synced),
                          ![k].landed = {}]
    /\ UNCHANGED <<mode, intake, durable, queue, timers, request, abandoned>>

SyncReturns(k) == Report(k, Seen(k)) /\ UNCHANGED spent

\* The listing fails: what the upload calls said is reported unchecked.
SyncReturnsUnchecked(k) ==
    /\ run[k].landed # {}
    /\ Spend("listing")
    /\ Report(k, run[k].landed)

----------------------------------------------------------------------------
(* The end of a run *)

RunSettle(k) ==
    /\ run[k].phase = "settling"
    /\ record' = [record EXCEPT ![run[k].site] = run[k].rec]
    /\ run' = [run EXCEPT ![k].phase = "settled"]
    /\ UNCHANGED <<mode, intake, staging, library, queue, timers, request,
                   abandoned, spent>>

\* Mutant: no retry timer is set.
RunDone_NoTimer(k) ==
    LET s == run[k].site
        status == run[k].rec.status
    IN
    /\ run[k].phase = "settled"
    /\ staging' = IF status = "COMPLETED" THEN [staging EXCEPT ![s] = {}] ELSE staging
    /\ Release(k)
    /\ UNCHANGED <<mode, intake, record, library, timers, request, abandoned, spent>>

\* Mutant: the staged copies go with every terminal status.
RunDone_AlwaysCleans(k) ==
    LET s == run[k].site
        status == run[k].rec.status
    IN
    /\ run[k].phase = "settled"
    /\ staging' = IF status = "PROCESSING" THEN staging ELSE [staging EXCEPT ![s] = {}]
    /\ timers' = IF status = "PROCESSING" THEN [timers EXCEPT ![s] = @ + 1] ELSE timers
    /\ Release(k)
    /\ UNCHANGED <<mode, intake, record, library, request, abandoned, spent>>

\* After the audit append: a filed submission's staged copies are removed, an
\* unfinished one gets a retry timer, a given-up one is mailed to a human.
RunDone(k) ==
    LET s == run[k].site
        status == run[k].rec.status
    IN
    /\ run[k].phase = "settled"
    /\ staging' = IF status = "COMPLETED" THEN [staging EXCEPT ![s] = {}] ELSE staging
    /\ timers' = IF status = "PROCESSING" THEN [timers EXCEPT ![s] = @ + 1] ELSE timers
    /\ Release(k)
    /\ UNCHANGED <<mode, intake, record, library, request, abandoned, spent>>

\* A store call of the run rejects: the job is dropped (its mail says FAILED)
\* and no retry is scheduled.  A rejected save may have been applied.
RunThrows(k) ==
    LET s == run[k].site IN
    /\ run[k].phase \in {"reading", "claiming", "settling"}
    /\ Spend("store")
    /\ \/ UNCHANGED record
       \/ /\ run[k].phase # "reading"
          /\ record' = [record EXCEPT ![s] = run[k].rec]
    /\ abandoned' = abandoned \cup {s}
    /\ Release(k)
    /\ UNCHANGED <<mode, intake, staging, library, timers, request>>

\* Timers outlive the status of the record they were set for.  One that fires
\* while the process stops finds enqueue closed.
TimerFires(s) ==
    /\ mode # "down"
    /\ timers[s] > 0
    /\ timers' = [timers EXCEPT ![s] = @ - 1]
    /\ Enqueue(s)
    /\ UNCHANGED <<mode, intake, durable, request, abandoned, spent>>

----------------------------------------------------------------------------
(* POST /sites/:id/retry *)

RetryRead(s) ==
    /\ mode = "up"
    /\ request[s].status = "NONE"
    /\ record[s].status # "NONE"
    /\ Spend("retry")
    /\ request' = [request EXCEPT ![s] = record[s]]
    /\ UNCHANGED <<mode, intake, durable, queue, run, timers, abandoned>>

RetrySave(s) ==
    /\ request[s].status # "NONE"
    /\ record' = [record EXCEPT
                    ![s] = [request[s] EXCEPT !.attempts = 0, !.status = "QUEUED"]]
    /\ request' = [request EXCEPT ![s] = NoRecord]
    /\ Enqueue(s)
    /\ UNCHANGED <<mode, intake, staging, library, timers, abandoned, spent>>

----------------------------------------------------------------------------
(* The process *)

\* SIGTERM: shutdown() closes the queue and clears it and the timers.
Shutdown ==
    /\ mode = "up"
    /\ Spend("crash")
    /\ mode' = "stopping"
    /\ queue' = << >>
    /\ timers' = [s \in Sites |-> 0]
    /\ UNCHANGED <<intake, durable, run, request, abandoned>>

\* What the process loses when it ends: everything that is not durable.
LoseMemory ==
    /\ mode' = "down"
    /\ queue' = << >>
    /\ run' = [k \in Slots |-> IdleRun]
    /\ timers' = [s \in Sites |-> 0]
    /\ request' = [s \in Sites |-> NoRecord]
    /\ abandoned' = {}
    /\ intake' = [s \in Sites |-> IF intake[s] = "saved" THEN "cut" ELSE intake[s]]
    /\ UNCHANGED durable

Crash ==
    /\ mode = "up"
    /\ Spend("crash")
    /\ LoseMemory

\* server.close's callback or the ten second timer exits, mid-run or not.
Exit ==
    /\ mode = "stopping"
    /\ LoseMemory
    /\ UNCHANGED spent

Unfinished == {s \in Sites : record[s].status \in OpenStatuses}

\* Mutant: a record that was being processed is not work still owed.
Recovered_QueuedOnly == {s \in Unfinished : record[s].status = "QUEUED"}

\* The Table store pages newest first and stops at the limit.
Recovered == {s \in Unfinished :
                 Cardinality({t \in Unfinished : t > s}) < RecoverLimit}

\* The recovered records, oldest first.
RecoveryOrders ==
    {q \in [1..Cardinality(Recovered) -> Recovered] :
        /\ \A i, j \in DOMAIN q : i < j => q[i] < q[j]
        /\ \A s \in Recovered : \E i \in DOMAIN q : q[i] = s}

\* recoverPending enqueues them one after another before any of them runs.
Boot ==
    /\ mode = "down"
    /\ mode' = "up"
    /\ \E q \in RecoveryOrders :
          /\ run' = [k \in Slots |-> IF k <= Len(q) THEN StartedRun(q[k]) ELSE IdleRun]
          /\ queue' = SubSeq(q, Concurrency + 1, Len(q))
    /\ UNCHANGED <<intake, durable, timers, request, abandoned, spent>>

\* listUnfinished rejects: the server starts all the same, with nothing queued.
BootBlind ==
    /\ mode = "down"
    /\ Spend("store")
    /\ mode' = "up"
    /\ abandoned' = Unfinished
    /\ UNCHANGED <<intake, durable, queue, run, timers, request>>

----------------------------------------------------------------------------
Sync(k) ==
    \/ SyncStart(k)
    \/ SyncFails(k)
    \/ \E f \in Files : UploadLands(k, f) \/ UploadFails(k, f) \/ UploadReplyLost(k, f)
    \/ SyncReturns(k)
    \/ SyncReturnsUnchecked(k)

\* What the server does of itself once it has a job in slot k.
RunStep(k) ==
    \/ RunRead(k)
    \/ RunClaim(k)
    \/ Sync(k)
    \/ RunSettle(k)
    \/ RunDone(k)

Next ==
    \/ \E s \in Sites : IntakeAccept(s) \/ IntakeFails(s) \/ IntakeAnswer(s)
    \/ \E k \in Slots : RunStep(k) \/ RunThrows(k)
    \/ \E k \in Slots, f \in Files : FlowTakes(k, f)
    \/ \E s \in Sites : TimerFires(s) \/ RetryRead(s) \/ RetrySave(s)
    \/ Shutdown \/ Crash \/ Exit \/ Boot \/ BootBlind

Spec == Init /\ [][Next]_vars

(***************************************************************************)
(* Fairness: promises and timers settle and the event loop goes on, an     *)
(* upload either ends or is aborted by fetch's own header and body         *)
(* timeouts, the process that got SIGTERM exits and the platform restarts  *)
(* it.  Nothing makes a request arrive, an upload succeed or a fault       *)
(* happen, and an administrator may never press the button.                *)
(***************************************************************************)
Fairness ==
    /\ \A s \in Sites : WF_vars(IntakeAnswer(s)) /\ WF_vars(TimerFires(s))
                        /\ WF_vars(RetrySave(s))
    /\ \A k \in Slots : WF_vars(RunStep(k))
    /\ WF_vars(Exit)
    /\ WF_vars(Boot \/ BootBlind)

FairSpec == Spec /\ Fairness

----------------------------------------------------------------------------
(* Properties *)

\* While the server takes work, an unfinished record is owed a next step: it
\* is queued, running, waiting for its timer or about to be queued by its
\* request.  Only a rejected store call may leave one behind, and then only
\* until the next boot.
WorkIsOwed ==
    mode = "up" =>
        \A s \in Unfinished :
            \/ s \in Queued \cup Running \cup abandoned
            \/ timers[s] > 0
            \/ intake[s] = "saved"

\* verifyStored passes over a listing that fails.  That hides a loss only if a
\* flow also took a file away; Verified says that not both have happened.
Verified == spent["flow"] = 0 \/ spent["listing"] = 0

\* The store never says that a file is in a folder it is not in, whatever was
\* saved over what: stale snapshots, lost answers, flows, crashes.
RecordedFilesAreStored ==
    Verified =>
        \A s \in Sites, f \in Files :
            record[s].stored[f] # NotStored => record[s].stored[f] \in library[s][f]

\* Accepted submissions: accept has recorded them and did not report an error.
Accepted == {s \in Sites : intake[s] \in {"saved", "answered", "cut"}}

\* Each file of an accepted submission is on the staging disk or in the
\* library: the staged copies go only when all of them are filed.
AcceptedFilesSurvive ==
    Verified =>
        \A s \in Accepted, f \in Files : f \in staging[s] \/ library[s][f] # {}

\* A terminal status says exactly how much of the submission is in the
\* library, also for a record that several attempts and retries have written.
StatusMatchesFiles ==
    \A s \in Sites :
        /\ record[s].status = "COMPLETED" => AllStored(record[s])
        /\ record[s].status = "PARTIAL" => Stored(record[s]) \notin {{}, Files}
        /\ record[s].status = "FAILED" => Stored(record[s]) = {}

\* A file gets a second copy in the library only where a fault (a crash, a
\* rejected save, a lost answer) or a manual retry separated the upload from
\* its record, and then only one more copy each time.
Mishaps == spent["crash"] + spent["store"] + spent["reply"] + spent["retry"]
DuplicatesNeedMishaps ==
    \A s \in Sites, f \in Files : Cardinality(library[s][f]) <= 1 + Mishaps

\* What the store has recorded as filed stays recorded, in the same place: no
\* run forgets what an earlier one filed.  Only the save of a manual retry,
\* which writes back what it read before, may forget.
FilingIsKept ==
    [][\A s \in Sites, f \in Files :
          record[s].stored[f] # NotStored =>
             \/ record'[s].stored[f] = record[s].stored[f]
             \/ request[s].status # "NONE"]_vars

\* Each accepted submission is settled in the end: filed, or given up and left
\* to a human, unless a store error dropped its job.
EverySubmissionSettles ==
    \A s \in Sites :
        s \in Accepted ~> record[s].status \in TerminalStatuses \/ s \in abandoned

----------------------------------------------------------------------------
(* What comments of the source say and the code does not do *)

\* worker.ts:94 says of the upload list: "Files already in the library are
\* skipped, so a retry never duplicates them."  The list knows a file that is
\* in the library only by the record, which is saved after the whole sync.
NoFileIsDuplicated ==
    \A s \in Sites, f \in Files : Cardinality(library[s][f]) <= 1

\* sharepoint-service.ts:461 says of the folder of an attempt: "Numbering
\* continues from whatever the folder already holds - a retry, ...", and
\* types.ts:133 of folderPath: "Classification folder the submission was filed
\* under."  avoidCollision takes the files of the first attempt for those of
\* another submission and sends the retry to a folder of its own.
OneFolderPerSubmission ==
    \A s \in Sites : Cardinality(UNION {library[s][f] : f \in Files}) <= 1

\* sharepoint-service.ts:508: "nothing is reported as stored until it has been
\* seen in the destination."  A listing that fails is passed over, and the
\* files are reported stored as the upload calls left them.
StoredMeansSeen ==
    \A s \in Sites, f \in Files :
        record[s].stored[f] # NotStored => record[s].stored[f] \in library[s][f]

\* types.ts:103: "A terminal state means the background worker is finished
\* with the record."  Only the administrator's retry reopens one.  A timer set
\* before a manual retry fires after the retry has been given up.
TerminalIsFinal ==
    [][\A s \in Sites :
          /\ record[s].status \in TerminalStatuses
          /\ record'[s].status \notin TerminalStatuses
          => request[s].status # "NONE"]_vars

\* types.ts:139 says of retryAvailable: "Set while attachments remain staged
\* on disk awaiting a retry."  The save of a manual retry writes back a flag it
\* read before the worker filed the submission and removed its staged copies.
RetryMeansStaged ==
    \A s \in Sites : record[s].retryAvailable => staging[s] # {}

----------------------------------------------------------------------------
(***************************************************************************)
(* The pipeline implements FilingPromise.  A submission is what its record *)
(* says once it has been accepted, provided the record can be believed:    *)
(* COMPLETED with a file missing from the library, or a given-up record    *)
(* with a file that is neither staged nor in the library, is "broken",     *)
(* which no state of FilingPromise allows.                                 *)
(***************************************************************************)
Kept(s)  == \A f \in Files : f \in staging[s] \/ library[s][f] # {}
Filed(s) == \A f \in Files : library[s][f] # {}

PromiseOf(s) ==
    CASE s \notin Accepted -> "none"
      [] s \in Accepted \cap Unfinished -> "owed"
      [] s \in Accepted /\ record[s].status = "COMPLETED" ->
            IF Filed(s) THEN "filed" ELSE "broken"
      [] s \in Accepted /\ record[s].status \in {"PARTIAL", "FAILED"} ->
            IF Kept(s) THEN "short" ELSE "broken"

Promise == INSTANCE FilingPromise
              WITH Submissions <- Sites, promise <- [s \in Sites |-> PromiseOf(s)]

\* Seen through PromiseOf, every behaviour keeps the promise made to the
\* submitter, its liveness included.
KeepsPromise == Promise!Spec
=============================================================================
