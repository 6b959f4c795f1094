---------------------------- MODULE LibrarySync ----------------------------
(***************************************************************************)
(* SharePointService.syncSubmission: how the files of several submissions  *)
(* of one building and day, which the folder rule sends to one and the     *)
(* same planned folder, get into the document library.  Syncs take turns   *)
(* under the operation lock.  A sync looks for a folder, marks it with the *)
(* metadata sidecar, counts the numbers in use, uploads file after file    *)
(* under the next number and reads the folder back.                        *)
(*                                                                         *)
(* A step is one call to the library with the code that follows it.  The   *)
(* service asks for this.client at every call, so an administrator's       *)
(* choice of another target shows at the next call of a sync under way.    *)
(*                                                                         *)
(* What is abstracted: a folder is its collision suffix (0 is the planned  *)
(* folder), a name its number (files of one kind; the other kinds count    *)
(* apart), a content its submission and file.  Contents are told apart by  *)
(* their size, which is what verifyStored compares.  Folder creation never *)
(* clashes (a 409 is taken for success) and goes with the sidecar's call.  *)
(***************************************************************************)
EXTENDS Integers, Sequences, FiniteSets

CONSTANTS
    NSites,      \* submissions that share the planned folder
    NFiles,      \* files of a submission
    MaxSuffix,   \* suffixed folder names: 99, or fewer once maxSegmentLength cuts them
    MaxNumber,   \* the largest number the model gives to a file
    Drives,      \* the places syncs can go to
    TestRoot,    \* the one on local disk, used while no client is configured
    HasSidecar,  \* whether the rule names a metadata file
    MaxTries,    \* syncs of one submission
    Budget,      \* how often each kind of rare event may happen
    MaxKinds     \* of how many kinds events may happen in one behaviour

EventKinds == {"listing", "call", "reply", "flow", "hand", "switch", "crash"}

ASSUME ConstantsAssumption ==
    /\ NSites \in Nat
    /\ NFiles \in Nat
    /\ MaxSuffix \in Nat
    /\ MaxNumber \in Nat
    /\ TestRoot \in Drives
    /\ HasSidecar \in BOOLEAN
    /\ MaxTries \in Nat
    /\ Budget \in [EventKinds -> Nat]
    /\ MaxKinds \in Nat

Sites   == 1..NSites
Files   == 1..NFiles
Folders == 0..MaxSuffix
Numbers == 1..MaxNumber

NoSite      == 0
NoNumber    == 0
SidecarName == 0          \* the name of the metadata file among the numbers
Nothing     == <<0, 0>>   \* no item has this name
ByHand      == <<0, 1>>   \* a file a person put there
NotFiled    == <<0, 0>>   \* no folder and number are recorded

Contents == (Sites \X Files) \cup {Nothing, ByHand}

\* Drives that Graph serves.
Live(d) == d # TestRoot

(***************************************************************************)
(* The sync that holds the lock.  folder is the candidate being looked at, *)
(* later the folder chosen; live is the kind of upload picked at the start.*)
(***************************************************************************)
Phases == {"idle", "choosing", "preparing", "counting", "uploading"}

Job == [ phase  : Phases,
         site   : Sites \cup {NoSite},
         live   : BOOLEAN,
         folder : Folders,
         last   : Nat,                              \* sequence[kind]
         todo   : SUBSET Files,
         landed : [Files -> Numbers \cup {NoNumber}] ]  \* synced

NoneLanded == [f \in Files |-> NoNumber]

IdleJob == [ phase |-> "idle", site |-> NoSite, live |-> FALSE, folder |-> 0,
             last |-> 0, todo |-> {}, landed |-> NoneLanded ]

VARIABLES
    drive,    \* where this.client points
    files,    \* per drive, folder and number, the content stored there
    sidecar,  \* per drive and folder, the submission its sidecar describes
    waiting,  \* the chain of operationTail; its head holds the lock
    job,      \* what the head is doing
    filed,    \* per submission and file, folder and number as recorded
    tries,    \* per submission, the syncs asked for
    torn,     \* a change of target has met a sync under way
    spent     \* events of each kind so far

vars == <<drive, files, sidecar, waiting, job, filed, tries, torn, spent>>

library == <<files, sidecar>>

TypeOK ==
    /\ drive \in Drives
    /\ files \in [Drives -> [Folders -> [Numbers -> Contents]]]
    /\ sidecar \in [Drives -> [Folders -> Sites \cup {NoSite}]]
    /\ waiting \in Seq(Sites)
    /\ job \in Job
    /\ filed \in [Sites -> [Files -> (Folders \X Numbers) \cup {NotFiled}]]
    /\ tries \in [Sites -> Nat]
    /\ torn \in BOOLEAN
    /\ spent \in [EventKinds -> Nat]

Init ==
    /\ drive \in Drives
    /\ files = [d \in Drives |-> [fo \in Folders |-> [n \in Numbers |-> Nothing]]]
    /\ sidecar = [d \in Drives |-> [fo \in Folders |-> NoSite]]
    /\ waiting = << >>
    /\ job = IdleJob
    /\ filed = [s \in Sites |-> [f \in Files |-> NotFiled]]
    /\ tries = [s \in Sites |-> 0]
    /\ torn = FALSE
    /\ spent = [e \in EventKinds |-> 0]

Spend(e) ==
    /\ spent[e] < Budget[e]
    /\ Cardinality({k \in EventKinds : spent[k] > 0} \cup {e}) <= MaxKinds
    /\ spent' = [spent EXCEPT ![e] = @ + 1]

Waiting   == {waiting[i] : i \in DOMAIN waiting}
Owing(s)  == {f \in Files : filed[s][f] = NotFiled}

----------------------------------------------------------------------------
(* The lock *)

\* A run of the worker asks for a sync of the files it has not recorded.
Request(s) ==
    /\ s \notin Waiting
    /\ Owing(s) # {}
    /\ tries[s] < MaxTries
    /\ tries' = [tries EXCEPT ![s] = @ + 1]
    /\ waiting' = Append(waiting, s)
    /\ UNCHANGED <<drive, library, job, filed, torn, spent>>

\* The sync throws: all its files are reported failed and the lock released.
Abort ==
    /\ job' = IdleJob
    /\ waiting' = Tail(waiting)
    /\ UNCHANGED filed

----------------------------------------------------------------------------
(* Choosing the folder *)

\* What a listing of folder fo shows at this moment.
Listing(fo) ==
    {n \in Numbers : files[drive][fo][n] # Nothing}
        \cup (IF sidecar[drive][fo] # NoSite THEN {SidecarName} ELSE {})

\* The job as it is before its next listing of a candidate.
Chooser ==
    IF job.phase = "choosing" THEN job
    ELSE [IdleJob EXCEPT !.phase = "choosing",
                         !.site = Head(waiting),
                         !.live = Live(drive),
                         !.todo = Owing(Head(waiting))]

\* A sidecar alone does not make the planned folder count as used, although
\* it does for a suffixed one.
Taken(fo, names) == IF fo = 0 THEN names \ {SidecarName} # {} ELSE names # {}

\* Mutant: the last suffix is never tried.
Chosen_OffByOne(j, names) ==
    IF ~Taken(j.folder, names) THEN [j EXCEPT !.phase = "preparing"]
    ELSE IF j.folder + 1 < MaxSuffix THEN [j EXCEPT !.folder = @ + 1]
    ELSE [j EXCEPT !.phase = "preparing", !.folder = 0]

\* avoidCollision, one candidate: take it, go on to the next suffix, or fall
\* back on the planned folder when there is none left.
Chosen(j, names) ==
    IF ~Taken(j.folder, names) THEN [j EXCEPT !.phase = "preparing"]
    ELSE IF j.folder < MaxSuffix THEN [j EXCEPT !.folder = @ + 1]
    ELSE [j EXCEPT !.phase = "preparing", !.folder = 0]

Choosing ==
    /\ waiting # << >>
    /\ job.phase \in {"idle", "choosing"}
    /\ UNCHANGED <<drive, library, waiting, filed, tries, torn>>

ChooseFolder ==
    /\ Choosing
    /\ job' = Chosen(Chooser, Listing(Chooser.folder))
    /\ UNCHANGED spent

\* existingNames takes a folder it cannot list for an empty one.
ChooseBlind ==
    /\ Choosing
    /\ Spend("listing")
    /\ job' = Chosen(Chooser, {})

----------------------------------------------------------------------------
(* Preparing the folder: ensureFolderPath and the metadata sidecar *)

\* Mutant: the sidecar is written with conflictBehavior=replace.
SidecarClashes_Never == FALSE

\* uploadContent asks Graph to fail on a name in use; writeFileSync does not.
SidecarClashes == Live(drive) /\ sidecar[drive][job.folder] # NoSite

Mark == sidecar' = [sidecar EXCEPT ![drive][job.folder] = job.site]

PrepareFolder ==
    /\ job.phase = "preparing"
    /\ \/ /\ HasSidecar /\ SidecarClashes
          /\ Abort
          /\ UNCHANGED sidecar
       \/ /\ HasSidecar => ~SidecarClashes
          /\ IF HasSidecar THEN Mark ELSE UNCHANGED sidecar
          /\ job' = [job EXCEPT !.phase = "counting"]
          /\ UNCHANGED <<waiting, filed>>
    /\ UNCHANGED <<drive, files, tries, torn, spent>>

\* A call fails: the folder or the sidecar is not there, the sync throws.
PrepareFails ==
    /\ job.phase = "preparing"
    /\ Spend("call")
    /\ Abort
    /\ UNCHANGED <<drive, library, tries, torn>>

\* The sidecar lands but its answer is lost, and fetchWithRetry's second PUT
\* meets the first one's file.
PrepareReplyLost ==
    /\ job.phase = "preparing"
    /\ HasSidecar /\ Live(drive) /\ ~SidecarClashes
    /\ Spend("reply")
    /\ Mark
    /\ Abort
    /\ UNCHANGED <<drive, files, tries, torn>>

----------------------------------------------------------------------------
(* Numbering and uploading *)

\* nextSequences: n is the highest number in use.
Highest(n, names) == n \in names \cup {0} /\ \A m \in names : m <= n

Count(names) ==
    /\ job.phase = "counting"
    /\ \E n \in Numbers \cup {0} :
          /\ Highest(n, names)
          /\ job' = [job EXCEPT !.phase = "uploading", !.last = n]
    /\ UNCHANGED <<drive, library, waiting, filed, tries, torn>>

CountNames == Count(Listing(job.folder)) /\ UNCHANGED spent

CountBlind == Spend("listing") /\ Count({})

\* The loop of syncSubmission tries its files in order.
NextFile(f) ==
    /\ job.phase = "uploading"
    /\ f \in job.todo
    /\ \A g \in job.todo : f <= g

Number == job.last + 1

\* Where this upload would go.
Target == IF job.live THEN drive ELSE TestRoot

\* Mutant: the upload replaces what has the name.
NameIsFree_Always == job.live => Live(drive)

\* Graph refuses a name in use, copyFile overwrites it.  An upload picked for
\* Graph has no client to go to once the target is the local disk.
NameIsFree ==
    job.live => Live(drive) /\ files[drive][job.folder][Number] = Nothing

\* Mutant: a name that is refused is tried again.
Tried_Again(f, got) ==
    /\ job' = IF got = NoNumber THEN job
              ELSE [job EXCEPT !.last = Number,
                               !.todo = @ \ {f},
                               !.landed[f] = got]
    /\ UNCHANGED <<drive, sidecar, waiting, filed, tries, torn>>

\* The loop goes on after file f, which got the number got or failed.
Tried(f, got) ==
    /\ job' = [job EXCEPT !.last = Number,
                          !.todo = @ \ {f},
                          !.landed[f] = got]
    /\ UNCHANGED <<drive, sidecar, waiting, filed, tries, torn>>

Store(f) ==
    /\ Number \in Numbers
    /\ NameIsFree
    /\ files' = [files EXCEPT ![Target][job.folder][Number] = <<job.site, f>>]

UploadLands(f) ==
    /\ NextFile(f)
    /\ Store(f)
    /\ Tried(f, Number)
    /\ UNCHANGED spent

UploadRefused(f) ==
    /\ NextFile(f)
    /\ Number \in Numbers
    /\ ~NameIsFree
    /\ Tried(f, NoNumber)
    /\ UNCHANGED <<files, spent>>

UploadFails(f) ==
    /\ NextFile(f)
    /\ Spend("call")
    /\ Tried(f, NoNumber)
    /\ UNCHANGED files

UploadReplyLost(f) ==
    /\ NextFile(f)
    /\ job.live
    /\ Spend("reply")
    /\ Store(f)
    /\ Tried(f, NoNumber)

----------------------------------------------------------------------------
(* Reading the folder back *)

\* Mutant: verification is by name alone.
Seen_ByName ==
    {f \in Files : /\ job.landed[f] # NoNumber
                   /\ files[drive][job.folder][job.landed[f]] # Nothing}

\* verifyStored: name and size as they were sent.
Seen ==
    {f \in Files : /\ job.landed[f] # NoNumber
                   /\ files[drive][job.folder][job.landed[f]] = <<job.site, f>>}

\* The sync returns and the lock is released; the files of synced are stored.
Return(synced) ==
    /\ job.phase = "uploading"
    /\ job.todo = {}
    /\ filed' = [filed EXCEPT
                   ![job.site] = [f \in Files |->
                       IF f \in synced THEN <<job.folder, job.landed[f]>> ELSE @[f]]]
    /\ job' = IdleJob
    /\ waiting' = Tail(waiting)
    /\ UNCHANGED <<drive, library, tries, torn>>

Landed == {f \in Files : job.landed[f] # NoNumber}

Confirm == Return(Seen) /\ UNCHANGED spent

\* The listing fails: the upload calls are believed.
ConfirmBlind == Landed # {} /\ Spend("listing") /\ Return(Landed)

----------------------------------------------------------------------------
(* The library's users, rules and flows, the administrator, the process *)

\* A flow acts on a file that has just landed: it takes it away or gives it
\* a name of its own choice, be it that of another file of this upload.
FlowActs(f) ==
    /\ f \in Landed
    /\ Spend("flow")
    /\ \E d \in Drives :
          /\ Live(d)
          /\ files[d][job.folder][job.landed[f]] = <<job.site, f>>
          /\ \/ files' = [files EXCEPT ![d][job.folder][job.landed[f]] = Nothing]
             \/ \E g \in Landed \ {f} :
                   /\ files[d][job.folder][job.landed[g]] \in {Nothing, <<job.site, g>>}
                   /\ files' = [files EXCEPT ![d][job.folder][job.landed[f]] = Nothing,
                                          ![d][job.folder][job.landed[g]] = <<job.site, f>>]
    /\ UNCHANGED <<drive, sidecar, waiting, job, filed, tries, torn>>

\* Somebody puts a file into a folder, under a name like those of the rule.
HandAdds(fo, n) ==
    /\ files[drive][fo][n] = Nothing
    /\ n <= NFiles
    /\ Spend("hand")
    /\ files' = [files EXCEPT ![drive][fo][n] = ByHand]
    /\ UNCHANGED <<drive, sidecar, waiting, job, filed, tries, torn>>

\* setStorageTarget takes no lock.
SwitchTarget(d) ==
    /\ d # drive
    /\ Spend("switch")
    /\ drive' = d
    /\ torn' = (torn \/ job.phase # "idle")
    /\ UNCHANGED <<library, waiting, job, filed, tries>>

\* The process ends and starts again: the lock and the sync are gone.
Crash ==
    /\ waiting # << >>
    /\ Spend("crash")
    /\ waiting' = << >>
    /\ job' = IdleJob
    /\ UNCHANGED <<drive, library, filed, tries, torn>>

----------------------------------------------------------------------------
\* One step of the sync that holds the lock, when no call fails.
SyncStep ==
    \/ ChooseFolder \/ PrepareFolder \/ CountNames
    \/ \E f \in Files : UploadLands(f) \/ UploadRefused(f)
    \/ Confirm

Next ==
    \/ \E s \in Sites : Request(s)
    \/ SyncStep
    \/ ChooseBlind \/ PrepareFails \/ PrepareReplyLost \/ CountBlind \/ ConfirmBlind
    \/ \E f \in Files : UploadFails(f) \/ UploadReplyLost(f) \/ FlowActs(f)
    \/ \E fo \in Folders, n \in Numbers : HandAdds(fo, n)
    \/ \E d \in Drives : SwitchTarget(d)
    \/ Crash

Spec == Init /\ [][Next]_vars

\* Calls to Graph end (fetchWithRetry gives up after MAX_RETRIES) and the event
\* loop goes on.  Nothing makes a sync be asked for or an event happen.
FairSpec == Spec /\ WF_vars(SyncStep)

----------------------------------------------------------------------------
(* Properties *)

\* The submissions with a file in a folder.
Owners(d, fo) == {s \in Sites : \E n \in Numbers, f \in Files : files[d][fo][n] = <<s, f>>}

\* Two submissions never share a folder of a SharePoint drive, whatever
\* listings fail and even when the suffixes run out: the sidecar, written with
\* conflictBehavior=fail, is what keeps them apart.  It needs a rule with a
\* sidecar, and no change of target in the middle of a sync.
FoldersAreNotMixed ==
    HasSidecar /\ ~torn =>
        \A d \in Drives, fo \in Folders :
            Live(d) => \A s, t \in Owners(d, fo) : s = t

\* Nothing that could mislead the numbering has happened.
Undisturbed == spent["listing"] = 0 /\ spent["hand"] = 0 /\ ~torn

\* A sync never replaces what has a name already, be it of another submission
\* or put there by a person.  On a SharePoint drive Graph sees to it; on the
\* local disk the numbering and the lock must, folder shared or not.
NothingIsOverwritten ==
    [][\A d \in Drives, fo \in Folders, n \in Numbers :
          /\ files[d][fo][n] # Nothing
          /\ files'[d][fo][n] # files[d][fo][n]
          => \/ spent'["flow"] > spent["flow"]
             \/ ~Live(d) /\ ~Undisturbed]_vars

\* What has been reported stored is still there, under the recorded name and
\* with its own content, however later syncs reuse, split and number folders.
\* A listing that fails may hide what a flow did, or mislead the numbering of
\* the local disk, which overwrites.
Verified == spent["flow"] = 0 \/ spent["listing"] = 0
DiskUnused == \A fo \in Folders, n \in Numbers : files[TestRoot][fo][n] = Nothing

FiledFilesStay ==
    Verified /\ (DiskUnused \/ Undisturbed) =>
        \A s \in Sites, f \in Files :
            filed[s][f] # NotFiled =>
                \E d \in Drives : files[d][filed[s][f][1]][filed[s][f][2]] = <<s, f>>

\* As long as nothing goes wrong, one sync files all of a submission: folder
\* choice, sidecar and numbering left by earlier submissions never make a later
\* one fail.  Where a sidecar guards the folders there must be one for each
\* submission, the fallback then being of no use.
Calm == \A e \in EventKinds : spent[e] = 0

CalmSyncsFileAll ==
    Calm /\ (HasSidecar /\ Live(drive) => NSites <= MaxSuffix + 1) =>
        \A s \in Sites : tries[s] > 0 /\ s \notin Waiting => Owing(s) = {}

\* Every sync asked for returns: each holder of the lock passes it on, also
\* when it throws, so no submission waits behind another for ever.
SyncsReturn == \A s \in Sites : s \in Waiting ~> s \notin Waiting

----------------------------------------------------------------------------
(* What a comment of the source says and the code does not do *)

\* sharepoint-service.ts:310 says of avoidCollision that the test is whether the
\* folder holds a file, so that an empty folder made beforehand is not left
\* unused for ever.  After a sync whose uploads all failed, the folder holds
\* its sidecar alone: it is chosen again, and the sidecar refuses the sync.
EmptyFolderIsUsed ==
    job.phase = "preparing" /\ HasSidecar /\ SidecarClashes =>
        \E n \in Numbers : files[drive][job.folder][n] # Nothing
=============================================================================
