----------------------- MODULE PipelinePromise_proofs -----------------------
(***************************************************************************)
(* Further theorems about SubmissionPipeline: that no unfinished record is *)
(* left without a next step, and, for the one slot that the worker has     *)
(* unless it is configured otherwise, that nothing recorded is forgotten,  *)
(* that copies in the library are accounted for, and that the pipeline     *)
(* implements the safety half of FilingPromise.                            *)
(***************************************************************************)
EXTENDS SubmissionPipeline_proofs

----------------------------------------------------------------------------
(* Definitions *)

\* The run in slot k will yet write the record of s, or set a timer for it.
WillSeeTo(k, s) ==
    /\ run[k].site = s
    /\ \/ run[k].phase \in {"reading", "claiming", "syncing", "uploading", "settling"}
       \/ run[k].phase = "settled" /\ run[k].rec.status = "PROCESSING"

HasNextStep(s) ==
    \/ s \in Queued \cup abandoned
    \/ timers[s] > 0
    \/ intake[s] = "saved"
    \/ \E k \in Slots : WillSeeTo(k, s)

\* A run that has read its record never saves it as QUEUED.
RunsAreProcessing ==
    \A k \in Slots :
        /\ run[k].phase \in {"claiming", "syncing", "uploading"} => run[k].rec.status = "PROCESSING"
        /\ run[k].phase \in {"settling", "settled"}
           => run[k].rec.status \in {"PROCESSING"} \cup TerminalStatuses

\* A slot that is settled with a terminal status counts in WorkIsOwed, but it has
\* nothing left to do for a record that was reopened meanwhile.
OwedInv ==
    /\ RunsAreProcessing
    /\ mode = "up" => \A s \in Unfinished : HasNextStep(s)

----------------------------------------------------------------------------
\* The run in slot k has a copy of the record that it will save.
Writes(k) == run[k].phase \in {"claiming", "syncing", "uploading", "settling"}

\* What a says is filed, b says is filed in the same place.
Below(a, b) == \A f \in Files : a.stored[f] # NotStored => b.stored[f] = a.stored[f]

\* The copies of a record form a chain: the snapshot of a manual retry knows no
\* more than the store, and the store no more than the run.
CopiesInOrder ==
    /\ \A s \in Sites : request[s].status # "NONE" => Below(request[s], record[s])
    /\ \A k \in Slots : Writes(k) => Below(record[run[k].site], run[k].rec)

\* A run uploads only what its record does not have yet.
UploadsAreNew ==
    \A k \in Slots :
        /\ run[k].phase \in {"syncing", "uploading"} => run[k].todo \cap Stored(run[k].rec) = {}
        /\ run[k].phase = "uploading"
           => run[k].landed \cap (Stored(run[k].rec) \cup run[k].todo) = {}

\* Nothing is known of a submission before its request.
NothingBefore ==
    \A s \in Sites : intake[s] = "idle" =>
        /\ record[s].status = "NONE" /\ Stored(record[s]) = {}
        /\ request[s].status = "NONE"
        /\ \A k \in Slots : Writes(k) => run[k].site # s

\* While a run uploads and reports, the store shows the record as unfinished.
RunsAreOpen ==
    \A k \in Slots : run[k].phase \in {"syncing", "uploading", "settling"}
                     => record[run[k].site].status \in OpenStatuses

OneSlotInv == RunsAreProcessing /\ CopiesInOrder /\ UploadsAreNew /\ NothingBefore /\ RunsAreOpen

----------------------------------------------------------------------------
\* A run in slot k knows of f that it is filed.
RunKnows(k, f) ==
    \/ f \in Stored(run[k].rec)
    \/ /\ run[k].phase = "uploading"
       /\ f \in run[k].landed
       /\ run[k].folder \in library[run[k].site][f]

\* What is known of f is with the run if there is one, otherwise in the store.
Known(s, f) ==
    \/ \E k \in Slots : Writes(k) /\ run[k].site = s /\ RunKnows(k, f)
    \/ f \in Stored(record[s]) /\ \A k \in Slots : Writes(k) => run[k].site # s

\* A manual retry is about to make the store forget f.
Forgetting(s, f) == request[s].status # "NONE" /\ f \notin Stored(request[s])

One(b) == IF b THEN 1 ELSE 0

\* Copies in the library, and those that may come without a further mishap: one
\* if f is not known to be filed, one if a retry may forget it, one if the
\* process is being stopped in the middle.
CopiesAreAccounted ==
    \A s \in Sites, f \in Files :
        Cardinality(library[s][f]) + One(~Known(s, f)) + One(Forgetting(s, f)) + One(mode = "stopping")
        <= 1 + Mishaps

----------------------------------------------------------------------------
(* Queue and slots *)

ItemsOf(q) == {q[i] : i \in DOMAIN q}

LEMMA HeadOrTail ==
    ASSUME NEW q \in Seq(Sites), q # << >>, NEW t \in ItemsOf(q)
    PROVE  t = Head(q) \/ t \in ItemsOf(Tail(q))
<1>1. PICK i \in DOMAIN q : t = q[i]
  BY DEF ItemsOf
<1>2. CASE i = 1
  BY <1>1, <1>2
<1>3. CASE i # 1
  <2>1. i - 1 \in DOMAIN Tail(q) /\ Tail(q)[i - 1] = q[i]
    BY <1>1, <1>3
  <2> QED BY <1>1, <2>1 DEF ItemsOf
<1> QED BY <1>2, <1>3

LEMMA AppendedItems ==
    ASSUME NEW q \in Seq(Sites), NEW s \in Sites
    PROVE  ItemsOf(q) \cup {s} \subseteq ItemsOf(Append(q, s))
<1>1. /\ DOMAIN q \subseteq DOMAIN Append(q, s)
      /\ \A i \in DOMAIN q : Append(q, s)[i] = q[i]
      /\ Len(q) + 1 \in DOMAIN Append(q, s) /\ Append(q, s)[Len(q) + 1] = s
  OBVIOUS
<1> QED BY <1>1 DEF ItemsOf

\* What enqueue makes of the slots, and where the queued submissions are then.
EnqueuesTo(s) ==
    /\ \A k \in Slots : \/ run'[k] = run[k]
                        \/ run[k].phase = "idle" /\ \E t \in Sites : run'[k] = StartedRun(t)
    /\ mode = "up" => \A t \in Queued \cup {s} : t \in Queued' \/ \E k \in Slots : run'[k] = StartedRun(t)

LEMMA EnqueueKeeps ==
    ASSUME TypeOK, NEW s \in Sites, Enqueue(s)
    PROVE  EnqueuesTo(s)
<1> DEFINE longer == Append(queue, s)
<1>0. Queued = ItemsOf(queue) /\ Queued' = ItemsOf(queue')
  BY DEF Queued, ItemsOf
<1>1. queue \in Seq(Sites) /\ longer \in Seq(Sites) /\ longer # << >>
  <2>1. queue \in Seq(Sites)
    BY DEF TypeOK
  <2> QED BY <2>1, AppendProperties
<1>2. Queued \cup {s} \subseteq ItemsOf(longer)
  BY <1>0, <1>1, AppendedItems
<1>3. Head(longer) \in Sites
  BY <1>1, HeadTailProperties
<1>h. \A t \in ItemsOf(longer) : t = Head(longer) \/ t \in ItemsOf(Tail(longer))
  BY <1>1, HeadOrTail
<1> HIDE DEF longer
<1>4. CASE UNCHANGED <<queue, run>> /\ (mode # "up" \/ s \in Queued)
  BY <1>0, <1>4 DEF EnqueuesTo
<1>5. CASE queue' = longer /\ UNCHANGED run
  BY <1>0, <1>2, <1>5 DEF EnqueuesTo
<1>6. ASSUME NEW k \in IdleSlots, run' = [run EXCEPT ![k] = StartedRun(Head(longer))],
             queue' = Tail(longer)
      PROVE  EnqueuesTo(s)
  <2>1. k \in Slots /\ run[k].phase = "idle"
    BY DEF IdleSlots
  <2>2. \A j \in Slots : run'[j] = IF j = k THEN StartedRun(Head(longer)) ELSE run[j]
    BY <1>6 DEF TypeOK
  <2>3. \A t \in Queued \cup {s} : t \in Queued' \/ run'[k] = StartedRun(t)
    BY <1>0, <1>2, <1>6, <1>h, <2>1, <2>2
  <2> QED BY <1>3, <2>1, <2>2, <2>3 DEF EnqueuesTo
<1> QED BY <1>4, <1>5, <1>6 DEF Enqueue, longer

\* What the end of a job makes of its slot and of the queue.
ReleasesTo(k) ==
    /\ \A j \in Slots \ {k} : run'[j] = run[j]
    /\ run'[k] = IdleRun \/ \E t \in Sites : run'[k] = StartedRun(t)
    /\ \A t \in Queued : t \in Queued' \/ run'[k] = StartedRun(t)

LEMMA ReleaseKeeps ==
    ASSUME TypeOK, NEW k \in Slots, Release(k)
    PROVE  ReleasesTo(k)
<1>0. Queued = ItemsOf(queue) /\ Queued' = ItemsOf(queue')
  BY DEF Queued, ItemsOf
<1>1. CASE queue = << >> /\ run' = [run EXCEPT ![k] = IdleRun] /\ UNCHANGED queue
  BY <1>0, <1>1 DEF ReleasesTo, TypeOK
<1>2. CASE queue # << >> /\ run' = [run EXCEPT ![k] = StartedRun(Head(queue))] /\ queue' = Tail(queue)
  <2>1. queue \in Seq(Sites)
    BY DEF TypeOK
  <2>2. Head(queue) \in Sites /\ \A t \in ItemsOf(queue) : t = Head(queue) \/ t \in ItemsOf(Tail(queue))
    BY <1>2, <2>1, HeadOrTail, HeadTailProperties
  <2>3. \A j \in Slots : run'[j] = IF j = k THEN StartedRun(Head(queue)) ELSE run[j]
    BY <1>2 DEF TypeOK
  <2> QED BY <1>0, <1>2, <2>2, <2>3 DEF ReleasesTo
<1> QED BY <1>1, <1>2 DEF Release

\* A slot that is idle or has only started.
Fresh(r) == r = IdleRun \/ \E t \in Sites : r = StartedRun(t)

LEMMA FreshRuns ==
    ASSUME NEW r, Fresh(r)
    PROVE  r.phase \in {"idle", "reading"} /\ Stored(r.rec) = {} /\ r.rec.status = "NONE"
BY DEF Fresh, IdleRun, StartedRun, NoRecord, Stored, NotStored


\* Fresh slots, or slots as they were.
LEMMA KeptOrFresh ==
    ASSUME SlotsKeepOrRestart
    PROVE  \A k \in Slots : run'[k] = run[k] \/ Fresh(run'[k])
BY DEF SlotsKeepOrRestart, Fresh

----------------------------------------------------------------------------
(* Work that is owed *)

LEMMA OutcomeStatus ==
    ASSUME NEW rec \in Record, NEW n \in Folders, NEW synced \in SUBSET Files
    PROVE  Outcome(rec, n, synced).status \in {"PROCESSING"} \cup TerminalStatuses
<1> DEFINE filed == [rec EXCEPT !.folder = n,
                       !.stored = [f \in Files |-> IF f \in synced THEN n ELSE @[f]]]
<1>1. filed \in Record
  <2>1. [f \in Files |-> IF f \in synced THEN n ELSE rec.stored[f]]
           \in [Files -> Folders \cup {NotStored}]
    BY DEF Record
  <2> QED BY <2>1 DEF Record
<1>2. ShortStatus(filed) \in TerminalStatuses
  BY DEF ShortStatus, TerminalStatuses
<1>3. Outcome(rec, n, synced) =
        IF AllStored(filed)
        THEN [filed EXCEPT !.status = "COMPLETED", !.retryAvailable = FALSE]
        ELSE IF filed.attempts >= MaxAttempts
        THEN [filed EXCEPT !.status = ShortStatus(filed), !.retryAvailable = TRUE]
        ELSE [filed EXCEPT !.status = "PROCESSING", !.retryAvailable = TRUE]
  BY DEF Outcome
<1> HIDE DEF filed
<1>4. \A st \in Statuses, b \in BOOLEAN :
         [filed EXCEPT !.status = st, !.retryAvailable = b].status = st
  BY <1>1 DEF Record
<1> QED BY <1>2, <1>3, <1>4 DEF TerminalStatuses, Statuses

\* A run that has not read its record yet, or is over, claims nothing.
LEMMA FreshRunsProcess ==
    ASSUME RunsAreProcessing, \A k \in Slots : run'[k] = run[k] \/ Fresh(run'[k])
    PROVE  RunsAreProcessing'
BY FreshRuns DEF RunsAreProcessing

\* One run goes on, the others stay: the claim is about that run.
LEMMA OneRunProcesses ==
    ASSUME RunsAreProcessing, NEW k \in Slots,
           \A j \in Slots \ {k} : run'[j] = run[j],
           run'[k].phase \in {"claiming", "syncing", "uploading"}
              => run'[k].rec.status = "PROCESSING",
           run'[k].phase \in {"settling", "settled"}
              => run'[k].rec.status \in {"PROCESSING"} \cup TerminalStatuses
    PROVE  RunsAreProcessing'
BY DEF RunsAreProcessing

\* The steps that bear on the slots only by what they queue or drop.
OtherSteps ==
    \/ \E s \in Sites : IntakeAccept(s) \/ IntakeFails(s) \/ IntakeAnswer(s)
    \/ \E s \in Sites : TimerFires(s) \/ RetryRead(s) \/ RetrySave(s)
    \/ Shutdown \/ Crash \/ Exit \/ Boot \/ BootBlind

LEMMA OtherStepsKeepOrRestart ==
    ASSUME TypeInv, OtherSteps
    PROVE  SlotsKeepOrRestart
<1>1. ASSUME UNCHANGED <<queue, run>>
      PROVE  SlotsKeepOrRestart
  BY <1>1 DEF TypeInv, TypeOK, SlotsKeepOrRestart
<1>2. ASSUME NEW s \in Sites, Enqueue(s)
      PROVE  SlotsKeepOrRestart
  BY <1>2, EnqueueEffect DEF TypeInv
<1>3. CASE LoseMemory
  BY <1>3, RunTypes DEF LoseMemory, SlotsKeepOrRestart
<1>4. CASE Shutdown
  BY <1>4 DEF Shutdown, SlotsKeepOrRestart, TypeInv, TypeOK
<1>5. CASE Boot
  BY <1>5, BootEffect DEF TypeInv
<1>6. ASSUME NEW s \in Sites, IntakeAccept(s) \/ IntakeFails(s) \/ RetryRead(s)
      PROVE  UNCHANGED <<queue, run>>
  BY <1>6 DEF IntakeAccept, IntakeFails, RetryRead
<1>7. ASSUME NEW s \in Sites, IntakeAnswer(s) \/ TimerFires(s) \/ RetrySave(s)
      PROVE  Enqueue(s)
  BY <1>7 DEF IntakeAnswer, TimerFires, RetrySave
<1>8. CASE BootBlind
  BY <1>1, <1>8 DEF BootBlind
<1>9. CASE Crash \/ Exit
  BY <1>3, <1>9 DEF Crash, Exit
<1> QED BY <1>1, <1>2, <1>4, <1>5, <1>6, <1>7, <1>8, <1>9 DEF OtherSteps


\* A step of the run in slot k that is not its last.
LEMMA RunStepsKeepOthers ==
    ASSUME TypeInv, NEW k \in Slots, RunStep(k) \/ RunThrows(k)
    PROVE  \A j \in Slots \ {k} : run'[j] = run[j]
<1>1. CASE Release(k)
  BY <1>1, ReleaseEffect DEF TypeInv
<1>2. ASSUME NEW r, run' = [run EXCEPT ![k] = r]
      PROVE  \A j \in Slots \ {k} : run'[j] = run[j]
  BY <1>2 DEF TypeInv, TypeOK
<1>3. CASE RunRead(k)
  BY <1>1, <1>3 DEF RunRead, TypeInv, TypeOK
<1>4. CASE RunClaim(k)
  BY <1>4 DEF RunClaim, TypeInv, TypeOK
<1>5. CASE SyncStart(k)
  BY <1>5 DEF SyncStart, TypeInv, TypeOK
<1>6. CASE SyncFails(k)
  BY <1>6 DEF SyncFails, TypeInv, TypeOK
<1>7. ASSUME NEW f \in Files, UploadLands(k, f) \/ UploadFails(k, f) \/ UploadReplyLost(k, f)
      PROVE  \A j \in Slots \ {k} : run'[j] = run[j]
  BY <1>7 DEF UploadLands, UploadFails, UploadReplyLost, TypeInv, TypeOK
<1>8. CASE SyncReturns(k) \/ SyncReturnsUnchecked(k)
  BY <1>8 DEF SyncReturns, SyncReturnsUnchecked, Report, TypeInv, TypeOK
<1>9. CASE RunSettle(k)
  BY <1>9 DEF RunSettle, TypeInv, TypeOK
<1>10. CASE RunDone(k) \/ RunThrows(k)
  BY <1>1, <1>10 DEF RunDone, RunThrows
<1> QED BY <1>3, <1>4, <1>5, <1>6, <1>7, <1>8, <1>9, <1>10 DEF RunStep, Sync

\* What the steps of a run leave in its slot.
LEMMA RunStepsMove ==
    ASSUME TypeInv, NEW k \in Slots, RunStep(k) \/ RunThrows(k)
    PROVE  \/ Fresh(run'[k])
           \/ /\ run'[k].site = run[k].site
              /\ \/ run'[k].phase = "claiming" /\ run'[k].rec.status = "PROCESSING"
                 \/ /\ run[k].phase = "claiming" /\ run'[k].phase = "settling"
                    /\ run'[k].rec.status \in TerminalStatuses
                 \/ /\ run[k].phase \in {"claiming", "syncing", "uploading"}
                    /\ run'[k].phase \in {"syncing", "uploading"}
                    /\ run'[k].rec = run[k].rec
                 \/ /\ run'[k].phase = "settling"
                    /\ run'[k].rec.status \in {"PROCESSING"} \cup TerminalStatuses
                 \/ /\ run[k].phase = "settling" /\ run'[k].phase = "settled"
                    /\ run'[k].rec = run[k].rec
<1>a. run[k] \in Run /\ run[k].rec \in Record
  BY DEF TypeInv, TypeOK, Run
<1>1. CASE Release(k)
  <2>1. ReleasesTo(k)
    BY <1>1, ReleaseKeeps DEF TypeInv
  <2> QED BY <2>1 DEF ReleasesTo, Fresh
<1>3. CASE RunRead(k)
  <2>1. CASE run' = [run EXCEPT
                       ![k].phase = "claiming",
                       ![k].rec = [record[run[k].site] EXCEPT !.attempts = @ + 1,
                                                              !.status = "PROCESSING"]]
    <3>1. record[run[k].site] \in Record
      BY <1>3 DEF RunRead, TypeInv, TypeOK, BusySlotsHaveSite
    <3>2. [record[run[k].site] EXCEPT !.attempts = @ + 1, !.status = "PROCESSING"].status = "PROCESSING"
      BY <3>1 DEF Record
    <3> QED BY <1>a, <2>1, <3>2 DEF TypeInv, TypeOK, Run
  <2> QED BY <1>1, <1>3, <2>1 DEF RunRead
<1>4. CASE RunClaim(k)
  <2>1. ShortStatus(run[k].rec) \in TerminalStatuses
    BY DEF ShortStatus, TerminalStatuses
  <2>2. [run[k].rec EXCEPT !.status = ShortStatus(run[k].rec), !.retryAvailable = FALSE].status
          = ShortStatus(run[k].rec)
    BY <1>a DEF Record
  <2>3. CASE run' = [run EXCEPT
                       ![k].phase = "settling",
                       ![k].rec = [run[k].rec EXCEPT !.status = ShortStatus(run[k].rec),
                                                     !.retryAvailable = FALSE]]
    BY <1>4, <1>a, <2>1, <2>2, <2>3 DEF RunClaim, TypeInv, TypeOK, Run
  <2>4. CASE run' = [run EXCEPT ![k].phase = "syncing",
                                ![k].todo = Pending(run[k].site, run[k].rec)]
    BY <1>4, <1>a, <2>4 DEF RunClaim, TypeInv, TypeOK, Run
  <2> QED BY <1>4, <2>3, <2>4 DEF RunClaim
<1>5. CASE SyncStart(k)
  BY <1>5, <1>a DEF SyncStart, TypeInv, TypeOK, Run
<1>6. CASE SyncFails(k)
  <2>1. PICK n \in Folders :
          run' = [run EXCEPT ![k].phase = "settling",
                             ![k].rec = Outcome(run[k].rec, n, {}),
                             ![k].todo = {}]
    BY <1>6 DEF SyncFails
  <2>2. Outcome(run[k].rec, n, {}).status \in {"PROCESSING"} \cup TerminalStatuses
    BY <1>a, OutcomeStatus
  <2> QED BY <1>a, <2>1, <2>2 DEF TypeInv, TypeOK, Run
<1>7. ASSUME NEW f \in Files, UploadLands(k, f) \/ UploadFails(k, f) \/ UploadReplyLost(k, f)
      PROVE  run'[k].phase = run[k].phase /\ run'[k].rec = run[k].rec
             /\ run'[k].site = run[k].site /\ run[k].phase = "uploading"
  BY <1>7, <1>a DEF UploadLands, UploadFails, UploadReplyLost, NextFile, TypeInv, TypeOK, Run
<1>8. CASE SyncReturns(k) \/ SyncReturnsUnchecked(k)
  <2>1. PICK synced \in SUBSET Files : Report(k, synced)
    BY <1>8, <1>a DEF SyncReturns, SyncReturnsUnchecked, Seen, Run
  <2>2. Outcome(run[k].rec, run[k].folder, synced).status \in {"PROCESSING"} \cup TerminalStatuses
    BY <1>a, OutcomeStatus DEF Run
  <2> QED BY <1>a, <2>1, <2>2 DEF Report, TypeInv, TypeOK, Run
<1>9. CASE RunSettle(k)
  BY <1>9, <1>a DEF RunSettle, TypeInv, TypeOK, Run
<1>10. CASE RunDone(k) \/ RunThrows(k)
  BY <1>1, <1>10 DEF RunDone, RunThrows
<1> QED BY <1>3, <1>4, <1>5, <1>6, <1>7, <1>8, <1>9, <1>10 DEF RunStep, Sync

LEMMA RunsProcessStep == TypeInv /\ RunsAreProcessing /\ [Next]_vars => RunsAreProcessing'
<1> SUFFICES ASSUME TypeInv, RunsAreProcessing, [Next]_vars PROVE RunsAreProcessing'
  OBVIOUS
<1>1. CASE OtherSteps
  BY <1>1, OtherStepsKeepOrRestart, KeptOrFresh, FreshRunsProcess
<1>2. ASSUME NEW k \in Slots, RunStep(k) \/ RunThrows(k)
      PROVE  RunsAreProcessing'
  <2>1. \A j \in Slots \ {k} : run'[j] = run[j]
    BY <1>2, RunStepsKeepOthers
  <2>2. Fresh(run'[k]) => run'[k].phase \in {"idle", "reading"}
    BY FreshRuns
  <2> QED BY <1>2, <2>1, <2>2, RunStepsMove, OneRunProcesses DEF RunsAreProcessing
<1>3. ASSUME UNCHANGED run
      PROVE  RunsAreProcessing'
  BY <1>3 DEF RunsAreProcessing
<1> QED BY <1>1, <1>2, <1>3 DEF Next, OtherSteps, FlowTakes, vars


\* With a page as large as the number of submissions a boot finds them all.
LEMMA BootFindsAll ==
    ASSUME RecoverLimit >= NSites
    PROVE  Recovered = Unfinished
<1>1. ASSUME NEW s \in Unfinished
      PROVE  Cardinality({t \in Unfinished : t > s}) < RecoverLimit
  <2>1. s \in 1..NSites /\ NSites \in Nat /\ RecoverLimit \in Nat
    BY ConstantsAssumption DEF Unfinished, Sites
  <2>2. {t \in Unfinished : t > s} \subseteq (s + 1)..NSites
    BY <2>1 DEF Unfinished, Sites
  <2>3. s + 1 \in Int /\ NSites \in Int
    BY <2>1
  <2>4. /\ IsFiniteSet((s + 1)..NSites)
        /\ Cardinality((s + 1)..NSites) = IF s + 1 > NSites THEN 0 ELSE NSites - (s + 1) + 1
    BY <2>3, FS_Interval
  <2>5. /\ IsFiniteSet({t \in Unfinished : t > s})
        /\ Cardinality({t \in Unfinished : t > s}) <= Cardinality((s + 1)..NSites)
    BY <2>2, <2>4, FS_Subset
  <2>6. Cardinality({t \in Unfinished : t > s}) \in Nat
    BY <2>5, FS_CardinalityType
  <2>7. Cardinality((s + 1)..NSites) < NSites
    BY <2>1, <2>4
  <2>8. Cardinality((s + 1)..NSites) \in Nat
    BY <2>4, FS_CardinalityType
  <2> QED BY <2>1, <2>5, <2>6, <2>7, <2>8
<1> QED BY <1>1 DEF Recovered

LEMMA BootQueuesAll ==
    ASSUME TypeInv, RecoverLimit >= NSites, Boot, NEW s \in Unfinished
    PROVE  s \in Queued' \/ \E k \in Slots : run'[k] = StartedRun(s)
<1>1. IsFiniteSet(Recovered)
  <2>1. IsFiniteSet(Sites)
    BY FS_Interval, ConstantsAssumption DEF Sites
  <2>2. Recovered \subseteq Sites
    BY DEF Recovered, Unfinished
  <2> QED BY <2>1, <2>2, FS_Subset
<1>2. Cardinality(Recovered) \in Nat
  BY <1>1, FS_CardinalityType
<1>3. PICK q \in RecoveryOrders :
         /\ run' = [k \in Slots |-> IF k <= Len(q) THEN StartedRun(q[k]) ELSE IdleRun]
         /\ queue' = SubSeq(q, Concurrency + 1, Len(q))
  BY DEF Boot
<1>4. q \in [1..Cardinality(Recovered) -> Sites]
  BY <1>3 DEF RecoveryOrders, Recovered, Unfinished
<1>5. q \in Seq(Sites) /\ Len(q) = Cardinality(Recovered)
  BY <1>2, <1>4
<1>6. PICK i \in 1..Len(q) : q[i] = s
  BY <1>3, <1>4, <1>5, BootFindsAll DEF RecoveryOrders
<1>7. Concurrency \in Nat \ {0} /\ Len(q) \in Nat /\ i \in Nat \ {0}
  BY <1>2, <1>5, ConstantsAssumption
<1>8. CASE i <= Concurrency
  <2>1. i \in Slots
    BY <1>7, <1>8 DEF Slots
  <2> QED BY <1>3, <1>6, <2>1
<1>9. CASE i > Concurrency
  <2>1. i - Concurrency \in 1..(Len(q) - (Concurrency + 1) + 1)
    BY <1>6, <1>7, <1>9
  <2>2. \A j \in 1..(Len(q) - (Concurrency + 1) + 1) : queue'[j] = q[Concurrency + 1 + j - 1]
    BY <1>3, <1>5, <1>7, SubSeqProperties
  <2>3. Len(queue') = Len(q) - (Concurrency + 1) + 1
    BY <1>3, <1>5, <1>6, <1>7, <1>9, SubSeqProperties
  <2>4. queue' \in Seq(Sites)
    BY <1>3, <1>5, <1>7, SubSeqProperties
  <2>5. i - Concurrency \in DOMAIN queue' /\ queue'[i - Concurrency] = s
    <3>1. DOMAIN queue' = 1..Len(queue')
      BY <2>4
    <3> QED BY <1>6, <1>7, <2>1, <2>2, <2>3, <3>1
  <2> QED BY <2>5 DEF Queued
<1> QED BY <1>7, <1>8, <1>9


\* A run that has just started will see to its submission.
LEMMA StartedSees ==
    ASSUME NEW k \in Slots, NEW t, run'[k] = StartedRun(t)
    PROVE  WillSeeTo(k, t)'
BY DEF WillSeeTo, StartedRun

LEMMA OwedByEnqueue ==
    ASSUME TypeInv, NEW s \in Sites, Enqueue(s), mode = "up",
           NEW t \in Sites, HasNextStep(t) \/ t = s,
           abandoned' = abandoned,
           t = s \/ (timers'[t] = timers[t] /\ intake'[t] = intake[t])
    PROVE  HasNextStep(t)'
<1>1. EnqueuesTo(s)
  BY EnqueueKeeps DEF TypeInv
<1>2. CASE t \in Queued \cup {s}
  <2>1. t \in Queued' \/ \E k \in Slots : run'[k] = StartedRun(t)
    BY <1>1, <1>2 DEF EnqueuesTo
  <2> QED BY <2>1, StartedSees DEF HasNextStep
<1>3. ASSUME NEW k \in Slots, WillSeeTo(k, t)
      PROVE  WillSeeTo(k, t)'
  <2>1. run[k].phase # "idle"
    BY <1>3 DEF WillSeeTo
  <2>2. run'[k] = run[k]
    BY <1>1, <2>1 DEF EnqueuesTo
  <2> QED BY <1>3, <2>2 DEF WillSeeTo
<1> QED BY <1>2, <1>3 DEF HasNextStep

\* A step that leaves slots and queue alone.
LEMMA OwedQuietly ==
    ASSUME UNCHANGED <<queue, run, timers>>, abandoned \subseteq abandoned',
           NEW t, intake[t] = "saved" => intake'[t] = "saved", HasNextStep(t)
    PROVE  HasNextStep(t)'
BY DEF HasNextStep, WillSeeTo, Queued

LEMMA OwedOtherSteps ==
    ASSUME TypeInv, OwedInv, RecoverLimit >= NSites, OtherSteps, mode' = "up",
           NEW t \in Unfinished'
    PROVE  HasNextStep(t)'
<1>a. t \in Sites /\ record'[t].status \in OpenStatuses
  BY DEF Unfinished
<1>b. mode = "up" /\ record[t].status \in OpenStatuses => HasNextStep(t)
  BY <1>a DEF OwedInv, Unfinished
<1>1. ASSUME NEW s \in Sites, IntakeAccept(s)
      PROVE  HasNextStep(t)'
  <2>1. CASE t = s
    BY <1>1, <2>1 DEF IntakeAccept, HasNextStep, TypeInv, TypeOK
  <2>2. CASE t # s
    BY <1>1, <1>a, <1>b, <2>2, OwedQuietly DEF IntakeAccept, TypeInv, TypeOK
  <2> QED BY <2>1, <2>2
<1>2. ASSUME NEW s \in Sites, IntakeFails(s)
      PROVE  HasNextStep(t)'
  <2>1. CASE t = s
    BY <1>2, <2>1 DEF IntakeFails, HasNextStep
  <2>2. CASE t # s
    <3>1. record'[t] = record[t] /\ intake'[t] = intake[t]
      BY <1>2, <1>a, <2>2 DEF IntakeFails, TypeInv, TypeOK
    <3>2. mode = "up" /\ UNCHANGED <<queue, run, timers>> /\ abandoned \subseteq abandoned'
      BY <1>2 DEF IntakeFails
    <3> QED BY <1>a, <1>b, <3>1, <3>2, OwedQuietly
  <2> QED BY <2>1, <2>2
<1>3. ASSUME NEW s \in Sites, IntakeAnswer(s)
      PROVE  HasNextStep(t)'
  <2>1. mode = "up" /\ record' = record /\ timers' = timers /\ abandoned' = abandoned /\ Enqueue(s)
    BY <1>3 DEF IntakeAnswer
  <2>2. t = s \/ intake'[t] = intake[t]
    BY <1>3, <1>a DEF IntakeAnswer, TypeInv, TypeOK
  <2> QED BY <1>a, <1>b, <2>1, <2>2, OwedByEnqueue
<1>4. ASSUME NEW s \in Sites, TimerFires(s)
      PROVE  HasNextStep(t)'
  <2>1. mode = "up" /\ UNCHANGED <<record, intake, abandoned>> /\ Enqueue(s)
    BY <1>4 DEF TimerFires, durable
  <2>2. t = s \/ timers'[t] = timers[t]
    BY <1>4, <1>a DEF TimerFires, TypeInv, TypeOK
  <2> QED BY <1>a, <1>b, <2>1, <2>2, OwedByEnqueue
<1>5. ASSUME NEW s \in Sites, RetryRead(s)
      PROVE  HasNextStep(t)'
  BY <1>5, <1>a, <1>b, OwedQuietly DEF RetryRead, durable
<1>6. ASSUME NEW s \in Sites, RetrySave(s)
      PROVE  HasNextStep(t)'
  <2>1. mode = "up" /\ UNCHANGED <<timers, intake, abandoned>> /\ Enqueue(s)
    BY <1>6 DEF RetrySave
  <2>2. t = s \/ record'[t] = record[t]
    BY <1>6, <1>a DEF RetrySave, TypeInv, TypeOK
  <2> QED BY <1>a, <1>b, <2>1, <2>2, OwedByEnqueue
<1>7. CASE Boot
  <2>1. t \in Unfinished
    BY <1>7, <1>a DEF Boot, durable, Unfinished
  <2> QED BY <1>7, <2>1, BootQueuesAll, StartedSees DEF HasNextStep
<1>8. CASE BootBlind
  <2>1. t \in abandoned'
    BY <1>8, <1>a DEF BootBlind, durable, Unfinished
  <2> QED BY <2>1 DEF HasNextStep
<1>9. CASE Shutdown \/ Crash \/ Exit
  BY <1>9 DEF Shutdown, Crash, Exit, LoseMemory
<1> QED BY <1>1, <1>2, <1>3, <1>4, <1>5, <1>6, <1>7, <1>8, <1>9 DEF OtherSteps


\* Another slot's run still sees to its submission.
LEMMA OthersSee ==
    ASSUME NEW k \in Slots, \A j \in Slots \ {k} : run'[j] = run[j],
           NEW j \in Slots, j # k, NEW t, WillSeeTo(j, t)
    PROVE  WillSeeTo(j, t)'
BY DEF WillSeeTo

\* What waits in the queue still waits, or has started.
LEMMA QueuedGoOn ==
    ASSUME NEW k \in Slots, ReleasesTo(k) \/ UNCHANGED queue, NEW t \in Queued
    PROVE  t \in Queued' \/ WillSeeTo(k, t)'
<1>1. CASE ReleasesTo(k)
  BY <1>1, StartedSees DEF ReleasesTo
<1>2. CASE UNCHANGED queue
  BY <1>2 DEF Queued
<1> QED BY <1>1, <1>2

\* The next step of t survives a step of the run in slot k, unless the run had
\* to see to t and does no more.
LEMMA OwedByOthers ==
    ASSUME NEW k \in Slots, \A j \in Slots \ {k} : run'[j] = run[j],
           ReleasesTo(k) \/ UNCHANGED queue,
           NEW t, HasNextStep(t),
           t \in abandoned => t \in abandoned',
           timers[t] > 0 => timers'[t] > 0,
           intake' = intake,
           WillSeeTo(k, t) => HasNextStep(t)'
    PROVE  HasNextStep(t)'
BY OthersSee, QueuedGoOn DEF HasNextStep

LEMMA OwedRunSteps ==
    ASSUME TypeInv, OwedInv, NEW k \in Slots, RunStep(k) \/ RunThrows(k), mode' = "up",
           NEW t \in Unfinished'
    PROVE  HasNextStep(t)'
<1> DEFINE s == run[k].site
<1>a. t \in Sites /\ record'[t].status \in OpenStatuses
  BY DEF Unfinished
<1>b. mode = "up" /\ record[t].status \in OpenStatuses => HasNextStep(t)
  BY <1>a DEF OwedInv, Unfinished
<1>c. \A j \in Slots \ {k} : run'[j] = run[j]
  BY RunStepsKeepOthers
<1>d. Release(k) => ReleasesTo(k)
  BY ReleaseKeeps DEF TypeInv
<1>e. run[k].phase # "idle" => s \in Sites
  BY DEF TypeInv, BusySlotsHaveSite
<1>f. run[k] \in Run
  BY DEF TypeInv, TypeOK
<1>g. WillSeeTo(k, t) => t = s
  BY DEF WillSeeTo
\* A run that goes on goes on seeing to its submission.
<1>h. ASSUME t = s, run'[k].site = s,
             run'[k].phase \in {"claiming", "syncing", "uploading", "settling"}
      PROVE  WillSeeTo(k, t)'
  BY <1>h DEF WillSeeTo
<1>i. WillSeeTo(k, t)' => HasNextStep(t)'
  BY DEF HasNextStep
<1>1. CASE RunRead(k)
  <2>1. mode = "up" /\ record' = record /\ timers' = timers /\ abandoned' = abandoned /\ intake' = intake
    BY <1>1 DEF RunRead, durable
  <2>2. WillSeeTo(k, t) => WillSeeTo(k, t)'
    <3>1. CASE record[s].status \in {"NONE", "COMPLETED"}
      BY <1>a, <1>g, <2>1, <3>1 DEF OpenStatuses
    <3>2. CASE record[s].status \notin {"NONE", "COMPLETED"}
      <4>1. run'[k].site = s /\ run'[k].phase = "claiming"
        BY <1>1, <1>f, <3>2 DEF RunRead, TypeInv, TypeOK, Run
      <4> QED BY <1>g, <1>h, <4>1
    <3> QED BY <3>1, <3>2
  <2>3. ReleasesTo(k) \/ UNCHANGED queue
    BY <1>1, <1>d DEF RunRead
  <2> QED BY <1>a, <1>b, <1>c, <1>i, <2>1, <2>2, <2>3, OwedByOthers
<1>2. CASE RunClaim(k)
  <2>1. mode = "up" /\ timers' = timers /\ abandoned' = abandoned /\ intake' = intake /\ queue' = queue
    BY <1>2 DEF RunClaim
  <2>2. t = s => WillSeeTo(k, t)'
    <3>1. run'[k].site = s /\ run'[k].phase \in {"settling", "syncing"}
      BY <1>2, <1>f DEF RunClaim, TypeInv, TypeOK, Run
    <3> QED BY <1>h, <3>1
  <2>3. t = s \/ record'[t] = record[t]
    BY <1>2, <1>a DEF RunClaim, TypeInv, TypeOK
  <2> QED BY <1>a, <1>b, <1>c, <1>g, <1>i, <2>1, <2>2, <2>3, OwedByOthers
<1>3. CASE Sync(k)
  <2>1. mode = "up" /\ timers' = timers /\ abandoned' = abandoned /\ intake' = intake /\ queue' = queue
        /\ record' = record
    <3>1. CASE SyncStart(k) \/ SyncFails(k)
      BY <3>1 DEF SyncStart, SyncFails, durable
    <3>2. CASE \E f \in Files : UploadLands(k, f) \/ UploadFails(k, f) \/ UploadReplyLost(k, f)
      BY <3>2 DEF UploadLands, UploadFails, UploadReplyLost, durable
    <3>3. CASE SyncReturns(k) \/ SyncReturnsUnchecked(k)
      BY <3>3 DEF SyncReturns, SyncReturnsUnchecked, Report, durable
    <3> QED BY <1>3, <3>1, <3>2, <3>3 DEF Sync
  <2>2. t = s => WillSeeTo(k, t)'
    <3>1. CASE SyncStart(k) \/ SyncFails(k)
      <4>1. CASE SyncStart(k)
        BY <1>f, <1>h, <4>1 DEF SyncStart, TypeInv, TypeOK, Run
      <4>2. CASE SyncFails(k)
        BY <1>f, <1>h, <4>2 DEF SyncFails, TypeInv, TypeOK, Run
      <4> QED BY <3>1, <4>1, <4>2
    <3>2. CASE \E f \in Files : UploadLands(k, f) \/ UploadFails(k, f) \/ UploadReplyLost(k, f)
      <4>1. run'[k].site = s /\ run'[k].phase = "uploading"
        BY <3>2, <1>f DEF UploadLands, UploadFails, UploadReplyLost, NextFile, TypeInv, TypeOK, Run
      <4> QED BY <1>h, <4>1
    <3>3. CASE SyncReturns(k) \/ SyncReturnsUnchecked(k)
      <4>1. run'[k].site = s /\ run'[k].phase = "settling"
        BY <3>3, <1>f DEF SyncReturns, SyncReturnsUnchecked, Report, TypeInv, TypeOK, Run
      <4> QED BY <1>h, <4>1
    <3> QED BY <1>3, <3>1, <3>2, <3>3 DEF Sync
  <2> QED BY <1>a, <1>b, <1>c, <1>g, <1>i, <2>1, <2>2, OwedByOthers
<1>4. CASE RunSettle(k)
  <2>1. mode = "up" /\ timers' = timers /\ abandoned' = abandoned /\ intake' = intake /\ queue' = queue
    BY <1>4 DEF RunSettle
  <2>2. t = s \/ record'[t] = record[t]
    BY <1>4, <1>a DEF RunSettle, TypeInv, TypeOK
  <2>3. run'[k].site = s /\ run'[k].phase = "settled" /\ run'[k].rec = run[k].rec
    BY <1>4, <1>f DEF RunSettle, TypeInv, TypeOK, Run
  <2>4. CASE t = s
    <3>1. record'[t] = run[k].rec
      BY <1>4, <1>a, <2>4 DEF RunSettle, TypeInv, TypeOK
    <3>2. run[k].rec.status = "PROCESSING"
      BY <1>4, <1>a, <3>1 DEF OwedInv, RunsAreProcessing, RunSettle, OpenStatuses, TerminalStatuses
    <3>3. WillSeeTo(k, t)'
      BY <2>3, <2>4, <3>2 DEF WillSeeTo
    <3> QED BY <1>i, <3>3
  <2>5. CASE t # s
    BY <1>a, <1>b, <1>c, <1>g, <2>1, <2>2, <2>5, OwedByOthers
  <2> QED BY <2>4, <2>5
<1>5. CASE RunDone(k)
  <2>1. mode = "up" /\ abandoned' = abandoned /\ intake' = intake /\ record' = record
    BY <1>5 DEF RunDone
  <2>2. timers[t] > 0 => timers'[t] > 0
    BY <1>5, <1>a, <1>e DEF RunDone, TypeInv, TypeOK
  <2>3. WillSeeTo(k, t) => timers'[t] > 0
    <3>1. ASSUME WillSeeTo(k, t)
          PROVE  timers'[t] = timers[t] + 1
      BY <1>5, <1>a, <1>g, <3>1 DEF WillSeeTo, RunDone, TypeInv, TypeOK
    <3> QED BY <1>a, <3>1 DEF TypeInv, TypeOK
  <2>4. timers'[t] > 0 => HasNextStep(t)'
    BY DEF HasNextStep
  <2>5. ReleasesTo(k)
    BY <1>5, <1>d DEF RunDone
  <2> QED BY <1>a, <1>b, <1>c, <2>1, <2>2, <2>3, <2>4, <2>5, OwedByOthers
<1>6. CASE RunThrows(k)
  <2>1. mode = "up" /\ timers' = timers /\ intake' = intake /\ abandoned' = abandoned \cup {s}
    BY <1>6 DEF RunThrows
  <2>2. t = s \/ record'[t] = record[t]
    BY <1>6, <1>a DEF RunThrows, TypeInv, TypeOK
  <2>3. ReleasesTo(k)
    BY <1>6, <1>d DEF RunThrows
  <2>4. t \in abandoned' => HasNextStep(t)'
    BY DEF HasNextStep
  <2>5. t = s => t \in abandoned'
    BY <2>1
  <2>6. t \in abandoned => t \in abandoned'
    BY <2>1
  <2> QED BY <1>a, <1>b, <1>c, <1>g, <2>1, <2>2, <2>3, <2>4, <2>5, <2>6, OwedByOthers
<1> QED BY <1>1, <1>2, <1>3, <1>4, <1>5, <1>6 DEF RunStep

\* A record that still has to be filed is queued, running, waiting for its timer
\* or about to be queued, unless a store call failed it, whatever the number of
\* submissions, slots and faults, as long as the boot's page holds them all
\* (listUnfinished reads one page of 200: table-store.ts:255).
THEOREM WorkIsOwedAlways ==
    ASSUME RecoverLimit >= NSites
    PROVE  Spec => []WorkIsOwed
<1>1. Init => OwedInv
  <2> SUFFICES ASSUME Init PROVE OwedInv
    OBVIOUS
  <2>1. Unfinished = {}
    BY DEF Init, Unfinished, NoRecord, OpenStatuses
  <2>2. RunsAreProcessing
    BY DEF Init, RunsAreProcessing, IdleRun
  <2> QED BY <2>1, <2>2 DEF OwedInv
<1>2. TypeInv /\ OwedInv /\ [Next]_vars => OwedInv'
  <2> SUFFICES ASSUME TypeInv, OwedInv, [Next]_vars PROVE OwedInv'
    OBVIOUS
  <2>1. RunsAreProcessing'
    BY RunsProcessStep DEF OwedInv
  <2>2. ASSUME mode' = "up", NEW t \in Unfinished'
        PROVE  HasNextStep(t)'
    <3>1. CASE OtherSteps
      BY <2>2, <3>1, OwedOtherSteps
    <3>2. CASE \E k \in Slots : RunStep(k) \/ RunThrows(k)
      BY <2>2, <3>2, OwedRunSteps
    <3>3. ASSUME UNCHANGED <<mode, queue, run, timers, record, abandoned, intake>>
          PROVE  HasNextStep(t)'
      <4>1. HasNextStep(t)
        BY <2>2, <3>3 DEF OwedInv, Unfinished
      <4> QED BY <3>3, <4>1 DEF HasNextStep, WillSeeTo, Queued
    <3>4. CASE \E k \in Slots, f \in Files : FlowTakes(k, f)
      BY <3>3, <3>4 DEF FlowTakes
    <3>5. CASE UNCHANGED vars
      BY <3>3, <3>5 DEF vars
    <3> QED BY <3>1, <3>2, <3>4, <3>5 DEF Next, OtherSteps
  <2> QED BY <2>1, <2>2 DEF OwedInv
<1>3. OwedInv => WorkIsOwed
  <2> SUFFICES ASSUME OwedInv, mode = "up", NEW s \in Unfinished, ~(timers[s] > 0), intake[s] # "saved"
               PROVE  s \in Queued \cup Running \cup abandoned
    BY DEF WorkIsOwed
  <2>1. HasNextStep(s)
    BY DEF OwedInv
  <2>2. ASSUME NEW k \in Slots, WillSeeTo(k, s)
        PROVE  s \in Running
    BY <2>2 DEF WillSeeTo, Running, IdleSlots
  <2> QED BY <2>1, <2>2 DEF HasNextStep
<1>4. Init => TypeInv
  BY TypeInvInit
<1>5. TypeInv /\ [Next]_vars => TypeInv'
  BY TypeInvStep
<1> QED BY <1>1, <1>2, <1>3, <1>4, <1>5, PTL DEF Spec


----------------------------------------------------------------------------
(* One slot: the copies of a record stay in order *)

LEMMA OnlySlot ==
    ASSUME Concurrency = 1, NEW j \in Slots, NEW k \in Slots
    PROVE  j = k
BY DEF Slots

\* What a report adds to a record.
LEMMA OutcomeFiles ==
    ASSUME NEW rec \in Record, NEW n \in Folders, NEW synced \in SUBSET Files
    PROVE  /\ Outcome(rec, n, synced).stored
                = [f \in Files |-> IF f \in synced THEN n ELSE rec.stored[f]]
           /\ Stored(Outcome(rec, n, synced)) = Stored(rec) \cup synced
           /\ synced \cap Stored(rec) = {} => Below(rec, Outcome(rec, n, synced))
<1> DEFINE stored == [f \in Files |-> IF f \in synced THEN n ELSE rec.stored[f]]
           filed == [rec EXCEPT !.folder = n,
                       !.stored = [f \in Files |-> IF f \in synced THEN n ELSE @[f]]]
<1>1. stored \in [Files -> Folders \cup {NotStored}]
  BY DEF Record
<1>2. filed \in Record /\ filed.stored = stored
  BY <1>1 DEF Record
<1>3. Outcome(rec, n, synced) =
        IF AllStored(filed)
        THEN [filed EXCEPT !.status = "COMPLETED", !.retryAvailable = FALSE]
        ELSE IF filed.attempts >= MaxAttempts
        THEN [filed EXCEPT !.status = ShortStatus(filed), !.retryAvailable = TRUE]
        ELSE [filed EXCEPT !.status = "PROCESSING", !.retryAvailable = TRUE]
  BY DEF Outcome
<1>4. \A st, b : [filed EXCEPT !.status = st, !.retryAvailable = b].stored = filed.stored
  BY <1>2 DEF Record
<1>5. Outcome(rec, n, synced).stored = stored
  <2> HIDE DEF filed, stored
  <2> QED BY <1>2, <1>3, <1>4
<1>6. n # NotStored
  BY ConstantsAssumption DEF Folders, NotStored
<1>7. Stored(Outcome(rec, n, synced)) = Stored(rec) \cup synced
  BY <1>5, <1>6 DEF Stored
<1>8. synced \cap Stored(rec) = {} => Below(rec, Outcome(rec, n, synced))
  BY <1>5 DEF Stored, Below
<1> QED BY <1>5, <1>7, <1>8

\* What the library's answers add to a run.
LEMMA NewlySeen ==
    ASSUME TypeInv, UploadsAreNew, NEW k \in Slots, SyncReturns(k) \/ SyncReturnsUnchecked(k)
    PROVE  \E synced \in SUBSET Files :
              /\ synced \cap Stored(run[k].rec) = {}
              /\ synced \subseteq run[k].landed
              /\ Seen(k) \subseteq synced
              /\ Report(k, synced)
              /\ run'[k].site = run[k].site
              /\ run'[k].phase = "settling"
              /\ run'[k].rec = Outcome(run[k].rec, run[k].folder, synced)
<1>1. run[k] \in Run
  BY DEF TypeInv, TypeOK
<1>2. PICK synced \in {Seen(k), run[k].landed} : Report(k, synced)
  BY DEF SyncReturns, SyncReturnsUnchecked
<1>3. synced \in SUBSET Files /\ synced \subseteq run[k].landed /\ Seen(k) \subseteq synced
  BY <1>1, <1>2 DEF Seen, Run
<1>4. synced \cap Stored(run[k].rec) = {}
  BY <1>2, <1>3 DEF UploadsAreNew, Report
<1>5. /\ run'[k].site = run[k].site
      /\ run'[k].phase = "settling"
      /\ run'[k].rec = Outcome(run[k].rec, run[k].folder, synced)
  BY <1>1, <1>2 DEF Report, TypeInv, TypeOK, Run
<1> QED BY <1>2, <1>3, <1>4, <1>5

LEMMA UploadsAreNewStep ==
    TypeInv /\ UploadsAreNew /\ [Next]_vars => UploadsAreNew'
<1> SUFFICES ASSUME TypeInv, UploadsAreNew, [Next]_vars PROVE UploadsAreNew'
  OBVIOUS
<1> DEFINE New(r) == /\ r.phase \in {"syncing", "uploading"} => r.todo \cap Stored(r.rec) = {}
                     /\ r.phase = "uploading" => r.landed \cap (Stored(r.rec) \cup r.todo) = {}
<1>0. (UploadsAreNew <=> \A k \in Slots : New(run[k])) /\ (UploadsAreNew' <=> \A k \in Slots : New(run'[k]))
  BY DEF UploadsAreNew
<1>1. CASE OtherSteps
  <2>1. \A k \in Slots : run'[k] = run[k] \/ Fresh(run'[k])
    BY <1>1, OtherStepsKeepOrRestart, KeptOrFresh
  <2>2. \A r : Fresh(r) => New(r)
    BY FreshRuns
  <2> HIDE DEF New
  <2> QED BY <1>0, <2>1, <2>2
<1>2. ASSUME NEW k \in Slots, RunStep(k) \/ RunThrows(k)
      PROVE  UploadsAreNew'
  <2>1. \A j \in Slots \ {k} : run'[j] = run[j]
    BY <1>2, RunStepsKeepOthers
  <2>a. run[k] \in Run
    BY DEF TypeInv, TypeOK
  <2>2. New(run'[k])
    <3>1. CASE Fresh(run'[k])
      BY <3>1, FreshRuns
    <3>2. CASE run'[k].phase \notin {"syncing", "uploading"}
      BY <3>2
    <3>3. CASE RunClaim(k)
      <4>1. CASE run' = [run EXCEPT ![k].phase = "syncing",
                                    ![k].todo = Pending(run[k].site, run[k].rec)]
        BY <4>1, <2>a DEF Pending, NotFiled, TypeInv, TypeOK, Run
      <4>2. CASE run' # [run EXCEPT ![k].phase = "syncing",
                                    ![k].todo = Pending(run[k].site, run[k].rec)]
        BY <1>2, <2>a, <3>2, <3>3, <4>2 DEF RunClaim, TypeInv, TypeOK, Run
      <4> QED BY <4>1, <4>2
    <3>4. CASE SyncStart(k)
      <4>1. New(run[k])
        BY <1>0
      <4> QED BY <4>1, <2>a, <3>4 DEF SyncStart, TypeInv, TypeOK, Run
    <3>5. ASSUME NEW f \in Files, UploadLands(k, f)
          PROVE  New(run'[k])
      <4>1. New(run[k])
        BY <1>0
      <4> QED BY <4>1, <2>a, <3>5 DEF UploadLands, NextFile, TypeInv, TypeOK, Run
    <3>6. ASSUME NEW f \in Files, UploadFails(k, f) \/ UploadReplyLost(k, f)
          PROVE  New(run'[k])
      <4>1. New(run[k])
        BY <1>0
      <4>2. run' = [run EXCEPT ![k].todo = @ \ {f}]
        BY <3>6 DEF UploadFails, UploadReplyLost
      <4> QED BY <4>1, <4>2, <2>a, <3>6 DEF TypeInv, TypeOK, Run
    <3>7. CASE SyncFails(k) \/ RunSettle(k)
      <4>1. SyncFails(k) => run'[k].phase = "settling"
        BY <2>a DEF SyncFails, TypeInv, TypeOK, Run
      <4>2. RunSettle(k) => run'[k].phase = "settled"
        BY <2>a DEF RunSettle, TypeInv, TypeOK, Run
      <4> QED BY <3>2, <3>7, <4>1, <4>2
    <3>8. CASE SyncReturns(k) \/ SyncReturnsUnchecked(k)
      BY <3>2, <3>8, NewlySeen
    <3>9. CASE RunRead(k)
      <4>1. Release(k) => Fresh(run'[k])
        BY ReleaseKeeps DEF TypeInv, ReleasesTo, Fresh
      <4>2. ~Release(k) => run'[k].phase = "claiming"
        BY <2>a, <3>9 DEF RunRead, TypeInv, TypeOK, Run
      <4> QED BY <3>1, <3>2, <4>1, <4>2
    <3>10. CASE RunDone(k) \/ RunThrows(k)
      <4>1. Release(k)
        BY <3>10 DEF RunDone, RunThrows
      <4>2. Fresh(run'[k])
        BY <4>1, ReleaseKeeps DEF TypeInv, ReleasesTo, Fresh
      <4> QED BY <3>1, <4>2
    <3> HIDE DEF New
    <3> QED BY <1>2, <3>3, <3>4, <3>5, <3>6, <3>7, <3>8, <3>9, <3>10 DEF RunStep, Sync
  <2> HIDE DEF New
  <2> QED BY <1>0, <2>1, <2>2
<1>3. ASSUME UNCHANGED run
      PROVE  UploadsAreNew'
  BY <1>3 DEF UploadsAreNew
<1> QED BY <1>1, <1>2, <1>3 DEF Next, OtherSteps, FlowTakes, vars


\* What a step of a run writes, and what it then knows.
LEMMA RunStepWrites ==
    ASSUME TypeInv, UploadsAreNew, NEW k \in Slots, RunStep(k) \/ RunThrows(k)
    PROVE  /\ UNCHANGED <<mode, intake, request>>
           /\ \/ UNCHANGED record
              \/ Writes(k) /\ record' = [record EXCEPT ![run[k].site] = run[k].rec]
           /\ Writes(k)' =>
                /\ run'[k].site = run[k].site
                /\ \/ /\ run[k].phase = "reading" /\ run'[k].phase = "claiming"
                      /\ UNCHANGED record
                      /\ record[run[k].site].status # "NONE"
                      /\ run'[k].rec.stored = record[run[k].site].stored
                   \/ /\ run[k].phase = "claiming" /\ run'[k].phase \in {"syncing", "settling"}
                      /\ record' = [record EXCEPT ![run[k].site] = run[k].rec]
                      /\ run'[k].rec.stored = run[k].rec.stored
                   \/ /\ run[k].phase \in {"syncing", "uploading"}
                      /\ run'[k].phase \in {"uploading", "settling"}
                      /\ UNCHANGED record
                      /\ Below(run[k].rec, run'[k].rec)
<1>a. run[k] \in Run /\ run[k].rec \in Record
  BY DEF TypeInv, TypeOK, Run
<1>f. Fresh(run'[k]) => ~Writes(k)'
  BY FreshRuns DEF Writes
<1>g. Release(k) => Fresh(run'[k])
  BY ReleaseKeeps DEF TypeInv, ReleasesTo, Fresh
<1>h. \A rec \in Record : Below(rec, rec)
  BY DEF Below
<1>1. CASE RunRead(k)
  <2>1. UNCHANGED <<mode, intake, request>> /\ UNCHANGED record
    BY <1>1 DEF RunRead, durable
  <2>2. CASE Release(k)
    BY <1>f, <1>g, <2>1, <2>2
  <2>3. CASE ~Release(k)
    <3>1. record[run[k].site] \in Record
      BY <1>1 DEF RunRead, TypeInv, TypeOK, BusySlotsHaveSite
    <3>2. [record[run[k].site] EXCEPT !.attempts = @ + 1, !.status = "PROCESSING"].stored
            = record[run[k].site].stored
      BY <3>1 DEF Record
    <3>3. /\ run'[k].site = run[k].site /\ run'[k].phase = "claiming"
          /\ run'[k].rec.stored = record[run[k].site].stored
      BY ZenonT(40), <1>1, <1>a, <2>3, <3>2 DEF RunRead, TypeInv, TypeOK, Run
    <3>4. run[k].phase = "reading" /\ record[run[k].site].status # "NONE"
      BY <1>1, <2>3 DEF RunRead
    <3> QED BY <2>1, <3>3, <3>4
  <2> QED BY <2>2, <2>3
<1>2. CASE RunClaim(k)
  <2>1. /\ UNCHANGED <<mode, intake, request>>
        /\ record' = [record EXCEPT ![run[k].site] = run[k].rec]
        /\ run[k].phase = "claiming" /\ Writes(k)
    BY <1>2 DEF RunClaim, Writes
  <2>2. /\ run'[k].site = run[k].site /\ run'[k].phase \in {"syncing", "settling"}
        /\ run'[k].rec.stored = run[k].rec.stored
    <3>1. CASE run' = [run EXCEPT
                         ![k].phase = "settling",
                         ![k].rec = [run[k].rec EXCEPT !.status = ShortStatus(run[k].rec),
                                                       !.retryAvailable = FALSE]]
      BY <1>a, <3>1 DEF TypeInv, TypeOK, Run, Record
    <3>2. CASE run' = [run EXCEPT ![k].phase = "syncing",
                                  ![k].todo = Pending(run[k].site, run[k].rec)]
      BY <1>a, <3>2 DEF TypeInv, TypeOK, Run
    <3> QED BY <1>2, <3>1, <3>2 DEF RunClaim
  <2> QED BY <2>1, <2>2
<1>3. CASE SyncStart(k)
  <2>1. UNCHANGED <<mode, intake, request>> /\ UNCHANGED record /\ run[k].phase = "syncing"
    BY <1>3 DEF SyncStart, durable
  <2>2. /\ run'[k].site = run[k].site /\ run'[k].phase = "uploading"
        /\ run'[k].rec = run[k].rec
    BY <1>3, <1>a DEF SyncStart, TypeInv, TypeOK, Run
  <2> QED BY <1>a, <1>h, <2>1, <2>2
<1>4. CASE SyncFails(k)
  <2>1. UNCHANGED <<mode, intake, request>> /\ UNCHANGED record /\ run[k].phase = "syncing"
    BY <1>4 DEF SyncFails, durable
  <2>2. PICK n \in Folders :
          run' = [run EXCEPT ![k].phase = "settling",
                             ![k].rec = Outcome(run[k].rec, n, {}),
                             ![k].todo = {}]
    BY <1>4 DEF SyncFails
  <2>3. /\ run'[k].site = run[k].site /\ run'[k].phase = "settling"
        /\ run'[k].rec = Outcome(run[k].rec, n, {})
    BY <1>a, <2>2 DEF TypeInv, TypeOK, Run
  <2>4. Below(run[k].rec, Outcome(run[k].rec, n, {}))
    BY <1>a, OutcomeFiles
  <2> QED BY <2>1, <2>3, <2>4
<1>5. ASSUME NEW f \in Files, UploadLands(k, f) \/ UploadFails(k, f) \/ UploadReplyLost(k, f)
      PROVE  /\ UNCHANGED <<mode, intake, request>> /\ UNCHANGED record
             /\ run[k].phase = "uploading" /\ run'[k].phase = "uploading"
             /\ run'[k].site = run[k].site /\ run'[k].rec = run[k].rec
  BY <1>5, <1>a DEF UploadLands, UploadFails, UploadReplyLost, NextFile, durable, TypeInv, TypeOK, Run
<1>6. CASE SyncReturns(k) \/ SyncReturnsUnchecked(k)
  <2>1. PICK synced \in SUBSET Files :
              /\ synced \cap Stored(run[k].rec) = {}
              /\ Report(k, synced)
              /\ run'[k].site = run[k].site
              /\ run'[k].phase = "settling"
              /\ run'[k].rec = Outcome(run[k].rec, run[k].folder, synced)
    BY <1>6, NewlySeen
  <2>2. UNCHANGED <<mode, intake, request>> /\ UNCHANGED record /\ run[k].phase = "uploading"
    BY <2>1 DEF Report, durable
  <2>3. Below(run[k].rec, Outcome(run[k].rec, run[k].folder, synced))
    BY <1>a, <2>1, OutcomeFiles DEF Run
  <2> QED BY <2>1, <2>2, <2>3
<1>7. CASE RunSettle(k)
  <2>1. /\ UNCHANGED <<mode, intake, request>>
        /\ record' = [record EXCEPT ![run[k].site] = run[k].rec]
        /\ Writes(k)
    BY <1>7 DEF RunSettle, Writes
  <2>2. run'[k].phase = "settled"
    BY <1>7, <1>a DEF RunSettle, TypeInv, TypeOK, Run
  <2> QED BY <2>1, <2>2 DEF Writes
<1>8. CASE RunDone(k) \/ RunThrows(k)
  <2>1. Release(k) /\ UNCHANGED <<mode, intake, request>>
    BY <1>8 DEF RunDone, RunThrows
  <2>2. \/ UNCHANGED record
        \/ Writes(k) /\ record' = [record EXCEPT ![run[k].site] = run[k].rec]
    BY <1>8 DEF RunDone, RunThrows, Writes
  <2> QED BY <1>f, <1>g, <2>1, <2>2
<1> QED BY <1>1, <1>2, <1>3, <1>4, <1>5, <1>6, <1>7, <1>8, <1>a, <1>h DEF RunStep, Sync


\* A run that has a copy to save had it before a step that is not its own.
LEMMA WritersStay ==
    ASSUME TypeInv, OtherSteps, NEW k \in Slots, Writes(k)'
    PROVE  Writes(k) /\ run'[k] = run[k]
<1>1. run'[k] = run[k] \/ Fresh(run'[k])
  BY OtherStepsKeepOrRestart, KeptOrFresh
<1>2. Fresh(run'[k]) => ~Writes(k)'
  BY FreshRuns DEF Writes
<1> QED BY <1>1, <1>2 DEF Writes

\* The steps that write records or take snapshots outside the runs.
LEMMA OtherStepsWrite ==
    ASSUME TypeInv, OtherSteps
    PROVE  \/ UNCHANGED <<record, request>> /\ \A s \in Sites : intake'[s] = "idle" => intake[s] = "idle"
           \/ \E s \in Sites : /\ intake[s] = "idle" /\ intake' = [intake EXCEPT ![s] = intake'[s]]
                               /\ intake'[s] # "idle"
                               /\ record' \in {record, [record EXCEPT ![s] = AcceptedRecord]}
                               /\ UNCHANGED request
           \/ \E s \in Sites : /\ record[s].status # "NONE"
                               /\ request' = [request EXCEPT ![s] = record[s]]
                               /\ UNCHANGED <<record, intake>>
           \/ \E s \in Sites : /\ request[s].status # "NONE"
                               /\ record' = [record EXCEPT ![s] = [request[s] EXCEPT !.attempts = 0, !.status = "QUEUED"]]
                               /\ request' = [request EXCEPT ![s] = NoRecord]
                               /\ UNCHANGED intake
           \/ /\ request' = [s \in Sites |-> NoRecord] /\ UNCHANGED record
              /\ \A s \in Sites : intake'[s] = "idle" => intake[s] = "idle"
<1>1. ASSUME NEW s \in Sites, IntakeAccept(s) \/ IntakeFails(s)
      PROVE  /\ intake[s] = "idle" /\ intake' = [intake EXCEPT ![s] = intake'[s]]
             /\ intake'[s] # "idle"
             /\ record' \in {record, [record EXCEPT ![s] = AcceptedRecord]}
             /\ UNCHANGED request
  BY <1>1 DEF IntakeAccept, IntakeFails, NextSite, TypeInv, TypeOK
<1>2. ASSUME NEW s \in Sites, IntakeAnswer(s) \/ TimerFires(s)
      PROVE  UNCHANGED <<record, request>> /\ \A t \in Sites : intake'[t] = "idle" => intake[t] = "idle"
  BY <1>2 DEF IntakeAnswer, TimerFires, durable, TypeInv, TypeOK
<1>3. ASSUME NEW s \in Sites, RetryRead(s)
      PROVE  /\ record[s].status # "NONE"
             /\ request' = [request EXCEPT ![s] = record[s]]
             /\ UNCHANGED <<record, intake>>
  BY <1>3 DEF RetryRead, durable
<1>4. ASSUME NEW s \in Sites, RetrySave(s)
      PROVE  /\ request[s].status # "NONE"
             /\ record' = [record EXCEPT ![s] = [request[s] EXCEPT !.attempts = 0, !.status = "QUEUED"]]
             /\ request' = [request EXCEPT ![s] = NoRecord]
             /\ UNCHANGED intake
  BY <1>4 DEF RetrySave
<1>5. CASE Shutdown \/ Boot \/ BootBlind
  BY <1>5 DEF Shutdown, Boot, BootBlind, durable
<1>6. CASE Crash \/ Exit
  <2>1. LoseMemory
    BY <1>6 DEF Crash, Exit
  <2>2. \A s \in Sites : intake'[s] = "idle" => intake[s] = "idle"
    BY <2>1 DEF LoseMemory
  <2> QED BY <2>1, <2>2 DEF LoseMemory, durable
<1>7. CASE \E s \in Sites : IntakeAccept(s) \/ IntakeFails(s)
  BY <1>1, <1>7
<1>8. CASE \E s \in Sites : IntakeAnswer(s) \/ TimerFires(s)
  BY <1>2, <1>8
<1>9. CASE \E s \in Sites : RetryRead(s)
  BY <1>3, <1>9
<1>10. CASE \E s \in Sites : RetrySave(s)
  BY <1>4, <1>10
<1> QED BY <1>5, <1>6, <1>7, <1>8, <1>9, <1>10 DEF OtherSteps

LEMMA BelowTransitive ==
    ASSUME NEW a, NEW b, NEW c, Below(a, b), Below(b, c)
    PROVE  Below(a, c)
BY DEF Below

LEMMA BelowItself ==
    ASSUME NEW a, NEW b, a.stored = b.stored
    PROVE  Below(a, b) /\ Stored(a) = Stored(b)
BY DEF Below, Stored

LEMMA NewRecordsStoreNothing ==
    /\ Stored(AcceptedRecord) = {} /\ Stored(NoRecord) = {}
    /\ AcceptedRecord.status = "QUEUED" /\ NoRecord.status = "NONE"
    /\ \A b : Below(AcceptedRecord, b) /\ Below(NoRecord, b)
BY DEF AcceptedRecord, NoRecord, Stored, Below

\* What a manual retry saves is its snapshot, reopened.
LEMMA ReopenedRecord ==
    ASSUME NEW rec \in Record
    PROVE  /\ [rec EXCEPT !.attempts = 0, !.status = "QUEUED"].stored = rec.stored
           /\ [rec EXCEPT !.attempts = 0, !.status = "QUEUED"].status = "QUEUED"
BY DEF Record

\* Where the records stand of which OneSlotInv speaks.
RecordsInv == CopiesInOrder /\ NothingBefore /\ RunsAreOpen

LEMMA RecordsOtherSteps ==
    ASSUME TypeInv, RecordsInv, OtherSteps
    PROVE  RecordsInv'
<1>0. /\ record \in [Sites -> Record] /\ request \in [Sites -> Record]
      /\ intake \in [Sites -> IntakeStates]
      /\ \A k \in Slots : Writes(k) => run[k].site \in Sites
  BY DEF TypeInv, TypeOK, BusySlotsHaveSite, Writes
<1>w. \A k \in Slots : Writes(k)' => Writes(k) /\ run'[k] = run[k]
  BY WritersStay
<1>o. \A k \in Slots : run'[k].phase \in {"syncing", "uploading", "settling"} => Writes(k)'
  BY DEF Writes
<1>1. CASE UNCHANGED record /\ (UNCHANGED request \/ request' = [s \in Sites |-> NoRecord])
           /\ \A s \in Sites : intake'[s] = "idle" => intake[s] = "idle"
  <2>1. CopiesInOrder'
    BY <1>0, <1>1, <1>w, NewRecordsStoreNothing DEF RecordsInv, CopiesInOrder
  <2>2. NothingBefore'
    BY <1>0, <1>1, <1>w, NewRecordsStoreNothing DEF RecordsInv, NothingBefore
  <2>3. RunsAreOpen'
    BY <1>1, <1>w, <1>o DEF RecordsInv, RunsAreOpen
  <2> QED BY <2>1, <2>2, <2>3 DEF RecordsInv
<1>2. ASSUME NEW s \in Sites,
             intake[s] = "idle", intake' = [intake EXCEPT ![s] = intake'[s]], intake'[s] # "idle",
             record' \in {record, [record EXCEPT ![s] = AcceptedRecord]},
             UNCHANGED request
      PROVE  RecordsInv'
  <2>1. request[s].status = "NONE" /\ \A k \in Slots : Writes(k) => run[k].site # s
    BY <1>2 DEF RecordsInv, NothingBefore
  <2>2. \A t \in Sites \ {s} : record'[t] = record[t] /\ intake'[t] = intake[t]
    BY <1>0, <1>2
  <2>3. CopiesInOrder'
    BY <1>0, <1>2, <1>w, <2>1, <2>2 DEF RecordsInv, CopiesInOrder
  <2>4. NothingBefore'
    BY <1>0, <1>2, <1>w, <2>2 DEF RecordsInv, NothingBefore
  <2>5. RunsAreOpen'
    BY <1>0, <1>w, <1>o, <2>1, <2>2 DEF RecordsInv, RunsAreOpen
  <2> QED BY <2>3, <2>4, <2>5 DEF RecordsInv
<1>3. ASSUME NEW s \in Sites, record[s].status # "NONE",
             request' = [request EXCEPT ![s] = record[s]], UNCHANGED <<record, intake>>
      PROVE  RecordsInv'
  <2>1. \A t \in Sites : request'[t] = IF t = s THEN record[s] ELSE request[t]
    BY <1>0, <1>3
  <2>2. CopiesInOrder'
    BY <1>0, <1>3, <1>w, <2>1, BelowItself DEF RecordsInv, CopiesInOrder
  <2>3. NothingBefore'
    BY <1>0, <1>3, <1>w, <2>1 DEF RecordsInv, NothingBefore
  <2>4. RunsAreOpen'
    BY <1>3, <1>w, <1>o DEF RecordsInv, RunsAreOpen
  <2> QED BY <2>2, <2>3, <2>4 DEF RecordsInv
<1>4. ASSUME NEW s \in Sites, request[s].status # "NONE",
             record' = [record EXCEPT ![s] = [request[s] EXCEPT !.attempts = 0, !.status = "QUEUED"]],
             request' = [request EXCEPT ![s] = NoRecord], UNCHANGED intake
      PROVE  RecordsInv'
  <2>1. /\ record'[s].stored = request[s].stored /\ record'[s].status = "QUEUED"
        /\ request'[s].status = "NONE"
    BY <1>0, <1>4, ReopenedRecord, NewRecordsStoreNothing
  <2>2. \A t \in Sites \ {s} : record'[t] = record[t] /\ request'[t] = request[t]
    BY <1>0, <1>4
  <2>3. intake[s] # "idle"
    BY <1>4 DEF RecordsInv, NothingBefore
  <2>4. Below(record'[s], request[s]) /\ Below(request[s], record[s])
    BY <1>4, <2>1, BelowItself DEF RecordsInv, CopiesInOrder
  <2>5. \A k \in Slots : Writes(k) /\ run[k].site = s => Below(record'[s], run[k].rec)
    BY <2>4, BelowTransitive DEF RecordsInv, CopiesInOrder
  <2>6. CopiesInOrder'
    BY <1>0, <1>w, <2>1, <2>2, <2>5 DEF RecordsInv, CopiesInOrder
  <2>7. NothingBefore'
    BY <1>0, <1>4, <1>w, <2>2, <2>3 DEF RecordsInv, NothingBefore
  <2>8. RunsAreOpen'
    BY <1>0, <1>w, <1>o, <2>1, <2>2 DEF RecordsInv, RunsAreOpen, OpenStatuses
  <2> QED BY <2>6, <2>7, <2>8 DEF RecordsInv
<1> QED BY <1>1, <1>2, <1>3, <1>4, OtherStepsWrite

LEMMA RecordsRunSteps ==
    ASSUME Concurrency = 1, TypeInv, RunsAreProcessing, UploadsAreNew, RecordsInv,
           NEW k \in Slots, RunStep(k) \/ RunThrows(k)
    PROVE  RecordsInv'
<1> DEFINE s == run[k].site
<1>0. /\ record \in [Sites -> Record] /\ request \in [Sites -> Record]
      /\ Writes(k) => s \in Sites
  BY DEF TypeInv, TypeOK, BusySlotsHaveSite, Writes
<1>1. \A j \in Slots : j = k
  BY OnlySlot
<1>2. UNCHANGED <<intake, request>>
  BY RunStepWrites
<1>3. \A t \in Sites : record'[t] = record[t] \/ (t = s /\ Writes(k) /\ record'[t] = run[k].rec)
  BY <1>0, RunStepWrites
<1>4. CopiesInOrder'
  <2>1. ASSUME NEW t \in Sites, request'[t].status # "NONE"
        PROVE  Below(request'[t], record'[t])
    <3>1. Below(request[t], record[t])
      BY <1>2, <2>1 DEF RecordsInv, CopiesInOrder
    <3>2. t = s /\ Writes(k) => Below(record[t], run[k].rec)
      BY DEF RecordsInv, CopiesInOrder
    <3> QED BY <1>2, <1>3, <3>1, <3>2, BelowTransitive
  <2>2. ASSUME Writes(k)'
        PROVE  Below(record'[run'[k].site], run'[k].rec)
    <3>1. run'[k].site = s /\ s \in Sites
      <4>1. run'[k].site = s
        BY <2>2, RunStepWrites
      <4>2. run[k].phase # "idle"
        BY <2>2, RunStepWrites
      <4> QED BY <4>1, <4>2 DEF TypeInv, BusySlotsHaveSite
    <3>2. CASE UNCHANGED record /\ run'[k].rec.stored = record[s].stored
      BY <3>1, <3>2, BelowItself
    <3>3. CASE record' = [record EXCEPT ![s] = run[k].rec] /\ run'[k].rec.stored = run[k].rec.stored
      <4>1. record'[s] = run[k].rec
        BY <1>0, <3>1, <3>3
      <4> QED BY <3>1, <3>3, <4>1, BelowItself
    <3>4. CASE UNCHANGED record /\ Writes(k) /\ Below(run[k].rec, run'[k].rec)
      <4>1. Below(record[s], run[k].rec)
        BY <3>4 DEF RecordsInv, CopiesInOrder
      <4> QED BY <3>1, <3>4, <4>1, BelowTransitive
    <3> QED BY <2>2, <3>2, <3>3, <3>4, RunStepWrites DEF Writes
  <2> QED BY <1>1, <2>1, <2>2 DEF CopiesInOrder
<1>5. NothingBefore'
  <2> SUFFICES ASSUME NEW t \in Sites, intake[t] = "idle"
               PROVE  /\ record'[t].status = "NONE" /\ Stored(record'[t]) = {}
                      /\ request'[t].status = "NONE"
                      /\ Writes(k)' => run'[k].site # t
    BY <1>1, <1>2 DEF NothingBefore
  <2>1. /\ record[t].status = "NONE" /\ Stored(record[t]) = {}
        /\ request[t].status = "NONE"
        /\ Writes(k) => run[k].site # t
    BY DEF RecordsInv, NothingBefore
  <2>2. record'[t] = record[t]
    BY <1>3, <2>1
  <2>3. Writes(k)' => run'[k].site = s /\ (Writes(k) \/ record[s].status # "NONE")
    BY RunStepWrites DEF Writes
  <2> QED BY <1>2, <2>1, <2>2, <2>3
<1>6. RunsAreOpen'
  <2> SUFFICES ASSUME run'[k].phase \in {"syncing", "uploading", "settling"}
               PROVE  record'[run'[k].site].status \in OpenStatuses
    BY <1>1 DEF RunsAreOpen
  <2>1. Writes(k)'
    BY DEF Writes
  <2>2. run'[k].site = s
    BY <2>1, RunStepWrites
  <2>3. CASE run[k].phase = "claiming" /\ record' = [record EXCEPT ![s] = run[k].rec]
    <3>1. s \in Sites /\ run[k].rec.status = "PROCESSING"
      BY <2>3 DEF TypeInv, BusySlotsHaveSite, RunsAreProcessing
    <3>2. record'[s] = run[k].rec
      BY <1>0, <2>3, <3>1
    <3> QED BY <2>2, <3>1, <3>2 DEF OpenStatuses
  <2>4. CASE run[k].phase \in {"syncing", "uploading"} /\ UNCHANGED record
    BY <2>2, <2>4 DEF RecordsInv, RunsAreOpen
  <2> QED BY <2>1, <2>3, <2>4, RunStepWrites
<1> QED BY <1>4, <1>5, <1>6 DEF RecordsInv


LEMMA OneSlotInvInit == Init => OneSlotInv
<1> SUFFICES ASSUME Init PROVE OneSlotInv
  OBVIOUS
<1>1. \A k \in Slots : run[k].phase = "idle"
  BY DEF Init, IdleRun
<1>2. \A s \in Sites : request[s] = NoRecord /\ record[s] = NoRecord
  BY DEF Init
<1>3. RunsAreProcessing /\ UploadsAreNew /\ RunsAreOpen
  BY <1>1 DEF RunsAreProcessing, UploadsAreNew, RunsAreOpen
<1>4. CopiesInOrder /\ NothingBefore
  BY <1>1, <1>2, NewRecordsStoreNothing DEF CopiesInOrder, NothingBefore, Writes
<1> QED BY <1>3, <1>4 DEF OneSlotInv

LEMMA OneSlotInvStep ==
    ASSUME Concurrency = 1
    PROVE  TypeInv /\ OneSlotInv /\ [Next]_vars => OneSlotInv'
<1> SUFFICES ASSUME TypeInv, OneSlotInv, [Next]_vars PROVE OneSlotInv'
  OBVIOUS
<1>1. RunsAreProcessing' /\ UploadsAreNew'
  BY RunsProcessStep, UploadsAreNewStep DEF OneSlotInv
<1>2. RecordsInv'
  <2>1. RecordsInv
    BY DEF OneSlotInv, RecordsInv
  <2>2. CASE OtherSteps
    BY <2>1, <2>2, RecordsOtherSteps
  <2>3. CASE \E k \in Slots : RunStep(k) \/ RunThrows(k)
    BY <2>1, <2>3, RecordsRunSteps DEF OneSlotInv
  <2>4. ASSUME UNCHANGED <<intake, record, run, request>>
        PROVE  RecordsInv'
    BY <2>1, <2>4 DEF RecordsInv, CopiesInOrder, NothingBefore, RunsAreOpen, Writes
  <2>5. CASE \E k \in Slots, f \in Files : FlowTakes(k, f)
    BY <2>4, <2>5 DEF FlowTakes
  <2>6. CASE UNCHANGED vars
    BY <2>4, <2>6 DEF vars
  <2> QED BY <2>2, <2>3, <2>5, <2>6 DEF Next, OtherSteps
<1> QED BY <1>1, <1>2 DEF OneSlotInv, RecordsInv

LEMMA OneSlotInvariant ==
    ASSUME Concurrency = 1
    PROVE  Spec => [](TypeInv /\ OneSlotInv)
<1>1. Init => TypeInv /\ OneSlotInv
  BY TypeInvInit, OneSlotInvInit
<1>2. TypeInv /\ OneSlotInv /\ [Next]_vars => (TypeInv /\ OneSlotInv)'
  BY TypeInvStep, OneSlotInvStep
<1> QED BY <1>1, <1>2, PTL DEF Spec

\* With one slot (config.ts:62, the default) no step of the worker, the intake
\* or the process forgets what the store has recorded as filed.
THEOREM FilingIsNeverForgotten ==
    ASSUME Concurrency = 1
    PROVE  Spec => FilingIsKept
<1> DEFINE Kept1 == \A s \in Sites, f \in Files :
                       record[s].stored[f] # NotStored =>
                          \/ record'[s].stored[f] = record[s].stored[f]
                          \/ request[s].status # "NONE"
<1>1. TypeInv /\ OneSlotInv /\ [Next]_vars => [Kept1]_vars
  <2> SUFFICES ASSUME TypeInv, OneSlotInv, Next,
                      NEW s \in Sites, NEW f \in Files,
                      record[s].stored[f] # NotStored, request[s].status = "NONE"
               PROVE  record'[s].stored[f] = record[s].stored[f]
    BY DEF Kept1
  <2>0. record \in [Sites -> Record] /\ intake[s] # "idle"
    BY DEF TypeInv, TypeOK, OneSlotInv, NothingBefore, Stored
  <2>1. CASE OtherSteps
    <3>1. record'[s] = record[s]
      BY <2>0, <2>1, OtherStepsWrite
    <3> QED BY <3>1
  <2>2. ASSUME NEW k \in Slots, RunStep(k) \/ RunThrows(k)
        PROVE  record'[s].stored[f] = record[s].stored[f]
    <3>1. \/ UNCHANGED record
          \/ Writes(k) /\ record' = [record EXCEPT ![run[k].site] = run[k].rec]
      BY <2>2, RunStepWrites DEF OneSlotInv
    <3>2. CASE Writes(k) /\ record' = [record EXCEPT ![s] = run[k].rec] /\ run[k].site = s
      <4>1. record'[s] = run[k].rec /\ Below(record[s], run[k].rec)
        BY <2>0, <3>2 DEF OneSlotInv, CopiesInOrder
      <4> QED BY <4>1 DEF Below
    <3>3. CASE record'[s] = record[s]
      BY <3>3
    <3> QED BY <2>0, <3>1, <3>2, <3>3
  <2>3. CASE \E k \in Slots, g \in Files : FlowTakes(k, g)
    BY <2>3 DEF FlowTakes
  <2> QED BY <2>1, <2>2, <2>3 DEF Next, OtherSteps
<1>2. Spec => [][Kept1]_vars
  BY <1>1, OneSlotInvariant, PTL DEF Spec
<1> QED BY <1>2 DEF FilingIsKept


----------------------------------------------------------------------------
(* One slot: copies in the library are accounted for *)

\* A process that is down runs nothing.
DownIsEmpty == mode = "down" => \A k \in Slots : run[k].phase = "idle"

LEMMA DownIsEmptyStep == TypeInv /\ DownIsEmpty /\ [Next]_vars => DownIsEmpty'
<1> SUFFICES ASSUME TypeInv, DownIsEmpty, [Next]_vars, mode' = "down", NEW j \in Slots
             PROVE  run'[j].phase = "idle"
  BY DEF DownIsEmpty
<1>1. CASE \E k \in Slots : RunStep(k) \/ RunThrows(k)
  <2>1. PICK k \in Slots : RunStep(k) \/ RunThrows(k)
    BY <1>1
  <2>2. run[k].phase # "idle" /\ mode' = mode
    <3>1. CASE RunRead(k) \/ RunClaim(k) \/ RunSettle(k) \/ RunDone(k) \/ RunThrows(k)
      BY <3>1 DEF RunRead, RunClaim, RunSettle, RunDone, RunThrows
    <3>2. CASE SyncStart(k) \/ SyncFails(k) \/ SyncReturns(k) \/ SyncReturnsUnchecked(k)
      BY <3>2 DEF SyncStart, SyncFails, SyncReturns, SyncReturnsUnchecked, Report
    <3>3. CASE \E f \in Files : UploadLands(k, f) \/ UploadFails(k, f) \/ UploadReplyLost(k, f)
      BY <3>3 DEF UploadLands, UploadFails, UploadReplyLost, NextFile
    <3> QED BY <2>1, <3>1, <3>2, <3>3 DEF RunStep, Sync
  <2> QED BY <2>2 DEF DownIsEmpty
<1>2. ASSUME NEW s \in Sites, IntakeAnswer(s) \/ TimerFires(s) \/ RetrySave(s)
      PROVE  run'[j].phase = "idle"
  <2>1. mode' = mode /\ Enqueue(s)
    BY <1>2 DEF IntakeAnswer, TimerFires, RetrySave
  <2>2. UNCHANGED run
    BY <2>1 DEF Enqueue
  <2> QED BY <2>1, <2>2 DEF DownIsEmpty
<1>3. CASE LoseMemory
  BY <1>3 DEF LoseMemory, IdleRun
<1>4. ASSUME mode' = mode, UNCHANGED run
      PROVE  run'[j].phase = "idle"
  BY <1>4 DEF DownIsEmpty
<1>5. ASSUME NEW s \in Sites, IntakeAccept(s) \/ IntakeFails(s) \/ RetryRead(s)
      PROVE  mode' = mode /\ UNCHANGED run
  BY <1>5 DEF IntakeAccept, IntakeFails, RetryRead
<1>6. CASE Shutdown \/ Boot \/ BootBlind
  BY <1>6 DEF Shutdown, Boot, BootBlind
<1>7. CASE Crash \/ Exit
  BY <1>3, <1>7 DEF Crash, Exit
<1>8. CASE \E k \in Slots, f \in Files : FlowTakes(k, f)
  BY <1>4, <1>8 DEF FlowTakes
<1>9. CASE UNCHANGED vars
  BY <1>4, <1>9 DEF vars
<1> QED BY <1>1, <1>2, <1>4, <1>5, <1>6, <1>7, <1>8, <1>9 DEF Next

\* The events that are mishaps, and those that are not.
LEMMA MishapsCount ==
    ASSUME TypeInv
    PROVE  /\ Mishaps \in Nat
           /\ \A e \in {"crash", "store", "reply", "retry"} : Spend(e) => Mishaps' = Mishaps + 1
           /\ \A e \in {"flow", "listing"} : Spend(e) => Mishaps' = Mishaps
           /\ UNCHANGED spent => Mishaps' = Mishaps
<1>1. spent \in [EventKinds -> Nat]
  BY DEF TypeInv, TypeOK
<1>2. /\ spent["crash"] \in Nat /\ spent["store"] \in Nat
      /\ spent["reply"] \in Nat /\ spent["retry"] \in Nat
  BY <1>1 DEF EventKinds
<1>3. Mishaps \in Nat
  BY <1>2 DEF Mishaps
<1>4. ASSUME Spend("crash") PROVE Mishaps' = Mishaps + 1
  BY <1>1, <1>2, <1>4 DEF Spend, Mishaps, EventKinds
<1>5. ASSUME Spend("store") PROVE Mishaps' = Mishaps + 1
  BY <1>1, <1>2, <1>5 DEF Spend, Mishaps, EventKinds
<1>6. ASSUME Spend("reply") PROVE Mishaps' = Mishaps + 1
  BY <1>1, <1>2, <1>6 DEF Spend, Mishaps, EventKinds
<1>7. ASSUME Spend("retry") PROVE Mishaps' = Mishaps + 1
  BY <1>1, <1>2, <1>7 DEF Spend, Mishaps, EventKinds
<1>8. ASSUME NEW e \in {"flow", "listing"}, Spend(e) PROVE Mishaps' = Mishaps
  BY <1>1, <1>2, <1>8 DEF Spend, Mishaps, EventKinds
<1>9. UNCHANGED spent => Mishaps' = Mishaps
  BY DEF Mishaps
<1> QED BY <1>3, <1>4, <1>5, <1>6, <1>7, <1>8, <1>9

LEMMA CopiesAreFinite ==
    ASSUME TypeInv, NEW s \in Sites, NEW f \in Files
    PROVE  /\ IsFiniteSet(library[s][f])
           /\ Cardinality(library[s][f]) \in Nat
           /\ \A n : Cardinality(library[s][f] \cup {n}) \in Nat
                     /\ Cardinality(library[s][f] \cup {n}) <= Cardinality(library[s][f]) + 1
           /\ \A n \in library[s][f] : Cardinality(library[s][f] \ {n}) \in Nat
                     /\ Cardinality(library[s][f] \ {n}) = Cardinality(library[s][f]) - 1
<1>1. IsFiniteSet(Folders)
  BY FS_Interval, ConstantsAssumption DEF Folders
<1>2. library[s][f] \subseteq Folders
  BY DEF TypeInv, TypeOK
<1>3. IsFiniteSet(library[s][f])
  BY <1>1, <1>2, FS_Subset
<1>4. Cardinality(library[s][f]) \in Nat
  BY <1>3, FS_CardinalityType
<1>5. ASSUME NEW n
      PROVE  /\ Cardinality(library[s][f] \cup {n}) \in Nat
             /\ Cardinality(library[s][f] \cup {n}) <= Cardinality(library[s][f]) + 1
  <2>1. Cardinality(library[s][f] \cup {n}) =
           IF n \in library[s][f] THEN Cardinality(library[s][f]) ELSE Cardinality(library[s][f]) + 1
    BY <1>3, FS_AddElement
  <2> QED BY <1>4, <2>1
<1>6. ASSUME NEW n \in library[s][f]
      PROVE  /\ Cardinality(library[s][f] \ {n}) \in Nat
             /\ Cardinality(library[s][f] \ {n}) = Cardinality(library[s][f]) - 1
  <2>1. IsFiniteSet(library[s][f] \ {n})
    BY <1>3, FS_Subset
  <2> QED BY <1>3, <1>6, <2>1, FS_RemoveElement, FS_CardinalityType
<1> QED BY <1>3, <1>4, <1>5, <1>6

\* With one slot it is the run, or else the store, that knows.
LEMMA KnownBySlot ==
    ASSUME Concurrency = 1, NEW k \in Slots, NEW s, NEW f
    PROVE  /\ Known(s, f) <=> IF Writes(k) /\ run[k].site = s THEN RunKnows(k, f)
                                                              ELSE f \in Stored(record[s])
           /\ Known(s, f)' <=> IF Writes(k)' /\ run'[k].site = s THEN RunKnows(k, f)'
                                                                 ELSE f \in Stored(record'[s])
<1>1. Slots = {k}
  BY OnlySlot
<1>2. Known(s, f) <=> IF Writes(k) /\ run[k].site = s THEN RunKnows(k, f)
                                                     ELSE f \in Stored(record[s])
  BY <1>1 DEF Known
<1>3. Known(s, f)' <=> IF Writes(k)' /\ run'[k].site = s THEN RunKnows(k, f)'
                                                        ELSE f \in Stored(record'[s])
  <2>1. Slots' = Slots
    BY DEF Slots
  <2> QED BY <1>1, <2>1 DEF Known, Writes, RunKnows, Stored
<1> QED BY <1>2, <1>3


Balance(s, f) ==
    Cardinality(library[s][f]) + One(~Known(s, f)) + One(Forgetting(s, f)) + One(mode = "stopping")

Accounted(s, f) == Balance(s, f) <= 1 + Mishaps

\* Nothing is lost, and nothing comes.
LEMMA QuietAccount ==
    ASSUME TypeInv, NEW s \in Sites, NEW f \in Files, Accounted(s, f),
           library'[s][f] = library[s][f],
           Known(s, f) => Known(s, f)', Forgetting(s, f)' => Forgetting(s, f),
           mode' = "stopping" => mode = "stopping",
           Mishaps' \in {Mishaps, Mishaps + 1}
    PROVE  Accounted(s, f)'
<1>1. Cardinality(library[s][f]) \in Nat /\ Mishaps \in Nat
  BY CopiesAreFinite, MishapsCount
<1> QED BY <1>1 DEF Accounted, Balance, One

\* A mishap pays for one thing forgotten.
LEMMA PaidAccount ==
    ASSUME TypeInv, NEW s \in Sites, NEW f \in Files, Accounted(s, f),
           library'[s][f] = library[s][f],
           Forgetting(s, f)' => Forgetting(s, f),
           mode' = "stopping" => mode = "stopping",
           Mishaps' = Mishaps + 1
    PROVE  Accounted(s, f)'
<1>1. Cardinality(library[s][f]) \in Nat /\ Mishaps \in Nat
  BY CopiesAreFinite, MishapsCount
<1> QED BY <1>1 DEF Accounted, Balance, One

\* While no slot holds a copy to save, before and after, the store knows.
LEMMA StoreKnows ==
    ASSUME Concurrency = 1, NEW k \in Slots, NEW s, NEW f,
           ~(Writes(k) /\ run[k].site = s), ~(Writes(k)' /\ run'[k].site = s),
           Stored(record[s]) \subseteq Stored(record'[s])
    PROVE  Known(s, f) => Known(s, f)'
BY KnownBySlot

LEMMA AccountsOtherSteps ==
    ASSUME Concurrency = 1, TypeInv, NothingBefore, DownIsEmpty, OtherSteps,
           NEW s \in Sites, NEW f \in Files, Accounted(s, f)
    PROVE  Accounted(s, f)'
<1>k. PICK k \in Slots : TRUE
  BY DEF Slots
<1>t. /\ record \in [Sites -> Record] /\ request \in [Sites -> Record]
      /\ Cardinality(library[s][f]) \in Nat /\ Mishaps \in Nat
  BY CopiesAreFinite, MishapsCount DEF TypeInv, TypeOK
<1>l. library' = library
  BY DEF OtherSteps, IntakeAccept, IntakeFails, IntakeAnswer, TimerFires, RetryRead, RetrySave,
         Shutdown, Crash, Exit, LoseMemory, Boot, BootBlind, durable
<1>w. Writes(k)' => Writes(k) /\ run'[k] = run[k]
  BY WritersStay
\* The slot keeps what it had to save, or had nothing.
<1>e. ASSUME NEW t \in Sites, Enqueue(t) \/ UNCHANGED run
      PROVE  Writes(k) => run'[k] = run[k]
  <2>1. Enqueue(t) => EnqueuesTo(t)
    BY EnqueueKeeps DEF TypeInv
  <2> QED BY <1>e, <2>1 DEF EnqueuesTo, Writes
<1>s. ASSUME Writes(k) => run'[k] = run[k],
             (Writes(k) /\ run[k].site = s) \/ Stored(record[s]) \subseteq Stored(record'[s])
      PROVE  Known(s, f) => Known(s, f)'
  <2>1. CASE Writes(k) /\ run[k].site = s
    <3>1. Writes(k)' /\ run'[k].site = s /\ RunKnows(k, f)' = RunKnows(k, f)
      BY <1>l, <1>s, <2>1 DEF Writes, RunKnows
    <3> QED BY <2>1, <3>1, KnownBySlot
  <2>2. CASE ~(Writes(k) /\ run[k].site = s)
    BY <1>s, <1>w, <2>2, StoreKnows
  <2> QED BY <2>1, <2>2
<1>1. ASSUME NEW t \in Sites, IntakeAccept(t) \/ IntakeFails(t)
      PROVE  Accounted(s, f)'
  <2>1. UNCHANGED <<mode, request, run>> /\ record' \in {record, [record EXCEPT ![t] = AcceptedRecord]}
        /\ intake[t] = "idle"
    BY <1>1 DEF IntakeAccept, IntakeFails, NextSite
  <2>2. Stored(record[s]) \subseteq Stored(record'[s])
    <3>1. s = t => Stored(record[s]) = {}
      BY <2>1 DEF NothingBefore
    <3> QED BY <1>t, <2>1, <3>1
  <2>3. Mishaps' \in {Mishaps, Mishaps + 1}
    BY <1>1, MishapsCount DEF IntakeAccept, IntakeFails
  <2>4. Forgetting(s, f)' => Forgetting(s, f)
    BY <2>1 DEF Forgetting
  <2> QED BY <1>l, <1>s, <2>1, <2>2, <2>3, <2>4, QuietAccount
<1>2. ASSUME NEW t \in Sites, IntakeAnswer(t) \/ TimerFires(t)
      PROVE  Accounted(s, f)'
  <2>1. UNCHANGED <<mode, request, record, spent>> /\ Enqueue(t)
    BY <1>2 DEF IntakeAnswer, TimerFires, durable
  <2>2. Forgetting(s, f)' => Forgetting(s, f)
    BY <2>1 DEF Forgetting
  <2> QED BY <1>e, <1>l, <1>s, <2>1, <2>2, QuietAccount, MishapsCount
<1>3. ASSUME NEW t \in Sites, RetryRead(t)
      PROVE  Accounted(s, f)'
  <2>1. UNCHANGED <<mode, record, run>> /\ Mishaps' = Mishaps + 1
    BY <1>3, MishapsCount DEF RetryRead, durable
  <2>2. Known(s, f) => Known(s, f)'
    BY <1>s, <2>1
  <2> QED BY <1>l, <1>t, <2>1, <2>2 DEF Accounted, Balance, One
<1>4. ASSUME NEW t \in Sites, RetrySave(t)
      PROVE  Accounted(s, f)'
  <2>1. /\ mode' = mode /\ UNCHANGED spent /\ Enqueue(t) /\ request[t].status # "NONE"
        /\ record' = [record EXCEPT ![t] = [request[t] EXCEPT !.attempts = 0, !.status = "QUEUED"]]
        /\ request' = [request EXCEPT ![t] = NoRecord]
    BY <1>4 DEF RetrySave
  <2>2. Mishaps' = Mishaps
    BY <2>1, MishapsCount
  <2>3. CASE s # t
    <3>1. record'[s] = record[s] /\ request'[s] = request[s]
      BY <1>t, <2>1, <2>3
    <3>2. Forgetting(s, f)' => Forgetting(s, f)
      BY <3>1 DEF Forgetting
    <3> QED BY <1>e, <1>l, <1>s, <2>1, <2>2, <3>1, <3>2, QuietAccount
  <2>4. CASE s = t
    <3>1. record'[s].stored = request[s].stored /\ request'[s].status = "NONE"
      BY <1>t, <2>1, <2>4, ReopenedRecord, NewRecordsStoreNothing
    <3>2. ~Forgetting(s, f)'
      BY <3>1 DEF Forgetting
    <3>3. CASE Forgetting(s, f)
      BY <1>l, <1>t, <2>1, <2>2, <3>2, <3>3 DEF Accounted, Balance, One
    <3>4. CASE ~Forgetting(s, f)
      <4>1. f \in Stored(record'[s])
        BY <2>1, <2>4, <3>1, <3>4 DEF Forgetting, Stored
      <4>2. Known(s, f) => Known(s, f)'
        <5>1. CASE Writes(k) /\ run[k].site = s
          BY <1>e, <1>s, <2>1, <5>1
        <5>2. CASE ~(Writes(k) /\ run[k].site = s)
          BY <1>w, <4>1, <5>2, KnownBySlot
        <5> QED BY <5>1, <5>2
      <4> QED BY <1>l, <2>1, <2>2, <3>2, <4>2, QuietAccount
    <3> QED BY <3>3, <3>4
  <2> QED BY <2>3, <2>4
<1>5. CASE Shutdown
  <2>1. UNCHANGED <<record, request, run>> /\ mode = "up" /\ Mishaps' = Mishaps + 1
    BY <1>5, MishapsCount DEF Shutdown, durable
  <2>2. Known(s, f) => Known(s, f)'
    BY <1>s, <2>1
  <2>3. Forgetting(s, f)' => Forgetting(s, f)
    BY <2>1 DEF Forgetting
  <2> QED BY <1>l, <1>t, <2>1, <2>2, <2>3 DEF Accounted, Balance, One
<1>6. ASSUME LoseMemory
      PROVE  ~Forgetting(s, f)' /\ mode' = "down"
  BY <1>6, NewRecordsStoreNothing DEF LoseMemory, Forgetting
<1>7. CASE Crash
  <2>1. LoseMemory /\ Mishaps' = Mishaps + 1
    BY <1>7, MishapsCount DEF Crash
  <2> QED BY <1>6, <1>l, <2>1, PaidAccount
<1>8. CASE Exit
  <2>1. LoseMemory /\ mode = "stopping" /\ Mishaps' = Mishaps
    BY <1>8, MishapsCount DEF Exit
  <2> QED BY <1>6, <1>l, <1>t, <2>1 DEF Accounted, Balance, One
<1>9. CASE Boot \/ BootBlind
  <2>1. /\ UNCHANGED <<record, request>> /\ mode = "down" /\ mode' = "up"
        /\ Mishaps' \in {Mishaps, Mishaps + 1}
    BY <1>9, MishapsCount DEF Boot, BootBlind, durable
  <2>2. ~Writes(k)
    BY <2>1 DEF DownIsEmpty, Writes
  <2>3. Known(s, f) => Known(s, f)'
    BY <1>s, <2>1, <2>2
  <2>4. Forgetting(s, f)' => Forgetting(s, f)
    BY <2>1 DEF Forgetting
  <2> QED BY <1>l, <2>1, <2>3, <2>4, QuietAccount
<1> QED BY <1>1, <1>2, <1>3, <1>4, <1>5, <1>7, <1>8, <1>9 DEF OtherSteps


\* The steps of a run that move no file know afterwards what they knew before.
LEMMA RunsRemember ==
    ASSUME Concurrency = 1, TypeInv, UploadsAreNew, NEW k \in Slots,
           NEW s \in Sites, NEW f \in Files,
           \/ RunRead(k) \/ RunClaim(k) \/ SyncStart(k) \/ SyncFails(k)
           \/ \E g \in Files : UploadFails(k, g)
           \/ SyncReturns(k) \/ SyncReturnsUnchecked(k) \/ RunSettle(k) \/ RunDone(k)
    PROVE  Known(s, f) => Known(s, f)'
<1>a. /\ run[k] \in Run /\ run[k].rec \in Record /\ run[k].folder \in Folders
      /\ record \in [Sites -> Record]
  BY DEF TypeInv, TypeOK, Run
<1>b. run[k].phase # "idle" => run[k].site \in Sites
  BY DEF TypeInv, BusySlotsHaveSite
<1>f. Fresh(run'[k]) => ~Writes(k)'
  BY FreshRuns DEF Writes
<1>g. Release(k) => Fresh(run'[k])
  BY ReleaseKeeps DEF TypeInv, ReleasesTo, Fresh
\* The store keeps what it knows, and the run had nothing to save.
<1>h. ASSUME ~Writes(k), ~Writes(k)', UNCHANGED record
      PROVE  Known(s, f) => Known(s, f)'
  BY <1>h, StoreKnows
\* The run goes on with what it knows.
<1>i. ASSUME Writes(k), Writes(k)', run'[k].site = run[k].site,
             \A t \in Sites : t # run[k].site => record'[t] = record[t],
             run[k].site = s /\ RunKnows(k, f) => RunKnows(k, f)'
      PROVE  Known(s, f) => Known(s, f)'
  BY <1>i, KnownBySlot
\* RunKnows is about the record, or about the files that landed.
<1>r. \A g \in Files : run[k].phase # "uploading" => (RunKnows(k, g) <=> g \in Stored(run[k].rec))
  BY DEF RunKnows
<1>r2. \A g \in Files : g \in Stored(run'[k].rec) => RunKnows(k, g)'
  BY DEF RunKnows, Stored
<1>1. CASE RunRead(k)
  <2>1. ~Writes(k) /\ UNCHANGED record /\ run[k].site \in Sites
    BY <1>1, <1>b DEF RunRead, Writes, durable
  <2>2. CASE ~Writes(k)'
    BY <1>h, <2>1, <2>2
  <2>3. CASE Writes(k)'
    <3>1. /\ run'[k].site = run[k].site
          /\ run'[k].rec.stored = record[run[k].site].stored
      BY <1>1, <2>3, RunStepWrites DEF RunStep, RunRead
    <3>2. f \in Stored(record[s]) /\ run[k].site = s => RunKnows(k, f)'
      BY <1>r2, <3>1 DEF Stored
    <3>3. record'[s] = record[s]
      BY <2>1
    <3> QED BY <2>1, <2>3, <3>1, <3>2, <3>3, KnownBySlot
  <2> QED BY <2>2, <2>3
<1>2. CASE RunClaim(k)
  <2>1. Writes(k) /\ record' = [record EXCEPT ![run[k].site] = run[k].rec] /\ run[k].phase = "claiming"
    BY <1>2 DEF RunClaim, Writes
  <2>2. run'[k].phase \in {"settling", "syncing"}
    BY <1>2, <1>a DEF RunClaim, TypeInv, TypeOK, Run
  <2>3. run'[k].site = run[k].site /\ run'[k].rec.stored = run[k].rec.stored
    BY <1>2, <2>1, <2>2, RunStepWrites DEF RunStep, Writes
  <2>4. RunKnows(k, f) => RunKnows(k, f)'
    BY <1>r, <1>r2, <2>1, <2>3 DEF Stored
  <2>5. Writes(k)'
    BY <2>2 DEF Writes
  <2> QED BY <1>a, <1>i, <2>1, <2>3, <2>4, <2>5
<1>3. CASE SyncStart(k)
  <2>1. run'[k].site = run[k].site /\ run'[k].phase = "uploading" /\ run'[k].rec = run[k].rec
    <3>1. PICK n \in Folders :
            run' = [run EXCEPT ![k].phase = "uploading", ![k].folder = n, ![k].landed = {}]
      BY <1>3 DEF SyncStart
    <3> QED BY <1>a, <3>1 DEF TypeInv, TypeOK, Run
  <2>2. UNCHANGED record /\ run[k].phase = "syncing"
    BY <1>3 DEF SyncStart, durable
  <2>3. RunKnows(k, f) => RunKnows(k, f)'
    BY <1>r, <1>r2, <2>1, <2>2
  <2> QED BY <1>i, <2>1, <2>2, <2>3 DEF Writes
<1>4. CASE SyncFails(k)
  <2>1. PICK n \in Folders :
          run' = [run EXCEPT ![k].phase = "settling",
                             ![k].rec = Outcome(run[k].rec, n, {}),
                             ![k].todo = {}]
    BY <1>4 DEF SyncFails
  <2>2. /\ run'[k].site = run[k].site /\ run'[k].phase = "settling"
        /\ run'[k].rec = Outcome(run[k].rec, n, {})
    BY <1>a, <2>1 DEF TypeInv, TypeOK, Run
  <2>3. Stored(run'[k].rec) = Stored(run[k].rec)
    <3>1. Stored(Outcome(run[k].rec, n, {})) = Stored(run[k].rec) \cup {}
      BY <1>a, OutcomeFiles
    <3> QED BY <2>2, <3>1
  <2>4. UNCHANGED record /\ run[k].phase = "syncing"
    BY <1>4 DEF SyncFails, durable
  <2>5. RunKnows(k, f) => RunKnows(k, f)'
    BY <1>r, <1>r2, <2>3, <2>4
  <2> QED BY <1>i, <2>2, <2>4, <2>5 DEF Writes
<1>5. ASSUME NEW g \in Files, UploadFails(k, g)
      PROVE  Known(s, f) => Known(s, f)'
  <2>1. /\ run'[k].site = run[k].site /\ run'[k].phase = "uploading" /\ run'[k].rec = run[k].rec
        /\ run'[k].landed = run[k].landed /\ run'[k].folder = run[k].folder
        /\ UNCHANGED <<record, library>> /\ run[k].phase = "uploading"
    BY <1>5, <1>a DEF UploadFails, NextFile, TypeInv, TypeOK, Run, durable
  <2>2. RunKnows(k, f) => RunKnows(k, f)'
    BY <2>1 DEF RunKnows, Stored
  <2> QED BY <1>i, <2>1, <2>2 DEF Writes
<1>6. CASE SyncReturns(k) \/ SyncReturnsUnchecked(k)
  <2>1. PICK synced \in SUBSET Files :
              /\ Seen(k) \subseteq synced
              /\ Report(k, synced)
              /\ run'[k].site = run[k].site
              /\ run'[k].phase = "settling"
              /\ run'[k].rec = Outcome(run[k].rec, run[k].folder, synced)
    BY <1>6, NewlySeen
  <2>2. UNCHANGED record /\ run[k].phase = "uploading"
    BY <2>1 DEF Report, durable
  <2>3. Stored(run'[k].rec) = Stored(run[k].rec) \cup synced
    <3>1. Stored(Outcome(run[k].rec, run[k].folder, synced)) = Stored(run[k].rec) \cup synced
      BY <1>a, OutcomeFiles
    <3> QED BY <2>1, <3>1
  <2>4. RunKnows(k, f) => f \in Stored(run[k].rec) \/ f \in Seen(k)
    BY DEF RunKnows, Seen
  <2>5. RunKnows(k, f) => RunKnows(k, f)'
    BY <1>r2, <2>1, <2>3, <2>4
  <2> QED BY <1>i, <2>1, <2>2, <2>5 DEF Writes
<1>7. CASE RunSettle(k)
  <2>1. /\ run[k].phase = "settling" /\ record' = [record EXCEPT ![run[k].site] = run[k].rec]
        /\ run[k].site \in Sites /\ Writes(k)
    BY <1>7, <1>b DEF RunSettle, Writes
  <2>2. run'[k].phase = "settled"
    BY <1>7, <1>a DEF RunSettle, TypeInv, TypeOK, Run
  <2>3. ~Writes(k)'
    BY <2>2 DEF Writes
  <2>4. CASE run[k].site = s
    <3>1. record'[s] = run[k].rec
      BY <1>a, <2>1, <2>4
    <3> QED BY <1>r, <2>1, <2>3, <2>4, <3>1, KnownBySlot
  <2>5. CASE run[k].site # s
    <3>1. record'[s] = record[s]
      BY <1>a, <2>1, <2>5
    <3> QED BY <2>3, <2>5, <3>1, KnownBySlot
  <2> QED BY <2>4, <2>5
<1>8. CASE RunDone(k)
  <2>1. ~Writes(k) /\ Release(k) /\ UNCHANGED record
    BY <1>8 DEF RunDone, Writes
  <2> QED BY <1>f, <1>g, <1>h, <2>1
<1> QED BY <1>1, <1>2, <1>3, <1>4, <1>5, <1>6, <1>7, <1>8

LEMMA AccountsRunSteps ==
    ASSUME Concurrency = 1, TypeInv, UploadsAreNew, NEW k \in Slots, RunStep(k) \/ RunThrows(k),
           NEW s \in Sites, NEW f \in Files, Accounted(s, f)
    PROVE  Accounted(s, f)'
<1>a. /\ run[k] \in Run /\ library \in [Sites -> [Files -> SUBSET Folders]]
      /\ Cardinality(library[s][f]) \in Nat /\ Mishaps \in Nat
  BY CopiesAreFinite, MishapsCount DEF TypeInv, TypeOK
<1>b. Forgetting(s, f)' => Forgetting(s, f)
  BY RunStepWrites DEF Forgetting
<1>c. mode' = mode
  BY RunStepWrites
<1>1. CASE \/ RunRead(k) \/ RunClaim(k) \/ SyncStart(k) \/ SyncFails(k)
           \/ \E g \in Files : UploadFails(k, g)
           \/ SyncReturns(k) \/ SyncReturnsUnchecked(k) \/ RunSettle(k) \/ RunDone(k)
  <2>1. library' = library
    BY <1>1 DEF RunRead, RunClaim, SyncStart, SyncFails, UploadFails, SyncReturns,
                SyncReturnsUnchecked, Report, RunSettle, RunDone, durable
  <2>2. Mishaps' = Mishaps
    <3>1. CASE SyncReturnsUnchecked(k)
      BY <3>1, MishapsCount DEF SyncReturnsUnchecked
    <3>2. CASE ~SyncReturnsUnchecked(k)
      <4>1. UNCHANGED spent
        BY <1>1, <3>2 DEF RunRead, RunClaim, SyncStart, SyncFails, UploadFails, SyncReturns,
                          RunSettle, RunDone
      <4> QED BY <4>1, MishapsCount
    <3> QED BY <3>1, <3>2
  <2>3. Known(s, f) => Known(s, f)'
    BY <1>1, RunsRemember
  <2> QED BY <1>b, <1>c, <2>1, <2>2, <2>3, QuietAccount
<1>2. CASE RunThrows(k)
  <2>1. library' = library /\ Mishaps' = Mishaps + 1
    BY <1>2, MishapsCount DEF RunThrows
  <2> QED BY <1>b, <1>c, <2>1, PaidAccount
<1>3. ASSUME NEW g \in Files, UploadLands(k, g) \/ UploadReplyLost(k, g)
      PROVE  Accounted(s, f)'
  <2> DEFINE n == run[k].folder
  <2>1. /\ run[k].phase = "uploading" /\ g \in run[k].todo /\ UNCHANGED record
        /\ run[k].site \in Sites
        /\ library' = [library EXCEPT ![run[k].site][g] = @ \cup {n}]
    BY <1>3 DEF UploadLands, UploadReplyLost, NextFile, TypeInv, BusySlotsHaveSite
  <2>2. /\ run'[k].site = run[k].site /\ run'[k].phase = "uploading"
        /\ run'[k].rec = run[k].rec /\ run'[k].folder = n
        /\ run[k].landed \subseteq run'[k].landed
        /\ UploadLands(k, g) => g \in run'[k].landed
    <3>1. CASE UploadLands(k, g)
      BY <3>1, <1>a, <2>1 DEF UploadLands, TypeInv, TypeOK, Run
    <3>2. CASE UploadReplyLost(k, g) /\ ~UploadLands(k, g)
      <4>1. run' = [run EXCEPT ![k].todo = @ \ {g}]
        BY <3>2 DEF UploadReplyLost
      <4> QED BY <3>2, <4>1, <1>a, <2>1 DEF TypeInv, TypeOK, Run
    <3> QED BY <1>3, <3>1, <3>2
  <2>3. Writes(k) /\ Writes(k)'
    BY <2>1, <2>2 DEF Writes
  <2>4. n \in library'[run[k].site][g]
    BY <1>a, <2>1
  <2>5. \A t \in Sites, h \in Files : library[t][h] \subseteq library'[t][h]
    BY <1>a, <2>1
  <2>6. Known(s, f) => Known(s, f)'
    <3>1. CASE run[k].site = s
      <4>1. RunKnows(k, f) => RunKnows(k, f)'
        BY <2>1, <2>2, <2>5, <3>1 DEF RunKnows
      <4> QED BY <2>2, <2>3, <3>1, <4>1, KnownBySlot
    <3>2. CASE run[k].site # s
      BY <2>1, <2>2, <3>2, KnownBySlot
    <3> QED BY <3>1, <3>2
  <2>7. CASE run[k].site # s \/ g # f
    <3>1. library'[s][f] = library[s][f]
      BY <1>a, <2>1, <2>7
    <3>2. Mishaps' \in {Mishaps, Mishaps + 1}
      BY <1>3, MishapsCount DEF UploadLands, UploadReplyLost
    <3> QED BY <1>b, <1>c, <2>6, <3>1, <3>2, QuietAccount
  <2>8. CASE run[k].site = s /\ g = f
    <3>1. library'[s][f] = library[s][f] \cup {n}
      BY <1>a, <2>1, <2>8
    <3>2. /\ Cardinality(library'[s][f]) \in Nat
          /\ Cardinality(library'[s][f]) <= Cardinality(library[s][f]) + 1
      BY <3>1, CopiesAreFinite
    <3>3. CASE UploadReplyLost(k, g)
      <4>1. Mishaps' = Mishaps + 1
        BY <3>3, MishapsCount DEF UploadReplyLost
      <4> QED BY <1>a, <1>b, <1>c, <2>6, <3>2, <4>1 DEF Accounted, Balance, One
    <3>4. CASE UploadLands(k, g)
      <4>1. Mishaps' = Mishaps
        BY <3>4, MishapsCount DEF UploadLands
      <4>2. ~Known(s, f)
        <5>1. ~RunKnows(k, f)
          BY <2>1, <2>8 DEF UploadsAreNew, RunKnows
        <5> QED BY <2>3, <2>8, <5>1, KnownBySlot
      <4>3. Known(s, f)'
        <5>1. RunKnows(k, f)'
          BY <2>2, <2>4, <2>8, <3>4 DEF RunKnows
        <5> QED BY <2>2, <2>3, <2>8, <5>1, KnownBySlot
      <4> QED BY <1>a, <1>b, <1>c, <3>2, <4>1, <4>2, <4>3 DEF Accounted, Balance, One
    <3> QED BY <1>3, <3>3, <3>4
  <2> QED BY <2>7, <2>8
<1> QED BY <1>1, <1>2, <1>3 DEF RunStep, Sync

LEMMA AccountsFlowTakes ==
    ASSUME Concurrency = 1, TypeInv, NEW k \in Slots, NEW g \in Files, FlowTakes(k, g),
           NEW s \in Sites, NEW f \in Files, Accounted(s, f)
    PROVE  Accounted(s, f)'
<1> DEFINE n == run[k].folder
<1>a. /\ library \in [Sites -> [Files -> SUBSET Folders]]
      /\ Cardinality(library[s][f]) \in Nat /\ Mishaps \in Nat
  BY CopiesAreFinite, MishapsCount DEF TypeInv, TypeOK
<1>1. /\ UNCHANGED <<mode, record, run, request>>
      /\ n \in library[run[k].site][g] /\ run[k].site \in Sites
      /\ library' = [library EXCEPT ![run[k].site][g] = @ \ {n}]
  BY DEF FlowTakes, TypeInv, BusySlotsHaveSite
<1>2. Mishaps' = Mishaps
  BY MishapsCount DEF FlowTakes
<1>3. Forgetting(s, f)' => Forgetting(s, f)
  BY <1>1 DEF Forgetting
<1>4. CASE run[k].site # s \/ g # f
  <2>1. library'[s][f] = library[s][f]
    BY <1>a, <1>1, <1>4
  <2>2. Known(s, f) => Known(s, f)'
    <3>1. run[k].site = s => (RunKnows(k, f)' <=> RunKnows(k, f))
      BY <1>1, <2>1 DEF RunKnows
    <3>2. Writes(k)' <=> Writes(k)
      BY <1>1 DEF Writes
    <3> QED BY <1>1, <3>1, <3>2, KnownBySlot
  <2> QED BY <1>1, <1>2, <1>3, <2>1, <2>2, QuietAccount
<1>5. CASE run[k].site = s /\ g = f
  <2>1. library'[s][f] = library[s][f] \ {n}
    BY <1>a, <1>1, <1>5
  <2>2. Cardinality(library'[s][f]) = Cardinality(library[s][f]) - 1
    BY <1>1, <1>5, <2>1, CopiesAreFinite
  <2> QED BY <1>a, <1>1, <1>2, <1>3, <2>2 DEF Accounted, Balance, One
<1> QED BY <1>4, <1>5

\* With one slot each copy of a file beyond the first is paid for by a crash or
\* shutdown, a failed store call, a lost answer or a manual retry.
THEOREM DuplicatesAreAccountedFor ==
    ASSUME Concurrency = 1
    PROVE  Spec => []DuplicatesNeedMishaps
<1>1. Init => CopiesAreAccounted /\ DownIsEmpty
  <2> SUFFICES ASSUME Init PROVE CopiesAreAccounted /\ DownIsEmpty
    OBVIOUS
  <2>1. Mishaps = 0
    BY DEF Init, Mishaps, EventKinds
  <2>2. \A s \in Sites, f \in Files : library[s][f] = {} /\ ~Forgetting(s, f)
    BY NewRecordsStoreNothing DEF Init, Forgetting
  <2>3. mode = "up"
    BY DEF Init
  <2> QED BY SMTT(30), <2>1, <2>2, <2>3, FS_EmptySet DEF CopiesAreAccounted, One, DownIsEmpty
<1>2. TypeInv /\ OneSlotInv /\ CopiesAreAccounted /\ DownIsEmpty /\ [Next]_vars
         => (CopiesAreAccounted /\ DownIsEmpty)'
  <2> SUFFICES ASSUME TypeInv, OneSlotInv, CopiesAreAccounted, DownIsEmpty, [Next]_vars
               PROVE  CopiesAreAccounted' /\ DownIsEmpty'
    OBVIOUS
  <2>1. DownIsEmpty'
    BY DownIsEmptyStep
  <2>2. ASSUME NEW s \in Sites, NEW f \in Files
        PROVE  Accounted(s, f)'
    <3>1. Accounted(s, f)
      BY DEF CopiesAreAccounted, Accounted, Balance
    <3>2. CASE OtherSteps
      BY <3>1, <3>2, AccountsOtherSteps DEF OneSlotInv
    <3>3. CASE \E k \in Slots : RunStep(k) \/ RunThrows(k)
      BY <3>1, <3>3, AccountsRunSteps DEF OneSlotInv
    <3>4. CASE \E k \in Slots, g \in Files : FlowTakes(k, g)
      BY <3>1, <3>4, AccountsFlowTakes
    <3>5. CASE UNCHANGED vars
      BY <3>1, <3>5 DEF vars, Accounted, Balance, Known, Forgetting, Mishaps, Writes, RunKnows
    <3> QED BY <3>2, <3>3, <3>4, <3>5 DEF Next, OtherSteps
  <2> QED BY <2>1, <2>2 DEF CopiesAreAccounted, Accounted, Balance
<1>3. TypeInv /\ CopiesAreAccounted => DuplicatesNeedMishaps
  <2> SUFFICES ASSUME TypeInv, CopiesAreAccounted, NEW s \in Sites, NEW f \in Files
               PROVE  Cardinality(library[s][f]) <= 1 + Mishaps
    BY DEF DuplicatesNeedMishaps
  <2>1. Cardinality(library[s][f]) \in Nat /\ Mishaps \in Nat
    BY CopiesAreFinite, MishapsCount
  <2> QED BY <2>1 DEF CopiesAreAccounted, One
<1> QED BY <1>1, <1>2, <1>3, OneSlotInvariant, PTL DEF Spec


----------------------------------------------------------------------------
(* The pipeline implements the safety half of FilingPromise *)

\* A submission told 202, or about to be told, is in the store.
AcceptedIsRecorded == \A s \in Accepted : record[s].status # "NONE"

\* What is known in every state of a run that nothing hid from the listing.
PromiseInv == TypeInv /\ OneSlotInv /\ FilesInv /\ AcceptedIsRecorded

\* The status of an accepted submission's record is then to be believed.
Believed(s) ==
    IF s \notin Accepted THEN "none"
    ELSE IF record[s].status \in OpenStatuses THEN "owed"
    ELSE IF record[s].status = "COMPLETED" THEN "filed"
    ELSE "short"

LEMMA StatusesAreBelieved ==
    ASSUME PromiseInv, Verified, NEW s \in Sites
    PROVE  PromiseOf(s) = Believed(s)
<1>a. record[s] \in Record /\ CopiesAreTrue /\ NothingIsLost /\ Honest(record[s])
  BY DEF PromiseInv, TypeInv, TypeOK, FilesInv, HonestInv
<1>1. record[s].status \in Statuses
  BY <1>a DEF Record
<1>2. CASE s \notin Accepted
  BY <1>2 DEF PromiseOf, Believed
<1>3. CASE s \in Accepted
  <2>1. record[s].status \in OpenStatuses \cup TerminalStatuses
    BY <1>1, <1>3 DEF PromiseInv, AcceptedIsRecorded, Statuses, OpenStatuses, TerminalStatuses
  <2>2. CASE record[s].status \in OpenStatuses
    BY <1>3, <2>2 DEF PromiseOf, Believed, Unfinished, OpenStatuses
  <2>3. CASE record[s].status = "COMPLETED"
    <3>1. AllStored(record[s])
      BY <1>a, <2>3 DEF Honest
    <3>2. \A f \in Files : record[s].stored[f] # NotStored
      BY <3>1 DEF AllStored, NotFiled, Stored
    <3>3. Filed(s)
      BY <1>a, <3>2 DEF CopiesAreTrue, Truthful, Filed
    <3> QED BY <1>3, <2>3, <3>3 DEF PromiseOf, Believed, Unfinished, OpenStatuses
  <2>4. CASE record[s].status \in {"PARTIAL", "FAILED"}
    <3>1. Kept(s)
      BY <1>3, <1>a DEF NothingIsLost, Kept
    <3> QED BY <1>3, <2>4, <3>1 DEF PromiseOf, Believed, Unfinished, OpenStatuses
  <2> QED BY <2>1, <2>2, <2>3, <2>4 DEF TerminalStatuses
<1> QED BY <1>2, <1>3

\* Whose acceptance a step changes: only an accept adds a submission.
LEMMA AcceptedSteps ==
    ASSUME TypeInv, [Next]_vars
    PROVE  \/ Accepted' = Accepted
           \/ \E s \in Sites : IntakeAccept(s) /\ s \notin Accepted /\ Accepted' = Accepted \cup {s}
<1>0. intake \in [Sites -> IntakeStates]
  BY DEF TypeInv, TypeOK
<1>1. ASSUME NEW s \in Sites, IntakeAccept(s)
      PROVE  s \notin Accepted /\ Accepted' = Accepted \cup {s}
  BY <1>0, <1>1 DEF IntakeAccept, NextSite, Accepted
<1>2. ASSUME NEW s \in Sites, IntakeFails(s) \/ IntakeAnswer(s)
      PROVE  Accepted' = Accepted
  BY <1>0, <1>2 DEF IntakeFails, IntakeAnswer, NextSite, Accepted
<1>3. CASE LoseMemory
  BY <1>0, <1>3 DEF LoseMemory, Accepted
<1>4. CASE UNCHANGED intake
  BY <1>4 DEF Accepted
<1>5. ASSUME NEW k \in Slots, RunStep(k) \/ RunThrows(k)
      PROVE  UNCHANGED intake
  <2>1. CASE RunRead(k) \/ RunClaim(k) \/ RunSettle(k) \/ RunDone(k) \/ RunThrows(k)
    BY <2>1 DEF RunRead, RunClaim, RunSettle, RunDone, RunThrows
  <2>2. CASE SyncStart(k) \/ SyncFails(k)
    BY <2>2 DEF SyncStart, SyncFails
  <2>3. CASE SyncReturns(k) \/ SyncReturnsUnchecked(k)
    BY <2>3 DEF SyncReturns, SyncReturnsUnchecked, Report
  <2>4. CASE \E f \in Files : UploadLands(k, f) \/ UploadFails(k, f) \/ UploadReplyLost(k, f)
    BY <2>4 DEF UploadLands, UploadFails, UploadReplyLost
  <2> QED BY <1>5, <2>1, <2>2, <2>3, <2>4 DEF RunStep, Sync
<1>6. ASSUME NEW s \in Sites, TimerFires(s) \/ RetryRead(s) \/ RetrySave(s)
      PROVE  UNCHANGED intake
  BY <1>6 DEF TimerFires, RetryRead, RetrySave
<1>7. CASE Shutdown \/ Boot \/ BootBlind
  BY <1>4, <1>7 DEF Shutdown, Boot, BootBlind
<1>8. CASE \E k \in Slots, f \in Files : FlowTakes(k, f)
  BY <1>4, <1>8 DEF FlowTakes
<1>9. CASE Crash \/ Exit
  BY <1>3, <1>9 DEF Crash, Exit
<1>10. CASE UNCHANGED vars
  BY <1>4, <1>10 DEF vars
<1>11. CASE \E s \in Sites : IntakeAccept(s)
  BY <1>1, <1>11
<1>12. CASE \/ \E s \in Sites : IntakeFails(s) \/ IntakeAnswer(s)
            \/ \E s \in Sites : TimerFires(s) \/ RetryRead(s) \/ RetrySave(s)
  <2>1. CASE \E s \in Sites : IntakeFails(s) \/ IntakeAnswer(s)
    BY <1>2, <2>1
  <2>2. CASE \E s \in Sites : TimerFires(s) \/ RetryRead(s) \/ RetrySave(s)
    BY <1>4, <1>6, <2>2
  <2> QED BY <1>12, <2>1, <2>2
<1>13. CASE \E k \in Slots : RunStep(k) \/ RunThrows(k)
  BY <1>4, <1>5, <1>13
<1> QED BY <1>7, <1>8, <1>9, <1>10, <1>11, <1>12, <1>13 DEF Next

\* What a step does to the status of one record at most.
LEMMA StatusSteps ==
    ASSUME TypeInv, OneSlotInv, [Next]_vars
    PROVE  \/ UNCHANGED record
           \/ \E s \in Sites :
                /\ \A t \in Sites \ {s} : record'[t] = record[t]
                /\ \/ record'[s].status \in OpenStatuses
                   \/ /\ record[s].status \in OpenStatuses
                      /\ record'[s].status \in TerminalStatuses
<1>0. record \in [Sites -> Record] /\ request \in [Sites -> Record]
  BY DEF TypeInv, TypeOK
<1>1. CASE OtherSteps
  <2>1. ASSUME NEW s \in Sites, record' = [record EXCEPT ![s] = AcceptedRecord]
        PROVE  /\ \A t \in Sites \ {s} : record'[t] = record[t]
               /\ record'[s].status \in OpenStatuses
    BY <1>0, <2>1, NewRecordsStoreNothing DEF OpenStatuses
  <2>2. ASSUME NEW s \in Sites,
               record' = [record EXCEPT ![s] = [request[s] EXCEPT !.attempts = 0, !.status = "QUEUED"]]
        PROVE  /\ \A t \in Sites \ {s} : record'[t] = record[t]
               /\ record'[s].status \in OpenStatuses
    BY <1>0, <2>2, ReopenedRecord DEF OpenStatuses
  <2>3. \/ UNCHANGED record
        \/ \E s \in Sites : record' = [record EXCEPT ![s] = AcceptedRecord]
        \/ \E s \in Sites :
              record' = [record EXCEPT ![s] = [request[s] EXCEPT !.attempts = 0, !.status = "QUEUED"]]
    BY <1>1, OtherStepsWrite
  <2> QED BY <2>1, <2>2, <2>3
<1>2. ASSUME NEW k \in Slots, RunStep(k) \/ RunThrows(k), ~UNCHANGED record
      PROVE  \E s \in Sites :
                /\ \A t \in Sites \ {s} : record'[t] = record[t]
                /\ \/ record'[s].status \in OpenStatuses
                   \/ /\ record[s].status \in OpenStatuses
                      /\ record'[s].status \in TerminalStatuses
  <2>1. Writes(k) /\ record' = [record EXCEPT ![run[k].site] = run[k].rec]
    BY <1>2, RunStepWrites DEF OneSlotInv
  <2>2. run[k].site \in Sites
    BY <2>1 DEF Writes, TypeInv, BusySlotsHaveSite
  <2>3. record'[run[k].site] = run[k].rec /\ \A t \in Sites \ {run[k].site} : record'[t] = record[t]
    BY <1>0, <2>1, <2>2
  <2>4. CASE run[k].phase \in {"claiming", "syncing", "uploading"}
    BY <2>2, <2>3, <2>4 DEF OneSlotInv, RunsAreProcessing, OpenStatuses
  <2>5. CASE run[k].phase = "settling"
    <3>1. run[k].rec.status \in OpenStatuses \cup TerminalStatuses
      BY <2>5 DEF OneSlotInv, RunsAreProcessing, OpenStatuses
    <3>2. record[run[k].site].status \in OpenStatuses
      BY <2>5 DEF OneSlotInv, RunsAreOpen
    <3> QED BY <2>2, <2>3, <3>1, <3>2
  <2> QED BY <2>1, <2>4, <2>5 DEF Writes
<1>3. CASE \E k \in Slots, f \in Files : FlowTakes(k, f)
  BY <1>3 DEF FlowTakes
<1>4. CASE UNCHANGED vars
  BY <1>4 DEF vars
<1> QED BY <1>1, <1>2, <1>3, <1>4 DEF Next, OtherSteps


\* Seen through PromiseOf, a step is a step of FilingPromise or a stutter.
LEMMA PromiseStep ==
    ASSUME TypeInv, OneSlotInv, [Next]_vars,
           \A s \in Sites : PromiseOf(s) = Believed(s),
           \A s \in Sites : PromiseOf(s)' = Believed(s)'
    PROVE  \/ Promise!Next
           \/ [s \in Sites |-> PromiseOf(s)]' = [s \in Sites |-> PromiseOf(s)]
<1> DEFINE P == [s \in Sites |-> PromiseOf(s)]
           Q == [s \in Sites |-> PromiseOf(s)']
<1>0. P' = Q
  OBVIOUS
<1>1. ASSUME NEW s \in Sites,
             \A t \in Sites \ {s} : PromiseOf(t)' = PromiseOf(t),
             \/ PromiseOf(s)' = PromiseOf(s)
             \/ PromiseOf(s) = "none" /\ PromiseOf(s)' = "owed"
             \/ PromiseOf(s) = "owed" /\ PromiseOf(s)' \in {"filed", "short"}
             \/ PromiseOf(s) \in {"filed", "short"} /\ PromiseOf(s)' = "owed"
      PROVE  \/ Promise!Next
             \/ P' = P
  <2>1. CASE PromiseOf(s)' = PromiseOf(s)
    BY <1>0, <1>1, <2>1
  <2>2. Q = [P EXCEPT ![s] = PromiseOf(s)']
    BY <1>1
  <2>3. P[s] = PromiseOf(s)
    OBVIOUS
  <2>4. ASSUME NEW from, NEW to, PromiseOf(s) \in from, PromiseOf(s)' = to
        PROVE  Promise!Becomes(s, from, to)
    BY <1>0, <2>2, <2>3, <2>4 DEF Promise!Becomes
  <2>5. CASE PromiseOf(s) = "none" /\ PromiseOf(s)' = "owed"
    BY <2>4, <2>5 DEF Promise!Next, Promise!Accept
  <2>6. CASE PromiseOf(s) = "owed" /\ PromiseOf(s)' \in {"filed", "short"}
    BY <2>4, <2>6 DEF Promise!Next, Promise!File, Promise!FallShort
  <2>7. CASE PromiseOf(s) \in {"filed", "short"} /\ PromiseOf(s)' = "owed"
    BY <2>4, <2>7 DEF Promise!Next, Promise!Reopen
  <2> QED BY <1>1, <2>1, <2>5, <2>6, <2>7
\* Whose standing changes, and how.
<1>2. ASSUME NEW s \in Sites, IntakeAccept(s), s \notin Accepted, Accepted' = Accepted \cup {s}
      PROVE  /\ \A t \in Sites \ {s} : PromiseOf(t)' = PromiseOf(t)
             /\ PromiseOf(s) = "none" /\ PromiseOf(s)' = "owed"
  <2>1. record'[s] = AcceptedRecord /\ \A t \in Sites \ {s} : record'[t] = record[t]
    BY <1>2 DEF IntakeAccept, TypeInv, TypeOK
  <2>2. Believed(s) = "none" /\ Believed(s)' = "owed"
    BY <1>2, <2>1, NewRecordsStoreNothing DEF Believed, OpenStatuses
  <2>3. \A t \in Sites \ {s} : Believed(t)' = Believed(t)
    BY <1>2, <2>1 DEF Believed
  <2> QED BY <2>2, <2>3
<1>3. ASSUME Accepted' = Accepted, UNCHANGED record
      PROVE  P' = P
  <2>1. \A s \in Sites : Believed(s)' = Believed(s)
    BY <1>3 DEF Believed
  <2> QED BY <1>0, <2>1
<1>4. ASSUME Accepted' = Accepted, NEW s \in Sites, \A t \in Sites \ {s} : record'[t] = record[t],
             \/ record'[s].status \in OpenStatuses
             \/ /\ record[s].status \in OpenStatuses
                /\ record'[s].status \in TerminalStatuses
      PROVE  /\ \A t \in Sites \ {s} : PromiseOf(t)' = PromiseOf(t)
             /\ \/ PromiseOf(s)' = PromiseOf(s)
                \/ PromiseOf(s) = "none" /\ PromiseOf(s)' = "owed"
                \/ PromiseOf(s) = "owed" /\ PromiseOf(s)' \in {"filed", "short"}
                \/ PromiseOf(s) \in {"filed", "short"} /\ PromiseOf(s)' = "owed"
  <2>1. \A t \in Sites \ {s} : Believed(t)' = Believed(t)
    BY <1>4 DEF Believed
  <2>2. \/ Believed(s)' = Believed(s)
        \/ Believed(s) = "none" /\ Believed(s)' = "owed"
        \/ Believed(s) = "owed" /\ Believed(s)' \in {"filed", "short"}
        \/ Believed(s) \in {"filed", "short"} /\ Believed(s)' = "owed"
    BY <1>4 DEF Believed, OpenStatuses, TerminalStatuses
  <2> QED BY <2>1, <2>2
<1>5. CASE Accepted' = Accepted
  BY <1>1, <1>3, <1>4, <1>5, StatusSteps
<1>6. CASE \E s \in Sites : IntakeAccept(s) /\ s \notin Accepted /\ Accepted' = Accepted \cup {s}
  BY <1>1, <1>2, <1>6
<1> QED BY <1>5, <1>6, AcceptedSteps

LEMMA AcceptedIsRecordedStep ==
    TypeInv /\ OneSlotInv /\ AcceptedIsRecorded /\ [Next]_vars => AcceptedIsRecorded'
<1> SUFFICES ASSUME TypeInv, OneSlotInv, AcceptedIsRecorded, [Next]_vars, NEW s \in Accepted'
             PROVE  record'[s].status # "NONE"
  BY DEF AcceptedIsRecorded
<1>0. s \in Sites
  BY DEF Accepted
<1>1. CASE s \in Accepted
  <2>1. record[s].status # "NONE"
    BY <1>1 DEF AcceptedIsRecorded
  <2>2. CASE UNCHANGED record
    BY <2>1, <2>2
  <2>3. ASSUME NEW t \in Sites, \A u \in Sites \ {t} : record'[u] = record[u],
               record'[t].status \in OpenStatuses \cup TerminalStatuses
        PROVE  record'[s].status # "NONE"
    BY <1>0, <2>1, <2>3 DEF OpenStatuses, TerminalStatuses
  <2> QED BY <2>2, <2>3, StatusSteps
<1>2. CASE s \notin Accepted
  <2>1. IntakeAccept(s)
    BY <1>2, AcceptedSteps
  <2>2. record'[s] = AcceptedRecord
    BY <1>0, <2>1 DEF IntakeAccept, TypeInv, TypeOK
  <2> QED BY <2>2, NewRecordsStoreNothing
<1> QED BY <1>1, <1>2

\* With one slot, every behaviour in which a flow and a failed listing do not
\* hide a loss between them keeps the safety half of the promise made to the
\* submitter: accepted is owed, owed becomes filed or short and nothing else,
\* and filed and short are said only of what is in the library or still staged.
THEOREM PromiseIsKeptSafely ==
    ASSUME Concurrency = 1
    PROVE  Spec /\ []Verified => Promise!SafeSpec
<1> DEFINE P == [s \in Sites |-> PromiseOf(s)]
           Sound == \A s \in Sites : PromiseOf(s) = Believed(s)
<1>1. Init => P = [s \in Sites |-> "none"]
  BY DEF Init, PromiseOf, Accepted
<1>2. Init => AcceptedIsRecorded
  BY DEF Init, AcceptedIsRecorded, Accepted
<1>3. Spec => []AcceptedIsRecorded
  BY <1>2, AcceptedIsRecordedStep, OneSlotInvariant, PTL DEF Spec
<1>4. Spec => []PromiseInv
  BY <1>3, OneSlotInvariant, FilesInvariant, PTL DEF PromiseInv
<1>5. PromiseInv /\ Verified => Sound
  BY StatusesAreBelieved
<1>6. PromiseInv /\ [Next]_vars /\ Sound /\ Sound' => [Promise!Next]_P
  <2> SUFFICES ASSUME PromiseInv, [Next]_vars, Sound, Sound'
               PROVE  Promise!Next \/ P' = P
    OBVIOUS
  <2>1. \A s \in Sites : PromiseOf(s)' = Believed(s)'
    OBVIOUS
  <2> QED BY <2>1, PromiseStep DEF PromiseInv
<1>7. Spec /\ []Verified => [][Promise!Next]_P
  BY <1>4, <1>5, <1>6, PTL DEF Spec
<1>8. Spec => P = [s \in Sites |-> "none"]
  BY <1>1 DEF Spec
<1> QED BY <1>7, <1>8, PTL DEF Promise!SafeSpec, Promise!Init
=============================================================================
