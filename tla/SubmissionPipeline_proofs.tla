---------------------- MODULE SubmissionPipeline_proofs ----------------------
(***************************************************************************)
(* Theorems about SubmissionPipeline, for any number of submissions, files *)
(* and worker slots and any budget of faults.                              *)
(***************************************************************************)
EXTENDS SubmissionPipeline, TLAPS, FiniteSetTheorems, SequenceTheorems

----------------------------------------------------------------------------
(* Types *)

\* A slot of the worker that is not idle has a submission to work on.
BusySlotsHaveSite == \A k \in Slots : run[k].phase # "idle" => run[k].site \in Sites

TypeInv == TypeOK /\ BusySlotsHaveSite

\* What a call of enqueue and the end of a job do to the slots: a slot keeps
\* its run, becomes idle, or starts from the beginning.
SlotsKeepOrRestart ==
    /\ queue' \in Seq(Sites)
    /\ run' \in [Slots -> Run]
    /\ \A k \in Slots : \/ run'[k] = run[k]
                        \/ run'[k] = IdleRun
                        \/ \E s \in Sites : run'[k] = StartedRun(s)

\* The records the program builds are well typed.
LEMMA RecordTypes ==
    /\ NoRecord \in Record
    /\ AcceptedRecord \in Record
BY ConstantsAssumption DEF NoRecord, AcceptedRecord, Record, Statuses, Folders, NotStored

LEMMA RunTypes ==
    /\ IdleRun \in Run
    /\ \A s \in Sites : StartedRun(s) \in Run
<1>1. 0 \in Folders
  BY ConstantsAssumption DEF Folders
<1>2. "idle" \in RunPhases /\ "reading" \in RunPhases
  BY DEF RunPhases
<1>3. IdleRun \in Run
  BY <1>1, <1>2, RecordTypes DEF IdleRun, Run
<1>4. ASSUME NEW s \in Sites
      PROVE  StartedRun(s) \in Run
  BY <1>1, <1>2, RecordTypes DEF StartedRun, Run
<1> QED BY <1>3, <1>4

LEMMA EnqueueEffect ==
    ASSUME TypeOK, NEW s \in Sites, Enqueue(s)
    PROVE  SlotsKeepOrRestart
<1> DEFINE longer == Append(queue, s)
<1>1. longer \in Seq(Sites) /\ longer # << >>
  <2>1. queue \in Seq(Sites)
    BY DEF TypeOK
  <2> QED BY <2>1, AppendProperties
<1>2. Head(longer) \in Sites /\ Tail(longer) \in Seq(Sites)
  BY <1>1, HeadTailProperties
<1> HIDE DEF longer
<1>3. CASE UNCHANGED <<queue, run>>
  BY <1>3 DEF TypeOK, SlotsKeepOrRestart
<1>4. CASE queue' = longer /\ UNCHANGED run
  BY <1>4, <1>1 DEF TypeOK, SlotsKeepOrRestart
<1>5. ASSUME NEW k \in IdleSlots,
             run' = [run EXCEPT ![k] = StartedRun(Head(longer))],
             queue' = Tail(longer)
      PROVE  SlotsKeepOrRestart
  <2>1. StartedRun(Head(longer)) \in Run
    BY <1>2, RunTypes
  <2>2. run' \in [Slots -> Run]
    BY <1>5, <2>1 DEF TypeOK, IdleSlots
  <2>3. \A j \in Slots : run'[j] = run[j] \/ run'[j] = StartedRun(Head(longer))
    BY <1>5 DEF TypeOK, IdleSlots
  <2> QED BY <1>2, <1>5, <2>2, <2>3 DEF SlotsKeepOrRestart
<1> QED BY <1>3, <1>4, <1>5 DEF Enqueue, longer

LEMMA ReleaseEffect ==
    ASSUME TypeOK, NEW k \in Slots, Release(k)
    PROVE  /\ SlotsKeepOrRestart
           /\ \A j \in Slots \ {k} : run'[j] = run[j]
<1>1. CASE queue = << >> /\ run' = [run EXCEPT ![k] = IdleRun] /\ UNCHANGED queue
  BY <1>1, RunTypes DEF TypeOK, SlotsKeepOrRestart
<1>2. CASE /\ queue # << >>
           /\ run' = [run EXCEPT ![k] = StartedRun(Head(queue))]
           /\ queue' = Tail(queue)
  <2>1. Head(queue) \in Sites /\ Tail(queue) \in Seq(Sites)
    BY <1>2, HeadTailProperties DEF TypeOK
  <2>2. StartedRun(Head(queue)) \in Run
    BY <2>1, RunTypes
  <2>3. run' \in [Slots -> Run]
    BY <1>2, <2>2 DEF TypeOK
  <2>4. \A j \in Slots : run'[j] = IF j = k THEN StartedRun(Head(queue)) ELSE run[j]
    BY <1>2 DEF TypeOK
  <2> QED BY <1>2, <2>1, <2>3, <2>4 DEF SlotsKeepOrRestart
<1> QED BY <1>1, <1>2 DEF Release

\* The records a run computes are well typed.
LEMMA OutcomeType ==
    ASSUME NEW rec \in Record, NEW n \in Folders, NEW synced \in SUBSET Files
    PROVE  Outcome(rec, n, synced) \in Record
<1> DEFINE stored == [f \in Files |-> IF f \in synced THEN n ELSE rec.stored[f]]
           filed == [rec EXCEPT !.folder = n, !.stored = stored]
<1>1. stored \in [Files -> Folders \cup {NotStored}]
  BY DEF Record
<1>2. filed \in Record
  BY <1>1 DEF Record
<1>3. \A status \in Statuses, b \in BOOLEAN :
         [filed EXCEPT !.status = status, !.retryAvailable = b] \in Record
  BY <1>2 DEF Record
<1>4. ShortStatus(filed) \in Statuses
  BY DEF ShortStatus, Statuses
<1>5. {"COMPLETED", "PROCESSING"} \subseteq Statuses
  BY DEF Statuses
<1>6. Outcome(rec, n, synced) =
        IF AllStored(filed)
        THEN [filed EXCEPT !.status = "COMPLETED", !.retryAvailable = FALSE]
        ELSE IF filed.attempts >= MaxAttempts
        THEN [filed EXCEPT !.status = ShortStatus(filed), !.retryAvailable = TRUE]
        ELSE [filed EXCEPT !.status = "PROCESSING", !.retryAvailable = TRUE]
  <2>1. filed = [rec EXCEPT !.folder = n,
                   !.stored = [f \in Files |-> IF f \in synced THEN n ELSE @[f]]]
    OBVIOUS
  <2> HIDE DEF filed
  <2> QED BY <2>1 DEF Outcome
<1> HIDE DEF filed
<1> QED BY <1>3, <1>4, <1>5, <1>6

LEMMA RestartKeepsSites ==
    ASSUME TypeOK, BusySlotsHaveSite, SlotsKeepOrRestart
    PROVE  BusySlotsHaveSite'
<1>1. IdleRun.phase = "idle"
  BY DEF IdleRun
<1>2. \A s \in Sites : StartedRun(s).site \in Sites
  BY DEF StartedRun
<1> QED BY <1>1, <1>2 DEF BusySlotsHaveSite, SlotsKeepOrRestart

LEMMA SpendType ==
    ASSUME TypeOK, NEW e \in EventKinds, Spend(e)
    PROVE  spent' \in [EventKinds -> Nat]
BY DEF TypeOK, Spend

LEMMA LoseMemoryType ==
    ASSUME TypeOK, LoseMemory, spent' \in [EventKinds -> Nat]
    PROVE  TypeInv'
<1>1. queue' \in Seq(Sites)
  BY DEF LoseMemory
<1>2. run' \in [Slots -> Run] /\ \A k \in Slots : run'[k].phase = "idle"
  BY RunTypes DEF LoseMemory, IdleRun
<1>3. request' \in [Sites -> Record] /\ timers' \in [Sites -> Nat]
  BY RecordTypes DEF LoseMemory
<1>4. intake' \in [Sites -> IntakeStates]
  BY DEF LoseMemory, TypeOK, IntakeStates
<1>5. UNCHANGED durable /\ mode' = "down" /\ abandoned' = {}
  BY DEF LoseMemory
<1> QED BY <1>1, <1>2, <1>3, <1>4, <1>5 DEF TypeInv, TypeOK, BusySlotsHaveSite, durable

\* Boot fills the slots and the queue from the recovered records.
LEMMA BootEffect ==
    ASSUME TypeOK, Boot
    PROVE  SlotsKeepOrRestart
<1>1. Recovered \subseteq Sites /\ IsFiniteSet(Recovered)
  <2>1. IsFiniteSet(Sites)
    BY FS_Interval, ConstantsAssumption DEF Sites
  <2>2. Recovered \subseteq Sites
    BY DEF Recovered, Unfinished
  <2> QED BY <2>1, <2>2, FS_Subset
<1>2. Cardinality(Recovered) \in Nat
  BY <1>1, FS_CardinalityType
<1>3. PICK q \in RecoveryOrders :
         /\ run' = [k \in Slots |-> IF k <= Len(q) THEN StartedRun(q[k]) ELSE IdleRun]
         /\ queue' = SubSeq(q, Concurrency + 1, Len(q))
  BY DEF Boot
<1>4. q \in [1..Cardinality(Recovered) -> Sites]
  BY <1>1, <1>3 DEF RecoveryOrders
<1>5. q \in Seq(Sites) /\ Len(q) = Cardinality(Recovered)
  BY <1>2, <1>4
<1>6. queue' \in Seq(Sites)
  BY <1>2, <1>3, <1>5, SubSeqProperties, ConstantsAssumption
<1>7. \A k \in Slots : k <= Len(q) => q[k] \in Sites
  BY <1>2, <1>4, <1>5, ConstantsAssumption DEF Slots
<1>8. \A k \in Slots : run'[k] = IdleRun \/ \E s \in Sites : run'[k] = StartedRun(s)
  BY <1>3, <1>7
<1>9. run' \in [Slots -> Run]
  BY <1>3, <1>7, RunTypes
<1> QED BY <1>6, <1>8, <1>9 DEF SlotsKeepOrRestart

(***************************************************************************)
(* The invariant TypeInv.  Type correctness alone is not inductive: a run  *)
(* reads record[run[k].site], so that a busy slot must have a site.        *)
(***************************************************************************)
LEMMA TypeInvInit == Init => TypeInv
<1> SUFFICES ASSUME Init PROVE TypeInv
  OBVIOUS
<1>1. << >> \in Seq(Sites)
  BY EmptySeq
<1>2. run \in [Slots -> Run] /\ BusySlotsHaveSite
  BY RunTypes DEF Init, BusySlotsHaveSite, IdleRun
<1>3. record \in [Sites -> Record] /\ request \in [Sites -> Record]
  BY RecordTypes DEF Init
<1>4. library \in [Sites -> [Files -> SUBSET Folders]]
  BY DEF Init
<1> QED BY <1>1, <1>2, <1>3, <1>4 DEF Init, TypeInv, TypeOK, IntakeStates

\* Steps of the intake, of the timers, of a manual retry and of the process.
LEMMA TypeInvOtherSteps ==
    ASSUME TypeInv,
           \/ \E s \in Sites : IntakeAccept(s) \/ IntakeFails(s) \/ IntakeAnswer(s)
           \/ \E s \in Sites : TimerFires(s) \/ RetryRead(s) \/ RetrySave(s)
           \/ Shutdown \/ Crash \/ Exit \/ Boot \/ BootBlind
    PROVE  TypeInv'
<1> USE DEF TypeInv
<1>1. ASSUME NEW s \in Sites, IntakeAccept(s)
      PROVE  TypeInv'
  <2>1. record' \in [Sites -> Record]
    BY <1>1, RecordTypes DEF IntakeAccept, TypeOK
  <2>2. staging' \in [Sites -> SUBSET Files] /\ intake' \in [Sites -> IntakeStates]
    BY <1>1 DEF IntakeAccept, TypeOK, IntakeStates
  <2> QED BY <1>1, <2>1, <2>2 DEF IntakeAccept, TypeOK, BusySlotsHaveSite
<1>2. ASSUME NEW s \in Sites, IntakeFails(s)
      PROVE  TypeInv'
  <2>1. record' \in [Sites -> Record]
    BY <1>2, RecordTypes DEF IntakeFails, TypeOK
  <2>2. intake' \in [Sites -> IntakeStates] /\ abandoned' \in SUBSET Sites
    BY <1>2 DEF IntakeFails, TypeOK, IntakeStates
  <2>3. spent' \in [EventKinds -> Nat]
    BY <1>2, SpendType DEF IntakeFails, EventKinds
  <2> QED BY <1>2, <2>1, <2>2, <2>3 DEF IntakeFails, TypeOK, BusySlotsHaveSite
<1>3. ASSUME NEW s \in Sites, IntakeAnswer(s)
      PROVE  TypeInv'
  <2>1. SlotsKeepOrRestart
    BY <1>3, EnqueueEffect DEF IntakeAnswer
  <2>2. BusySlotsHaveSite'
    BY <2>1, RestartKeepsSites
  <2>3. intake' \in [Sites -> IntakeStates]
    BY <1>3 DEF IntakeAnswer, TypeOK, IntakeStates
  <2> QED BY <1>3, <2>1, <2>2, <2>3 DEF IntakeAnswer, TypeOK, SlotsKeepOrRestart
<1>4. ASSUME NEW s \in Sites, TimerFires(s)
      PROVE  TypeInv'
  <2>1. SlotsKeepOrRestart
    BY <1>4, EnqueueEffect DEF TimerFires
  <2>2. BusySlotsHaveSite'
    BY <2>1, RestartKeepsSites
  <2>3. timers' \in [Sites -> Nat]
    BY <1>4 DEF TimerFires, TypeOK
  <2> QED BY <1>4, <2>1, <2>2, <2>3 DEF TimerFires, durable, TypeOK, SlotsKeepOrRestart
<1>5. ASSUME NEW s \in Sites, RetryRead(s)
      PROVE  TypeInv'
  <2>1. request' \in [Sites -> Record]
    BY <1>5 DEF RetryRead, TypeOK
  <2>2. spent' \in [EventKinds -> Nat]
    BY <1>5, SpendType DEF RetryRead, EventKinds
  <2> QED BY <1>5, <2>1, <2>2 DEF RetryRead, durable, TypeOK, BusySlotsHaveSite
<1>6. ASSUME NEW s \in Sites, RetrySave(s)
      PROVE  TypeInv'
  <2>1. SlotsKeepOrRestart
    BY <1>6, EnqueueEffect DEF RetrySave
  <2>2. BusySlotsHaveSite'
    BY <2>1, RestartKeepsSites
  <2>3. [request[s] EXCEPT !.attempts = 0, !.status = "QUEUED"] \in Record
    BY ZenonT(40) DEF TypeOK, Record, Statuses
  <2>4. record' \in [Sites -> Record] /\ request' \in [Sites -> Record]
    BY <1>6, <2>3, RecordTypes DEF RetrySave, TypeOK
  <2> QED BY <1>6, <2>1, <2>2, <2>4 DEF RetrySave, TypeOK, SlotsKeepOrRestart
<1>7. CASE Shutdown
  <2>1. spent' \in [EventKinds -> Nat]
    BY <1>7, SpendType DEF Shutdown, EventKinds
  <2>2. queue' \in Seq(Sites) /\ timers' \in [Sites -> Nat]
    BY <1>7 DEF Shutdown
  <2> QED BY <1>7, <2>1, <2>2 DEF Shutdown, durable, TypeOK, BusySlotsHaveSite
<1>8. CASE Crash
  BY <1>8, SpendType, LoseMemoryType DEF Crash, EventKinds
<1>9. CASE Exit
  BY <1>9, LoseMemoryType DEF Exit, TypeOK
<1>10. CASE Boot
  <2>1. SlotsKeepOrRestart
    BY <1>10, BootEffect
  <2>2. BusySlotsHaveSite'
    BY <2>1, RestartKeepsSites
  <2> QED BY <1>10, <2>1, <2>2 DEF Boot, durable, TypeOK, SlotsKeepOrRestart
<1>11. CASE BootBlind
  <2>1. spent' \in [EventKinds -> Nat]
    BY <1>11, SpendType DEF BootBlind, EventKinds
  <2> QED BY <1>11, <2>1 DEF BootBlind, durable, TypeOK, BusySlotsHaveSite, Unfinished
<1> QED BY <1>1, <1>2, <1>3, <1>4, <1>5, <1>6, <1>7, <1>8, <1>9, <1>10, <1>11

LEMMA ClaimedType ==
    ASSUME NEW rec \in Record
    PROVE  [rec EXCEPT !.attempts = @ + 1, !.status = "PROCESSING"] \in Record
<1>1. rec.attempts + 1 \in Nat /\ "PROCESSING" \in Statuses
  BY DEF Record, Statuses
<1> QED BY <1>1 DEF Record

\* A slot that keeps its submission while its run goes on.
RunGoesOn(k) ==
    /\ run' = [run EXCEPT ![k] = run'[k]]
    /\ run'[k] \in Run
    /\ run'[k].site = run[k].site
    /\ run[k].phase # "idle"

LEMMA RunGoesOnType ==
    ASSUME TypeInv, NEW k \in Slots, RunGoesOn(k)
    PROVE  run' \in [Slots -> Run] /\ BusySlotsHaveSite'
<1>1. run' \in [Slots -> Run]
  BY DEF TypeInv, TypeOK, RunGoesOn
<1>2. \A j \in Slots : run'[j] = run[j] \/ j = k
  BY DEF TypeInv, TypeOK, RunGoesOn
<1> QED BY <1>1, <1>2 DEF TypeInv, BusySlotsHaveSite, RunGoesOn

\* The steps of a run.
LEMMA TypeInvRunSteps ==
    ASSUME TypeInv, NEW k \in Slots, RunStep(k) \/ RunThrows(k)
    PROVE  TypeInv'
<1> USE DEF TypeInv
<1> DEFINE s == run[k].site
           rec == run[k].rec
<1>a. run[k] \in Run /\ rec \in Record
  BY DEF TypeOK, Run
<1>b. run[k].phase # "idle" => s \in Sites
  BY DEF BusySlotsHaveSite
<1>1. CASE RunRead(k)
  <2>1. s \in Sites /\ record[s] \in Record
    BY <1>1, <1>b DEF RunRead, TypeOK
  <2>2. CASE Release(k)
    <3>1. SlotsKeepOrRestart
      BY <2>2, ReleaseEffect
    <3>2. BusySlotsHaveSite'
      BY <3>1, RestartKeepsSites
    <3> QED BY <1>1, <3>1, <3>2 DEF RunRead, durable, TypeOK, SlotsKeepOrRestart
  <2>3. CASE /\ run' = [run EXCEPT
                          ![k].phase = "claiming",
                          ![k].rec = [record[s] EXCEPT !.attempts = @ + 1,
                                                       !.status = "PROCESSING"]]
             /\ UNCHANGED queue
    <3>1. [record[s] EXCEPT !.attempts = @ + 1, !.status = "PROCESSING"] \in Record
      BY <2>1, ClaimedType
    <3>2. RunGoesOn(k)
      BY <1>1, <1>a, <2>3, <3>1 DEF RunRead, RunGoesOn, Run, RunPhases, TypeOK
    <3>3. run' \in [Slots -> Run] /\ BusySlotsHaveSite'
      BY <3>2, RunGoesOnType
    <3> QED BY <1>1, <2>3, <3>3 DEF RunRead, durable, TypeOK
  <2> QED BY <1>1, <2>2, <2>3 DEF RunRead
<1>2. CASE RunClaim(k)
  <2>1. record' \in [Sites -> Record]
    BY <1>2, <1>a DEF RunClaim, TypeOK
  <2>2. RunGoesOn(k)
    <3>1. CASE run' = [run EXCEPT
                         ![k].phase = "settling",
                         ![k].rec = [rec EXCEPT !.status = ShortStatus(rec),
                                                !.retryAvailable = FALSE]]
      <4>1. [rec EXCEPT !.status = ShortStatus(rec), !.retryAvailable = FALSE] \in Record
        BY <1>a DEF Record, ShortStatus, Statuses
      <4> QED BY <1>2, <1>a, <3>1, <4>1 DEF RunClaim, RunGoesOn, Run, RunPhases, TypeOK
    <3>2. CASE run' = [run EXCEPT ![k].phase = "syncing", ![k].todo = Pending(s, rec)]
      <4>1. Pending(s, rec) \in SUBSET Files
        BY DEF Pending, NotFiled
      <4> QED BY <1>2, <1>a, <3>2, <4>1 DEF RunClaim, RunGoesOn, Run, RunPhases, TypeOK
    <3> QED BY <1>2, <3>1, <3>2 DEF RunClaim
  <2>3. run' \in [Slots -> Run] /\ BusySlotsHaveSite'
    BY <2>2, RunGoesOnType
  <2> QED BY <1>2, <2>1, <2>3 DEF RunClaim, TypeOK
<1>3. CASE SyncStart(k)
  <2>1. RunGoesOn(k)
    <3>1. PICK n \in Folders :
            run' = [run EXCEPT ![k].phase = "uploading",
                               ![k].folder = n,
                               ![k].landed = {}]
      BY <1>3 DEF SyncStart
    <3> QED BY <1>3, <1>a, <3>1 DEF SyncStart, RunGoesOn, Run, RunPhases, TypeOK
  <2>2. run' \in [Slots -> Run] /\ BusySlotsHaveSite'
    BY <2>1, RunGoesOnType
  <2> QED BY <1>3, <2>2 DEF SyncStart, durable, TypeOK
<1>4. CASE SyncFails(k)
  <2>1. PICK n \in Folders :
          run' = [run EXCEPT ![k].phase = "settling",
                             ![k].rec = Outcome(rec, n, {}),
                             ![k].todo = {}]
    BY <1>4 DEF SyncFails
  <2>2. Outcome(rec, n, {}) \in Record
    BY <1>a, OutcomeType
  <2>3. RunGoesOn(k)
    BY <1>4, <1>a, <2>1, <2>2 DEF SyncFails, RunGoesOn, Run, RunPhases, TypeOK
  <2>4. run' \in [Slots -> Run] /\ BusySlotsHaveSite'
    BY <2>3, RunGoesOnType
  <2> QED BY <1>4, <2>4 DEF SyncFails, durable, TypeOK
<1>5. ASSUME NEW f \in Files, UploadLands(k, f) \/ UploadReplyLost(k, f)
      PROVE  TypeInv'
  <2>1. library' \in [Sites -> [Files -> SUBSET Folders]]
    <3>1. library' = [library EXCEPT ![s][f] = @ \cup {run[k].folder}]
      BY <1>5 DEF UploadLands, UploadReplyLost
    <3>2. run[k].folder \in Folders /\ s \in Sites
      BY <1>5, <1>a, <1>b DEF UploadLands, UploadReplyLost, NextFile, Run
    <3>3. library[s][f] \cup {run[k].folder} \in SUBSET Folders
      BY <3>2 DEF TypeOK
    <3> QED BY <3>1, <3>2, <3>3 DEF TypeOK
  <2>2. RunGoesOn(k)
    <3>1. CASE UploadLands(k, f)
      BY <3>1, <1>a DEF UploadLands, NextFile, RunGoesOn, Run, TypeOK
    <3>2. CASE UploadReplyLost(k, f)
      BY <3>2, <1>a DEF UploadReplyLost, NextFile, RunGoesOn, Run, TypeOK
    <3> QED BY <1>5, <3>1, <3>2
  <2>3. run' \in [Slots -> Run] /\ BusySlotsHaveSite'
    BY <2>2, RunGoesOnType
  <2>4. spent' \in [EventKinds -> Nat]
    BY <1>5, SpendType DEF UploadLands, UploadReplyLost, EventKinds, TypeOK
  <2> QED BY <1>5, <2>1, <2>3, <2>4 DEF UploadLands, UploadReplyLost, TypeOK
<1>6. ASSUME NEW f \in Files, UploadFails(k, f)
      PROVE  TypeInv'
  <2>1. RunGoesOn(k)
    BY <1>6, <1>a DEF UploadFails, NextFile, RunGoesOn, Run, TypeOK
  <2>2. run' \in [Slots -> Run] /\ BusySlotsHaveSite'
    BY <2>1, RunGoesOnType
  <2> QED BY <1>6, <2>2 DEF UploadFails, durable, TypeOK
<1>7. CASE SyncReturns(k) \/ SyncReturnsUnchecked(k)
  <2>1. PICK synced \in SUBSET Files : Report(k, synced)
    BY <1>7, <1>a DEF SyncReturns, SyncReturnsUnchecked, Seen, Run
  <2>2. Outcome(rec, run[k].folder, synced) \in Record
    <3>1. run[k].folder \in Folders
      BY <1>a DEF Run
    <3> QED BY <1>a, <3>1, OutcomeType
  <2>3. RunGoesOn(k)
    BY <1>a, <2>1, <2>2 DEF Report, RunGoesOn, Run, RunPhases, TypeOK
  <2>4. run' \in [Slots -> Run] /\ BusySlotsHaveSite'
    BY <2>3, RunGoesOnType
  <2>5. spent' \in [EventKinds -> Nat]
    BY <1>7, SpendType DEF SyncReturns, SyncReturnsUnchecked, EventKinds, TypeOK
  <2> QED BY <2>1, <2>4, <2>5 DEF Report, durable, TypeOK
<1>8. CASE RunSettle(k)
  <2>1. RunGoesOn(k)
    BY <1>8, <1>a DEF RunSettle, RunGoesOn, Run, RunPhases, TypeOK
  <2>2. run' \in [Slots -> Run] /\ BusySlotsHaveSite'
    BY <2>1, RunGoesOnType
  <2>3. record' \in [Sites -> Record]
    BY <1>8, <1>a DEF RunSettle, TypeOK
  <2> QED BY <1>8, <2>2, <2>3 DEF RunSettle, TypeOK
<1>9. CASE RunDone(k)
  <2>1. SlotsKeepOrRestart
    BY <1>9, ReleaseEffect DEF RunDone
  <2>2. BusySlotsHaveSite'
    BY <2>1, RestartKeepsSites
  <2>3. staging' \in [Sites -> SUBSET Files] /\ timers' \in [Sites -> Nat]
    BY <1>9, <1>b DEF RunDone, TypeOK
  <2> QED BY <1>9, <2>1, <2>2, <2>3 DEF RunDone, TypeOK, SlotsKeepOrRestart
<1>10. CASE RunThrows(k)
  <2>1. SlotsKeepOrRestart
    BY <1>10, ReleaseEffect DEF RunThrows
  <2>2. BusySlotsHaveSite'
    BY <2>1, RestartKeepsSites
  <2>3. record' \in [Sites -> Record] /\ abandoned' \in SUBSET Sites
    BY <1>10, <1>a, <1>b DEF RunThrows, TypeOK
  <2>4. spent' \in [EventKinds -> Nat]
    BY <1>10, SpendType DEF RunThrows, EventKinds
  <2> QED BY <1>10, <2>1, <2>2, <2>3, <2>4 DEF RunThrows, TypeOK, SlotsKeepOrRestart
<1> QED
  BY <1>1, <1>2, <1>3, <1>4, <1>5, <1>6, <1>7, <1>8, <1>9, <1>10 DEF RunStep, Sync

LEMMA TypeInvStep == TypeInv /\ [Next]_vars => TypeInv'
<1> SUFFICES ASSUME TypeInv, [Next]_vars PROVE TypeInv'
  OBVIOUS
<1>1. ASSUME NEW k \in Slots, NEW f \in Files, FlowTakes(k, f)
      PROVE  TypeInv'
  <2>1. library' \in [Sites -> [Files -> SUBSET Folders]]
    BY <1>1 DEF FlowTakes, TypeInv, TypeOK
  <2>2. spent' \in [EventKinds -> Nat]
    BY <1>1, SpendType DEF FlowTakes, EventKinds, TypeInv
  <2> QED BY <1>1, <2>1, <2>2 DEF FlowTakes, TypeInv, TypeOK, BusySlotsHaveSite
<1>2. CASE UNCHANGED vars
  BY <1>2 DEF vars, TypeInv, TypeOK, BusySlotsHaveSite
<1> QED BY <1>1, <1>2, TypeInvOtherSteps, TypeInvRunSteps DEF Next

\* Every variable stays in its type, for every value of the constants: an
\* attempt never files into a folder beyond MaxFolder, a record's status is
\* one of SiteStatus, a run's file sets are files of the submission.
THEOREM TypeCorrect == Spec => []TypeOK
<1>1. Spec => []TypeInv
  BY TypeInvInit, TypeInvStep, PTL DEF Spec
<1>2. TypeInv => TypeOK
  BY DEF TypeInv
<1> QED BY <1>1, <1>2, PTL

----------------------------------------------------------------------------
(* Statuses and files *)

\* What a record says of itself is coherent.
Honest(rec) ==
    /\ rec.status = "COMPLETED" => AllStored(rec)
    /\ rec.status = "PARTIAL" => Stored(rec) \notin {{}, Files}
    /\ rec.status = "FAILED" => Stored(rec) = {}

\* The store and every running job hold honest records.  The snapshot of a
\* manual retry need not be: its save overwrites the status.
HonestInv ==
    /\ \A s \in Sites : Honest(record[s])
    /\ \A k \in Slots : Honest(run[k].rec)

(***************************************************************************)
(* A submission's record exists in several copies: in the store, in the    *)
(* snapshot of a manual retry and in every run of the submission, and each *)
(* may be saved over the others.  All of them have to be believed.         *)
(***************************************************************************)
Truthful(rec, s) ==
    \A f \in Files : rec.stored[f] # NotStored => rec.stored[f] \in library[s][f]

\* rec files nothing under folder n.
Avoids(rec, n) == \A f \in Files : rec.stored[f] # n

CopiesAreTrue ==
    /\ \A s \in Sites : Truthful(record[s], s) /\ Truthful(request[s], s)
    /\ \A k \in Slots : run[k].site \in Sites => Truthful(run[k].rec, run[k].site)

\* SharePointService.exclusively lets one sync upload at a time.
OneUploader ==
    \A j, k \in Slots :
        run[j].phase = "uploading" /\ run[k].phase = "uploading" => j = k

\* No copy of the record names the folder that is being filled, whatever a
\* flow takes out of it again.
FolderIsNew ==
    \A k \in Slots :
        run[k].phase = "uploading" =>
            /\ Avoids(record[run[k].site], run[k].folder)
            /\ Avoids(request[run[k].site], run[k].folder)
            /\ \A j \in Slots :
                  run[j].site = run[k].site => Avoids(run[j].rec, run[k].folder)

\* A file that is no longer staged has a copy outside the folder being filled.
UploadIsSafe ==
    \A k \in Slots :
        run[k].phase = "uploading" /\ run[k].site \in Accepted =>
            \A f \in Files : \/ f \in staging[run[k].site]
                             \/ library[run[k].site][f] \ {run[k].folder} # {}

\* Where no flow was at work, the files that landed are in the library.
LandedIsThere ==
    spent["flow"] = 0 =>
        \A k \in Slots :
            run[k].phase = "uploading" =>
                \A f \in run[k].landed : run[k].folder \in library[run[k].site][f]

NothingIsLost == \A s \in Accepted, f \in Files : f \in staging[s] \/ library[s][f] # {}

FilesInv ==
    /\ HonestInv
    /\ OneUploader
    /\ LandedIsThere
    /\ Verified => CopiesAreTrue /\ FolderIsNew /\ UploadIsSafe /\ NothingIsLost

\* Events are counted, never forgotten.
SpentGrows == \A e \in EventKinds : spent'[e] >= spent[e]

LEMMA SpendGrows ==
    ASSUME TypeInv, [Next]_vars
    PROVE  SpentGrows
<1>1. ASSUME NEW e \in EventKinds, Spend(e)
      PROVE  SpentGrows
  BY <1>1 DEF Spend, SpentGrows, TypeInv, TypeOK
<1>2. CASE UNCHANGED spent
  BY <1>2 DEF SpentGrows, TypeInv, TypeOK
<1>3. UNCHANGED spent \/ \E e \in EventKinds : Spend(e)
  <2>1. ASSUME NEW s \in Sites,
               IntakeAccept(s) \/ IntakeFails(s) \/ IntakeAnswer(s) \/ TimerFires(s)
                 \/ RetryRead(s) \/ RetrySave(s)
        PROVE  UNCHANGED spent \/ \E e \in EventKinds : Spend(e)
    BY <2>1 DEF IntakeAccept, IntakeFails, IntakeAnswer, TimerFires, RetryRead,
                RetrySave, EventKinds
  <2>2. ASSUME NEW k \in Slots, RunStep(k) \/ RunThrows(k)
        PROVE  UNCHANGED spent \/ \E e \in EventKinds : Spend(e)
    BY <2>2 DEF RunStep, Sync, RunThrows, RunRead, RunClaim, SyncStart, SyncFails,
                UploadLands, UploadFails, UploadReplyLost, SyncReturns,
                SyncReturnsUnchecked, RunSettle, RunDone, EventKinds
  <2>3. ASSUME NEW k \in Slots, NEW f \in Files, FlowTakes(k, f)
        PROVE  UNCHANGED spent \/ \E e \in EventKinds : Spend(e)
    BY <2>3 DEF FlowTakes, EventKinds
  <2>4. CASE Shutdown \/ Crash \/ Exit \/ Boot \/ BootBlind
    BY <2>4 DEF Shutdown, Crash, Exit, Boot, BootBlind, EventKinds
  <2>5. CASE UNCHANGED vars
    BY <2>5 DEF vars
  <2> QED BY <2>1, <2>2, <2>3, <2>4, <2>5 DEF Next
<1> QED BY <1>1, <1>2, <1>3

LEMMA VerifiedBefore ==
    ASSUME TypeInv, SpentGrows
    PROVE  /\ Verified' => Verified
           /\ spent'["flow"] = 0 => spent["flow"] = 0
BY DEF SpentGrows, Verified, EventKinds, TypeInv, TypeOK

(***************************************************************************)
(* Most steps file nothing new: each copy of a record they write lists     *)
(* what some copy of it listed before, and no run starts to upload.        *)
(***************************************************************************)
NothingStored == [f \in Files |-> NotStored]

Listed(stored, s) ==
    \/ stored = NothingStored
    \/ stored = record[s].stored
    \/ stored = request[s].stored
    \/ \E k \in Slots : run[k].site = s /\ stored = run[k].rec.stored

StillUploads(k) ==
    run'[k].phase = "uploading" =>
        /\ run[k].phase = "uploading"
        /\ run'[k].site = run[k].site
        /\ run'[k].folder = run[k].folder
        /\ run'[k].landed \subseteq run[k].landed

FilesNothing ==
    /\ UNCHANGED library
    /\ \A s \in Sites : /\ Listed(record'[s].stored, s)
                        /\ Listed(request'[s].stored, s)
                        /\ Honest(record'[s])
    /\ \A k \in Slots : /\ run'[k].site \in Sites => Listed(run'[k].rec.stored, run'[k].site)
                        /\ Honest(run'[k].rec)
                        /\ StillUploads(k)

\* What is listed is in the library, and outside the folder being filled.
LEMMA ListedIsTrue ==
    ASSUME FilesInv, Verified, NEW s \in Sites, NEW stored, Listed(stored, s), NEW f \in Files
    PROVE  stored[f] # NotStored => stored[f] \in library[s][f]
<1>1. CASE stored = NothingStored
  BY <1>1 DEF NothingStored
<1>2. CASE stored = record[s].stored \/ stored = request[s].stored
  BY <1>2 DEF FilesInv, CopiesAreTrue, Truthful
<1>3. CASE \E k \in Slots : run[k].site = s /\ stored = run[k].rec.stored
  BY <1>3 DEF FilesInv, CopiesAreTrue, Truthful
<1> QED BY <1>1, <1>2, <1>3 DEF Listed

LEMMA ListedIsElsewhere ==
    ASSUME TypeInv, FilesInv, Verified, NEW k \in Slots, run[k].phase = "uploading",
           NEW stored, Listed(stored, run[k].site), NEW f \in Files
    PROVE  stored[f] # run[k].folder
<1>1. run[k].folder # NotStored
  <2>1. run[k].folder \in Folders
    BY DEF TypeInv, TypeOK, Run
  <2> QED BY <2>1, ConstantsAssumption DEF Folders, NotStored
<1>2. CASE stored = NothingStored
  BY <1>1, <1>2 DEF NothingStored
<1>3. CASE stored = record[run[k].site].stored \/ stored = request[run[k].site].stored
  BY <1>3 DEF FilesInv, FolderIsNew, Avoids
<1>4. CASE \E j \in Slots : run[j].site = run[k].site /\ stored = run[j].rec.stored
  BY <1>4 DEF FilesInv, FolderIsNew, Avoids
<1> QED BY <1>2, <1>3, <1>4 DEF Listed

LEMMA FilesNothingKeeps ==
    ASSUME TypeInv, TypeInv', SpentGrows, FilesInv, FilesNothing
    PROVE  /\ HonestInv' /\ OneUploader' /\ LandedIsThere'
           /\ Verified' => CopiesAreTrue' /\ FolderIsNew'
<1>1. HonestInv'
  BY DEF FilesNothing, HonestInv, Honest, AllStored, NotFiled, Stored
<1>2. OneUploader'
  BY DEF FilesNothing, FilesInv, OneUploader, StillUploads
<1>3. LandedIsThere'
  BY VerifiedBefore DEF FilesNothing, FilesInv, LandedIsThere, StillUploads
<1>4. ASSUME Verified'
      PROVE  CopiesAreTrue'
  <2>0. Verified
    BY <1>4, VerifiedBefore
  <2>1. \A s \in Sites : Truthful(record[s], s)' /\ Truthful(request[s], s)'
    BY <2>0, ListedIsTrue DEF FilesNothing, Truthful
  <2>2. \A k \in Slots : run'[k].site \in Sites => Truthful(run[k].rec, run[k].site)'
    BY <2>0, ListedIsTrue DEF FilesNothing, Truthful
  <2> QED BY <2>1, <2>2 DEF CopiesAreTrue
<1>5. ASSUME Verified'
      PROVE  FolderIsNew'
  <2>0. Verified
    BY <1>5, VerifiedBefore
  <2> SUFFICES ASSUME NEW k \in Slots, run'[k].phase = "uploading"
               PROVE  /\ Avoids(record[run[k].site], run[k].folder)'
                      /\ Avoids(request[run[k].site], run[k].folder)'
                      /\ \A j \in Slots : run'[j].site = run'[k].site =>
                             Avoids(run[j].rec, run[k].folder)'
    BY DEF FolderIsNew
  <2>1. /\ run[k].phase = "uploading"
        /\ run'[k].site = run[k].site
        /\ run'[k].folder = run[k].folder
    BY DEF FilesNothing, StillUploads
  <2>2. run[k].site \in Sites
    BY <2>1 DEF TypeInv, BusySlotsHaveSite
  <2>3. /\ Listed(record'[run[k].site].stored, run[k].site)
        /\ Listed(request'[run[k].site].stored, run[k].site)
    BY <2>2 DEF FilesNothing
  <2>4. \A f \in Files : /\ record'[run[k].site].stored[f] # run[k].folder
                         /\ request'[run[k].site].stored[f] # run[k].folder
    BY <2>0, <2>1, <2>3, ListedIsElsewhere
  <2>5. ASSUME NEW j \in Slots, run'[j].site = run'[k].site, NEW f \in Files
        PROVE  run'[j].rec.stored[f] # run[k].folder
    <3>1. Listed(run'[j].rec.stored, run[k].site)
      BY <2>1, <2>2, <2>5 DEF FilesNothing
    <3> QED BY <2>0, <2>1, <3>1, ListedIsElsewhere
  <2> QED BY <2>1, <2>4, <2>5 DEF Avoids
<1> QED BY <1>1, <1>2, <1>3, <1>4, <1>5

\* A step that files nothing and removes no staged copy loses no file.
LEMMA FilesNothingLosesNothing ==
    ASSUME TypeInv, SpentGrows, FilesInv, FilesNothing, Verified',
           \A s \in Accepted' : \/ s \in Accepted /\ staging'[s] = staging[s]
                                \/ staging'[s] = Files
    PROVE  UploadIsSafe' /\ NothingIsLost'
<1>0. Verified
  BY VerifiedBefore
<1>1. NothingIsLost'
  BY <1>0 DEF FilesNothing, FilesInv, NothingIsLost
<1>2. UploadIsSafe'
  BY <1>0 DEF FilesNothing, StillUploads, FilesInv, UploadIsSafe
<1> QED BY <1>1, <1>2

LEMMA NewRecordsAreEmpty ==
    /\ NoRecord.stored = NothingStored /\ Honest(NoRecord)
    /\ AcceptedRecord.stored = NothingStored /\ Honest(AcceptedRecord)
    /\ IdleRun.rec = NoRecord /\ IdleRun.phase = "idle"
    /\ \A s \in Sites : StartedRun(s).rec = NoRecord /\ StartedRun(s).phase = "reading"
BY DEF NoRecord, AcceptedRecord, NothingStored, Honest, IdleRun, StartedRun

\* The records that are not written, and the slots that go on or restart.
LEMMA KeptIsListed ==
    ASSUME TypeInv, FilesInv
    PROVE  /\ \A s \in Sites : /\ Listed(record[s].stored, s)
                               /\ Listed(request[s].stored, s)
                               /\ Listed(NothingStored, s)
                               /\ Honest(record[s])
           /\ \A k \in Slots : /\ Listed(run[k].rec.stored, run[k].site)
                               /\ Honest(run[k].rec)
BY DEF Listed, FilesInv, HonestInv

LEMMA RestartFilesNothing ==
    ASSUME TypeInv, FilesInv, SlotsKeepOrRestart, NEW k \in Slots
    PROVE  /\ run'[k].site \in Sites => Listed(run'[k].rec.stored, run'[k].site)
           /\ Honest(run'[k].rec)
           /\ StillUploads(k)
<1>1. CASE run'[k] = run[k]
  BY <1>1, KeptIsListed DEF StillUploads
<1>2. CASE run'[k] = IdleRun
  BY <1>2, NewRecordsAreEmpty DEF StillUploads, Listed
<1>3. CASE \E s \in Sites : run'[k] = StartedRun(s)
  BY <1>3, NewRecordsAreEmpty DEF StillUploads, Listed
<1> QED BY <1>1, <1>2, <1>3 DEF SlotsKeepOrRestart

\* Giving a record up with files missing, and folding a sync result in, keep
\* status and files coherent.
LEMMA ShortIsHonest ==
    ASSUME NEW rec \in Record, ~AllStored(rec)
    PROVE  Honest([rec EXCEPT !.status = ShortStatus(rec), !.retryAvailable = FALSE])
<1> DEFINE short == [rec EXCEPT !.status = ShortStatus(rec), !.retryAvailable = FALSE]
<1>1. short.stored = rec.stored /\ short.status = ShortStatus(rec)
  BY DEF Record
<1>2. Stored(short) = Stored(rec)
  BY <1>1 DEF Stored
<1>3. Stored(rec) # Files
  BY DEF AllStored, NotFiled
<1> HIDE DEF short
<1>4. Honest(short)
  BY <1>1, <1>2, <1>3 DEF Honest, ShortStatus
<1> QED BY <1>4 DEF short

LEMMA OutcomeIsHonest ==
    ASSUME NEW rec \in Record, NEW n \in Folders, NEW synced \in SUBSET Files
    PROVE  /\ Honest(Outcome(rec, n, synced))
           /\ Outcome(rec, n, synced).stored
                = [f \in Files |-> IF f \in synced THEN n ELSE rec.stored[f]]
<1> DEFINE stored == [f \in Files |-> IF f \in synced THEN n ELSE rec.stored[f]]
           filed == [rec EXCEPT !.folder = n, !.stored = stored]
           With(status, b) == [filed EXCEPT !.status = status, !.retryAvailable = b]
<1>1. stored \in [Files -> Folders \cup {NotStored}]
  BY DEF Record
<1>2. filed \in Record /\ filed.stored = stored
  BY <1>1 DEF Record
<1>3. Outcome(rec, n, synced) =
        IF AllStored(filed) THEN With("COMPLETED", FALSE)
        ELSE IF filed.attempts >= MaxAttempts THEN With(ShortStatus(filed), TRUE)
        ELSE With("PROCESSING", TRUE)
  <2>1. filed = [rec EXCEPT !.folder = n,
                   !.stored = [f \in Files |-> IF f \in synced THEN n ELSE @[f]]]
    OBVIOUS
  <2> HIDE DEF filed
  <2> QED BY <2>1 DEF Outcome
<1> HIDE DEF stored, filed
<1>4. \A status \in Statuses, b \in BOOLEAN :
         /\ With(status, b).stored = stored
         /\ With(status, b).status = status
         /\ Stored(With(status, b)) = Stored(filed)
  BY <1>2 DEF Record, Stored
<1>5. {"COMPLETED", "PROCESSING"} \subseteq Statuses /\ ShortStatus(filed) \in Statuses
  BY DEF Statuses, ShortStatus
<1>6. CASE AllStored(filed)
  <2>1. Stored(With("COMPLETED", FALSE)) = Stored(filed)
    BY <1>4, <1>5
  <2> QED BY <1>3, <1>4, <1>5, <1>6, <2>1 DEF Honest, AllStored, NotFiled, stored
<1>7. CASE ~AllStored(filed)
  <2>1. Stored(filed) # Files
    BY <1>7 DEF AllStored, NotFiled
  <2>2. /\ Stored(With(ShortStatus(filed), TRUE)) = Stored(filed)
        /\ With(ShortStatus(filed), TRUE).status = ShortStatus(filed)
        /\ With("PROCESSING", TRUE).status = "PROCESSING"
    BY <1>4, <1>5
  <2>3. Honest(With(ShortStatus(filed), TRUE)) /\ Honest(With("PROCESSING", TRUE))
    BY <2>1, <2>2 DEF Honest, ShortStatus
  <2> QED BY <1>3, <1>4, <1>5, <1>7, <2>3 DEF stored
<1> QED BY <1>6, <1>7 DEF stored

\* Both lemmas together: a step that files nothing preserves the invariant.
LEMMA FilesNothingStep ==
    ASSUME TypeInv, TypeInv', SpentGrows, FilesInv, FilesNothing,
           \A s \in Accepted' : \/ s \in Accepted /\ staging'[s] = staging[s]
                                \/ staging'[s] = Files
    PROVE  FilesInv'
BY FilesNothingKeeps, FilesNothingLosesNothing DEF FilesInv

LEMMA LoseMemoryFilesNothing ==
    ASSUME TypeInv, TypeInv', SpentGrows, FilesInv, LoseMemory
    PROVE  FilesInv'
<1>1. \A k \in Slots : run'[k] = IdleRun
  BY DEF LoseMemory
<1>2. \A s \in Sites : request'[s].stored = NothingStored
  BY NewRecordsAreEmpty DEF LoseMemory
<1>3. UNCHANGED <<record, staging, library>>
  BY DEF LoseMemory, durable
<1>4. FilesNothing
  BY <1>1, <1>2, <1>3, KeptIsListed, NewRecordsAreEmpty DEF FilesNothing, StillUploads, Listed
<1>5. Accepted' \subseteq Accepted
  BY DEF LoseMemory, Accepted, TypeInv, TypeOK
<1> QED BY <1>3, <1>4, <1>5, FilesNothingStep

LEMMA FilesInvOtherSteps ==
    ASSUME TypeInv, TypeInv', SpentGrows, FilesInv,
           \/ \E s \in Sites : IntakeAccept(s) \/ IntakeFails(s) \/ IntakeAnswer(s)
           \/ \E s \in Sites : TimerFires(s) \/ RetryRead(s) \/ RetrySave(s)
           \/ Shutdown \/ Crash \/ Exit \/ Boot \/ BootBlind
    PROVE  FilesInv'
<1>k. \A k \in Slots : run'[k] = run[k] =>
         /\ run'[k].site \in Sites => Listed(run'[k].rec.stored, run'[k].site)
         /\ Honest(run'[k].rec)
         /\ StillUploads(k)
  BY KeptIsListed DEF StillUploads
<1>1. ASSUME NEW s \in Sites, IntakeAccept(s)
      PROVE  FilesInv'
  <2>1. \A t \in Sites : Listed(record'[t].stored, t) /\ Honest(record'[t])
    BY <1>1, KeptIsListed, NewRecordsAreEmpty DEF IntakeAccept, TypeInv, TypeOK
  <2>2. FilesNothing
    BY <1>1, <1>k, <2>1, KeptIsListed DEF IntakeAccept, FilesNothing
  <2>3. \A t \in Accepted' : \/ t \in Accepted /\ staging'[t] = staging[t]
                             \/ staging'[t] = Files
    BY <1>1 DEF IntakeAccept, Accepted, TypeInv, TypeOK
  <2> QED BY <2>2, <2>3, FilesNothingStep
<1>2. ASSUME NEW s \in Sites, IntakeFails(s)
      PROVE  FilesInv'
  <2>1. \A t \in Sites : Listed(record'[t].stored, t) /\ Honest(record'[t])
    BY <1>2, KeptIsListed, NewRecordsAreEmpty DEF IntakeFails, TypeInv, TypeOK
  <2>2. FilesNothing
    BY <1>2, <1>k, <2>1, KeptIsListed DEF IntakeFails, FilesNothing
  <2>3. \A t \in Accepted' : t \in Accepted /\ staging'[t] = staging[t]
    BY <1>2 DEF IntakeFails, Accepted, TypeInv, TypeOK
  <2> QED BY <2>2, <2>3, FilesNothingStep
<1>3. ASSUME NEW s \in Sites, IntakeAnswer(s)
      PROVE  FilesInv'
  <2>1. SlotsKeepOrRestart
    BY <1>3, EnqueueEffect DEF IntakeAnswer, TypeInv
  <2>2. FilesNothing
    BY <1>3, <2>1, RestartFilesNothing, KeptIsListed DEF IntakeAnswer, FilesNothing
  <2>3. \A t \in Accepted' : t \in Accepted /\ staging'[t] = staging[t]
    BY <1>3 DEF IntakeAnswer, Accepted, TypeInv, TypeOK
  <2> QED BY <2>2, <2>3, FilesNothingStep
<1>4. ASSUME NEW s \in Sites, TimerFires(s)
      PROVE  FilesInv'
  <2>1. SlotsKeepOrRestart
    BY <1>4, EnqueueEffect DEF TimerFires, TypeInv
  <2>2. FilesNothing
    BY <1>4, <2>1, RestartFilesNothing, KeptIsListed DEF TimerFires, durable, FilesNothing
  <2>3. \A t \in Accepted' : t \in Accepted /\ staging'[t] = staging[t]
    BY <1>4 DEF TimerFires, durable, Accepted
  <2> QED BY <2>2, <2>3, FilesNothingStep
<1>5. ASSUME NEW s \in Sites, RetryRead(s)
      PROVE  FilesInv'
  <2>1. \A t \in Sites : Listed(request'[t].stored, t)
    BY <1>5, KeptIsListed DEF RetryRead, TypeInv, TypeOK
  <2>2. FilesNothing
    BY <1>5, <1>k, <2>1, KeptIsListed DEF RetryRead, durable, FilesNothing
  <2>3. \A t \in Accepted' : t \in Accepted /\ staging'[t] = staging[t]
    BY <1>5 DEF RetryRead, durable, Accepted
  <2> QED BY <2>2, <2>3, FilesNothingStep
<1>6. ASSUME NEW s \in Sites, RetrySave(s)
      PROVE  FilesInv'
  <2> DEFINE saved == [request[s] EXCEPT !.attempts = 0, !.status = "QUEUED"]
  <2>1. SlotsKeepOrRestart
    BY <1>6, EnqueueEffect DEF RetrySave, TypeInv
  <2>2. saved.stored = request[s].stored /\ saved.status = "QUEUED"
    BY DEF TypeInv, TypeOK, Record
  <2>3. Honest(saved) /\ Listed(saved.stored, s)
    BY <2>2, KeptIsListed DEF Honest
  <2>4. record' = [record EXCEPT ![s] = saved] /\ request' = [request EXCEPT ![s] = NoRecord]
    BY <1>6 DEF RetrySave
  <2> HIDE DEF saved
  <2>5. \A t \in Sites : Listed(record'[t].stored, t) /\ Honest(record'[t])
    BY <2>3, <2>4, KeptIsListed DEF TypeInv, TypeOK
  <2>6. \A t \in Sites : Listed(request'[t].stored, t)
    BY <2>4, KeptIsListed, NewRecordsAreEmpty DEF TypeInv, TypeOK
  <2>7. FilesNothing
    BY <1>6, <2>1, <2>5, <2>6, RestartFilesNothing DEF RetrySave, FilesNothing
  <2>8. \A t \in Accepted' : t \in Accepted /\ staging'[t] = staging[t]
    BY <1>6 DEF RetrySave, Accepted
  <2> QED BY <2>7, <2>8, FilesNothingStep
<1>7. CASE Shutdown \/ BootBlind
  <2>1. UNCHANGED <<intake, record, staging, library, run, request>>
    BY <1>7 DEF Shutdown, BootBlind, durable
  <2>2. FilesNothing
    BY <1>k, <2>1, KeptIsListed DEF FilesNothing
  <2> QED BY <2>1, <2>2, FilesNothingStep DEF Accepted
<1>8. CASE Crash \/ Exit
  BY <1>8, LoseMemoryFilesNothing DEF Crash, Exit
<1>9. CASE Boot
  <2>1. SlotsKeepOrRestart
    BY <1>9, BootEffect DEF TypeInv
  <2>2. UNCHANGED <<intake, record, staging, library, request>>
    BY <1>9 DEF Boot, durable
  <2>3. FilesNothing
    BY <2>1, <2>2, RestartFilesNothing, KeptIsListed DEF FilesNothing
  <2> QED BY <2>2, <2>3, FilesNothingStep DEF Accepted
<1> QED BY <1>1, <1>2, <1>3, <1>4, <1>5, <1>6, <1>7, <1>8, <1>9

\* The steps of a run that file nothing.
LEMMA FilesInvQuietRunSteps ==
    ASSUME TypeInv, TypeInv', SpentGrows, FilesInv, NEW k \in Slots,
           \/ RunRead(k) \/ RunClaim(k) \/ SyncFails(k) \/ RunSettle(k)
           \/ RunDone(k) \/ RunThrows(k)
           \/ \E f \in Files : UploadFails(k, f)
    PROVE  FilesInv'
<1> DEFINE s == run[k].site
           rec == run[k].rec
<1>a. run[k] \in Run /\ rec \in Record
  BY DEF TypeInv, TypeOK, Run
<1>b. run[k].phase # "idle" => s \in Sites
  BY DEF TypeInv, BusySlotsHaveSite
<1>c. Listed(rec.stored, s) /\ Honest(rec)
  BY KeptIsListed
<1>d. \A j \in Slots : run'[j] = run[j] =>
         /\ run'[j].site \in Sites => Listed(run'[j].rec.stored, run'[j].site)
         /\ Honest(run'[j].rec)
         /\ StillUploads(j)
  BY KeptIsListed DEF StillUploads
<1>e. UNCHANGED intake => Accepted' = Accepted
  BY DEF Accepted
<1>1. CASE RunRead(k)
  <2>1. UNCHANGED <<intake, record, staging, library, request>> /\ s \in Sites
    BY <1>1, <1>b DEF RunRead, durable
  <2>2. CASE Release(k)
    <3>1. SlotsKeepOrRestart
      BY <2>2, ReleaseEffect DEF TypeInv
    <3>2. FilesNothing
      BY <2>1, <3>1, RestartFilesNothing, KeptIsListed DEF FilesNothing
    <3> QED BY <1>e, <2>1, <3>2, FilesNothingStep
  <2>3. CASE run' = [run EXCEPT
                       ![k].phase = "claiming",
                       ![k].rec = [record[s] EXCEPT !.attempts = @ + 1,
                                                    !.status = "PROCESSING"]]
    <3> DEFINE claimed == [record[s] EXCEPT !.attempts = @ + 1, !.status = "PROCESSING"]
    <3>1. claimed.stored = record[s].stored /\ claimed.status = "PROCESSING"
      BY <2>1 DEF TypeInv, TypeOK, Record
    <3>2. Honest(claimed) /\ Listed(claimed.stored, s)
      BY <2>1, <3>1, KeptIsListed DEF Honest
    <3>3. run' = [run EXCEPT ![k].phase = "claiming", ![k].rec = claimed]
      BY <2>3
    <3> HIDE DEF claimed
    <3>4. run'[k].phase = "claiming" /\ run'[k].site = s /\ run'[k].rec = claimed
      BY <3>3 DEF TypeInv, TypeOK, Run
    <3>5. \A j \in Slots \ {k} : run'[j] = run[j]
      BY <3>3 DEF TypeInv, TypeOK
    <3>6. FilesNothing
      BY <1>d, <2>1, <3>2, <3>4, <3>5, KeptIsListed DEF FilesNothing, StillUploads
    <3> QED BY <1>e, <2>1, <3>6, FilesNothingStep
  <2> QED BY <1>1, <2>2, <2>3 DEF RunRead
<1>2. CASE RunClaim(k)
  <2>1. UNCHANGED <<intake, staging, library, request>> /\ s \in Sites
    BY <1>2, <1>b DEF RunClaim
  <2>2. \A t \in Sites : Listed(record'[t].stored, t) /\ Honest(record'[t])
    BY <1>2, <1>c, KeptIsListed DEF RunClaim, TypeInv, TypeOK
  <2>3. /\ run'[k].phase # "uploading" /\ run'[k].site = s
        /\ run'[k].rec.stored = rec.stored /\ Honest(run'[k].rec)
    <3>1. CASE /\ NotFiled(rec) # {}
               /\ run' = [run EXCEPT
                            ![k].phase = "settling",
                            ![k].rec = [rec EXCEPT !.status = ShortStatus(rec),
                                                   !.retryAvailable = FALSE]]
      <4> DEFINE short == [rec EXCEPT !.status = ShortStatus(rec), !.retryAvailable = FALSE]
      <4>1. short.stored = rec.stored
        BY <1>a DEF Record
      <4>2. Honest(short)
        BY <1>a, <3>1, ShortIsHonest DEF AllStored
      <4> HIDE DEF short
      <4>3. run' = [run EXCEPT ![k].phase = "settling", ![k].rec = short]
        BY <3>1 DEF short
      <4>4. run'[k].phase = "settling" /\ run'[k].site = s /\ run'[k].rec = short
        BY <4>3 DEF TypeInv, TypeOK, Run
      <4> QED BY <4>1, <4>2, <4>4
    <3>2. CASE run' = [run EXCEPT ![k].phase = "syncing", ![k].todo = Pending(s, rec)]
      BY <1>c, <3>2 DEF TypeInv, TypeOK, Run
    <3> QED BY <1>2, <3>1, <3>2 DEF RunClaim
  <2>4. \A j \in Slots \ {k} : run'[j] = run[j]
    BY <1>2 DEF RunClaim, TypeInv, TypeOK
  <2>5. FilesNothing
    BY <1>c, <1>d, <2>1, <2>2, <2>3, <2>4, KeptIsListed DEF FilesNothing, StillUploads
  <2> QED BY <1>e, <2>1, <2>5, FilesNothingStep
<1>3. CASE SyncFails(k)
  <2>1. UNCHANGED <<intake, record, staging, library, request>> /\ s \in Sites
    BY <1>3, <1>b DEF SyncFails, durable
  <2>2. PICK n \in Folders :
          run' = [run EXCEPT ![k].phase = "settling",
                             ![k].rec = Outcome(rec, n, {}),
                             ![k].todo = {}]
    BY <1>3 DEF SyncFails
  <2>3. Honest(Outcome(rec, n, {})) /\ Outcome(rec, n, {}).stored = rec.stored
    <3>1. rec.stored = [f \in Files |-> rec.stored[f]]
      BY <1>a DEF Record
    <3> QED BY <1>a, <3>1, OutcomeIsHonest
  <2>4. run'[k].phase = "settling" /\ run'[k].site = s /\ run'[k].rec = Outcome(rec, n, {})
    BY <2>2 DEF TypeInv, TypeOK, Run
  <2>5. \A j \in Slots \ {k} : run'[j] = run[j]
    BY <2>2 DEF TypeInv, TypeOK
  <2>6. FilesNothing
    BY <1>c, <1>d, <2>1, <2>3, <2>4, <2>5, KeptIsListed DEF FilesNothing, StillUploads
  <2> QED BY <1>e, <2>1, <2>6, FilesNothingStep
<1>4. CASE RunSettle(k)
  <2>1. UNCHANGED <<intake, staging, library, request>>
    BY <1>4 DEF RunSettle
  <2>2. \A t \in Sites : Listed(record'[t].stored, t) /\ Honest(record'[t])
    BY <1>4, <1>c, KeptIsListed DEF RunSettle, TypeInv, TypeOK
  <2>3. run'[k].phase = "settled" /\ run'[k].site = s /\ run'[k].rec = rec
    BY <1>4 DEF RunSettle, TypeInv, TypeOK, Run
  <2>4. \A j \in Slots \ {k} : run'[j] = run[j]
    BY <1>4 DEF RunSettle, TypeInv, TypeOK
  <2>5. FilesNothing
    BY <1>c, <1>d, <2>1, <2>2, <2>3, <2>4, KeptIsListed DEF FilesNothing, StillUploads
  <2> QED BY <1>e, <2>1, <2>5, FilesNothingStep
<1>5. CASE RunDone(k)
  <2>1. SlotsKeepOrRestart
    BY <1>5, ReleaseEffect DEF RunDone, TypeInv
  <2>2. UNCHANGED <<intake, record, library, request>> /\ s \in Sites
    BY <1>5, <1>b DEF RunDone
  <2>3. FilesNothing
    BY <2>1, <2>2, RestartFilesNothing, KeptIsListed DEF FilesNothing
  <2>4. CASE rec.status # "COMPLETED"
    BY <1>5, <1>e, <2>2, <2>3, <2>4, FilesNothingStep DEF RunDone
  <2>5. ASSUME rec.status = "COMPLETED", Verified'
        PROVE  UploadIsSafe' /\ NothingIsLost'
    <3>0. Verified
      BY <2>5, VerifiedBefore
    <3>1. \A f \in Files : rec.stored[f] # NotStored /\ rec.stored[f] \in library[s][f]
      <4>1. \A f \in Files : rec.stored[f] # NotStored
        BY <1>c, <2>5 DEF Honest, AllStored, NotFiled, Stored
      <4> QED BY <1>c, <2>2, <3>0, <4>1, ListedIsTrue
    <3>2. staging' = [staging EXCEPT ![s] = {}]
      BY <1>5, <2>5 DEF RunDone
    <3>3. \A t \in Sites \ {s} : staging'[t] = staging[t]
      BY <2>2, <3>2 DEF TypeInv, TypeOK
    <3>4. NothingIsLost'
      BY <1>e, <2>2, <3>0, <3>1, <3>3 DEF FilesInv, NothingIsLost, Accepted
    <3>5. UploadIsSafe'
      <4> SUFFICES ASSUME NEW j \in Slots, run'[j].phase = "uploading",
                          run'[j].site \in Accepted, NEW f \in Files
                   PROVE  \/ f \in staging'[run'[j].site]
                          \/ library'[run'[j].site][f] \ {run'[j].folder} # {}
        BY <1>e, <2>2 DEF UploadIsSafe
      <4>1. /\ run[j].phase = "uploading"
            /\ run'[j].site = run[j].site
            /\ run'[j].folder = run[j].folder
        BY <2>3 DEF FilesNothing, StillUploads
      <4>2. CASE run[j].site = s
        <5>1. rec.stored[f] # run[j].folder
          BY <1>c, <3>0, <4>1, <4>2, ListedIsElsewhere
        <5> QED BY <2>2, <3>1, <4>1, <4>2, <5>1
      <4>3. CASE run[j].site # s
        <5>1. run[j].site \in Sites
          BY <4>1 DEF Accepted
        <5> QED BY <2>2, <3>0, <3>3, <4>1, <4>3, <5>1 DEF FilesInv, UploadIsSafe
      <4> QED BY <4>2, <4>3
    <3> QED BY <3>4, <3>5
  <2> QED BY <2>3, <2>4, <2>5, FilesNothingKeeps DEF FilesInv
<1>6. CASE RunThrows(k)
  <2>1. SlotsKeepOrRestart
    BY <1>6, ReleaseEffect DEF RunThrows, TypeInv
  <2>2. UNCHANGED <<intake, staging, library, request>>
    BY <1>6 DEF RunThrows
  <2>3. \A t \in Sites : Listed(record'[t].stored, t) /\ Honest(record'[t])
    BY <1>6, <1>c, KeptIsListed DEF RunThrows, TypeInv, TypeOK
  <2>4. FilesNothing
    BY <2>1, <2>2, <2>3, RestartFilesNothing, KeptIsListed DEF FilesNothing
  <2> QED BY <1>e, <2>2, <2>4, FilesNothingStep
<1>7. ASSUME NEW f \in Files, UploadFails(k, f)
      PROVE  FilesInv'
  <2>1. UNCHANGED <<intake, record, staging, library, request>>
    BY <1>7 DEF UploadFails, durable
  <2>2. /\ run'[k].site = s /\ run'[k].rec = rec /\ run'[k].folder = run[k].folder
        /\ run[k].phase = "uploading" /\ run'[k].landed = run[k].landed
    BY <1>7 DEF UploadFails, NextFile, TypeInv, TypeOK, Run
  <2>3. \A j \in Slots \ {k} : run'[j] = run[j]
    BY <1>7 DEF UploadFails, TypeInv, TypeOK
  <2>4. FilesNothing
    BY <1>c, <1>d, <2>1, <2>2, <2>3, KeptIsListed DEF FilesNothing, StillUploads
  <2> QED BY <1>e, <2>1, <2>4, FilesNothingStep
<1> QED BY <1>1, <1>2, <1>3, <1>4, <1>5, <1>6, <1>7

\* A sync starts to fill a folder that was empty: no copy of the record can
\* name it, and every file that is not staged has a copy elsewhere.
LEMMA FilesInvSyncStart ==
    ASSUME TypeInv, SpentGrows, FilesInv, NEW k \in Slots, SyncStart(k)
    PROVE  FilesInv'
<1> DEFINE s == run[k].site
<1>0. Verified' => Verified
  BY VerifiedBefore
<1>1. s \in Sites
  BY DEF SyncStart, TypeInv, BusySlotsHaveSite
<1>2. PICK n \in Folders :
        /\ FolderEmpty(s, n)
        /\ run' = [run EXCEPT ![k].phase = "uploading",
                              ![k].folder = n,
                              ![k].landed = {}]
  BY DEF SyncStart, Destination
<1>3. UNCHANGED <<intake, record, staging, library, request, spent>>
  BY DEF SyncStart, durable
<1>4. /\ run'[k].site = s /\ run'[k].rec = run[k].rec
      /\ run'[k].folder = n /\ run'[k].landed = {}
  BY <1>2 DEF TypeInv, TypeOK, Run
<1>5. \A j \in Slots \ {k} : run'[j] = run[j] /\ run[j].phase # "uploading"
  BY <1>2 DEF SyncStart, LockFree, TypeInv, TypeOK
<1>6. HonestInv'
  BY <1>3, <1>4, <1>5 DEF FilesInv, HonestInv, Honest, AllStored, NotFiled, Stored
<1>7. OneUploader' /\ LandedIsThere'
  BY <1>4, <1>5 DEF OneUploader, LandedIsThere
<1>8. ASSUME Verified'
      PROVE  CopiesAreTrue'
  BY <1>0, <1>3, <1>4, <1>5, <1>8 DEF FilesInv, CopiesAreTrue, Truthful
<1>9. ASSUME Verified'
      PROVE  FolderIsNew'
  <2>1. n # NotStored /\ \A f \in Files : n \notin library[s][f]
    BY <1>2, ConstantsAssumption DEF FolderEmpty, Folders, NotStored
  <2>2. Avoids(record[s], n) /\ Avoids(request[s], n)
    BY <1>0, <1>1, <1>9, <2>1 DEF FilesInv, CopiesAreTrue, Truthful, Avoids
  <2>3. \A j \in Slots : run[j].site = s => Avoids(run[j].rec, n)
    BY <1>0, <1>1, <1>9, <2>1 DEF FilesInv, CopiesAreTrue, Truthful, Avoids
  <2>4. \A j \in Slots : run'[j].site = run[j].site /\ run'[j].rec = run[j].rec
    BY <1>4, <1>5
  <2> QED BY <1>3, <1>4, <1>5, <2>2, <2>3, <2>4 DEF FolderIsNew, Avoids
<1>10. ASSUME Verified'
       PROVE  UploadIsSafe' /\ NothingIsLost'
  <2>1. \A f \in Files : library[s][f] \ {n} = library[s][f]
    BY <1>2 DEF FolderEmpty
  <2>2. NothingIsLost
    BY <1>0, <1>10 DEF FilesInv
  <2> QED BY <1>3, <1>4, <1>5, <2>1, <2>2 DEF UploadIsSafe, NothingIsLost, Accepted
<1> QED BY <1>6, <1>7, <1>8, <1>9, <1>10 DEF FilesInv

\* What is added to or taken from the folder being filled is seen by no copy
\* of the record.
LEMMA FilesInvLibrarySteps ==
    ASSUME TypeInv, SpentGrows, FilesInv, NEW k \in Slots, NEW f \in Files,
           UploadLands(k, f) \/ UploadReplyLost(k, f) \/ FlowTakes(k, f)
    PROVE  FilesInv'
<1> DEFINE s == run[k].site
           n == run[k].folder
<1>0. Verified' => Verified
  BY VerifiedBefore
<1>1. run[k].phase = "uploading" /\ s \in Sites /\ n \in Folders
  BY DEF UploadLands, UploadReplyLost, FlowTakes, NextFile, TypeInv, TypeOK, Run,
         BusySlotsHaveSite
<1>2. UNCHANGED <<intake, record, staging, request>>
  BY DEF UploadLands, UploadReplyLost, FlowTakes
<1>3. \A j \in Slots : /\ run'[j].phase = run[j].phase
                       /\ run'[j].site = run[j].site
                       /\ run'[j].rec = run[j].rec
                       /\ run'[j].folder = run[j].folder
  <2>1. CASE UploadLands(k, f)
    BY <2>1 DEF UploadLands, TypeInv, TypeOK, Run
  <2>2. CASE UploadReplyLost(k, f)
    BY <2>2 DEF UploadReplyLost, TypeInv, TypeOK, Run
  <2>3. CASE FlowTakes(k, f)
    BY <2>3 DEF FlowTakes
  <2> QED BY <2>1, <2>2, <2>3
<1>4. \A t \in Sites, g \in Files, m \in Folders :
         t # s \/ m # n => (m \in library'[t][g] <=> m \in library[t][g])
  <2>1. CASE library' = [library EXCEPT ![s][f] = @ \cup {n}]
    BY <1>1, <2>1 DEF TypeInv, TypeOK
  <2>2. CASE library' = [library EXCEPT ![s][f] = @ \ {n}]
    BY <1>1, <2>2 DEF TypeInv, TypeOK
  <2> QED BY <2>1, <2>2 DEF UploadLands, UploadReplyLost, FlowTakes
<1>5. \A t \in Sites, g \in Files : library[t][g] \subseteq Folders
  BY DEF TypeInv, TypeOK
<1>6. HonestInv'
  BY <1>2, <1>3 DEF FilesInv, HonestInv, Honest, AllStored, NotFiled, Stored
<1>7. OneUploader'
  BY <1>3 DEF FilesInv, OneUploader
<1>8. LandedIsThere'
  <2>1. CASE FlowTakes(k, f)
    <3>1. spent'["flow"] = spent["flow"] + 1 /\ spent["flow"] \in Nat
      BY <2>1 DEF FlowTakes, Spend, TypeInv, TypeOK, EventKinds
    <3> QED BY <3>1 DEF LandedIsThere
  <2>2. ASSUME UploadLands(k, f) \/ UploadReplyLost(k, f), spent'["flow"] = 0
        PROVE  \A j \in Slots : run'[j].phase = "uploading" =>
                  \A g \in run'[j].landed : run'[j].folder \in library'[run'[j].site][g]
    <3>0. spent["flow"] = 0
      BY <2>2, VerifiedBefore
    <3> SUFFICES ASSUME NEW j \in Slots, run'[j].phase = "uploading",
                        NEW g \in run'[j].landed
                 PROVE  run'[j].folder \in library'[run'[j].site][g]
      OBVIOUS
    <3>1. j = k
      BY <1>1, <1>3 DEF FilesInv, OneUploader
    <3>2. library'[s][f] = library[s][f] \cup {n}
      BY <1>1, <2>2 DEF UploadLands, UploadReplyLost, TypeInv, TypeOK
    <3>3. \A h \in Files \ {f} : library'[s][h] = library[s][h]
      BY <1>1, <2>2 DEF UploadLands, UploadReplyLost, TypeInv, TypeOK
    <3>4. run'[k].landed \subseteq run[k].landed \cup {f}
      <4>1. CASE UploadLands(k, f)
        BY <4>1 DEF UploadLands, TypeInv, TypeOK, Run
      <4>2. CASE UploadReplyLost(k, f)
        BY <4>2 DEF UploadReplyLost, TypeInv, TypeOK, Run
      <4> QED BY <2>2, <4>1, <4>2
    <3>5. \A h \in run[k].landed : h \in Files /\ n \in library[s][h]
      BY <1>1, <3>0 DEF FilesInv, LandedIsThere, TypeInv, TypeOK, Run
    <3> QED BY <1>3, <3>1, <3>2, <3>3, <3>4, <3>5
  <2> QED BY <2>1, <2>2 DEF LandedIsThere
<1>9. ASSUME Verified'
      PROVE  CopiesAreTrue'
  <2>0. CopiesAreTrue /\ FolderIsNew
    BY <1>0, <1>9 DEF FilesInv
  <2>1. ASSUME NEW t \in Sites, NEW rec, Truthful(rec, t), t = s => Avoids(rec, n),
               NEW g \in Files, rec.stored[g] # NotStored
        PROVE  rec.stored[g] \in library'[t][g]
    BY <1>4, <1>5, <2>1 DEF Truthful, Avoids
  <2>2. /\ Avoids(record[s], n) /\ Avoids(request[s], n)
        /\ \A j \in Slots : run[j].site = s => Avoids(run[j].rec, n)
    BY <1>1, <2>0 DEF FolderIsNew
  <2>3. \A t \in Sites : Truthful(record[t], t) /\ Truthful(request[t], t)
    BY <2>0 DEF CopiesAreTrue
  <2>4. \A j \in Slots : run[j].site \in Sites => Truthful(run[j].rec, run[j].site)
    BY <2>0 DEF CopiesAreTrue
  <2>5. \A t \in Sites : Truthful(record[t], t)' /\ Truthful(request[t], t)'
    BY <1>2, <2>1, <2>2, <2>3 DEF Truthful
  <2>6. \A j \in Slots : run'[j].site \in Sites => Truthful(run[j].rec, run[j].site)'
    BY <1>3, <2>1, <2>2, <2>4 DEF Truthful
  <2> QED BY <2>5, <2>6 DEF CopiesAreTrue
<1>10. ASSUME Verified'
       PROVE  FolderIsNew'
  BY <1>0, <1>2, <1>3, <1>10 DEF FilesInv, FolderIsNew, Avoids
<1>11. Accepted' = Accepted
  BY <1>2 DEF Accepted
<1>12. ASSUME Verified'
       PROVE  UploadIsSafe'
  <2> SUFFICES ASSUME NEW j \in Slots, run[j].phase = "uploading",
                      run[j].site \in Accepted, NEW g \in Files,
                      g \notin staging[run[j].site]
               PROVE  library'[run[j].site][g] \ {run[j].folder} # {}
    BY <1>2, <1>3, <1>11 DEF UploadIsSafe
  <2>1. j = k
    BY <1>1 DEF FilesInv, OneUploader
  <2>2. PICK m \in library[s][g] : m # n
    BY <1>0, <1>12, <2>1 DEF FilesInv, UploadIsSafe
  <2>3. m \in library'[s][g]
    BY <1>1, <1>4, <1>5, <2>2
  <2> QED BY <2>1, <2>2, <2>3
<1>13. ASSUME Verified'
       PROVE  NothingIsLost'
  <2> SUFFICES ASSUME NEW t \in Accepted, NEW g \in Files, g \notin staging[t]
               PROVE  library'[t][g] # {}
    BY <1>2, <1>11 DEF NothingIsLost
  <2>1. t \in Sites
    BY DEF Accepted
  <2>2. CASE t # s
    BY <1>0, <1>4, <1>5, <1>13, <2>1, <2>2 DEF FilesInv, NothingIsLost
  <2>3. CASE t = s
    BY <1>1, <1>2, <1>3, <1>11, <1>12, <1>13, <2>3 DEF UploadIsSafe
  <2> QED BY <2>2, <2>3
<1> QED BY <1>6, <1>7, <1>8, <1>9, <1>10, <1>12, <1>13 DEF FilesInv

\* The outcome names the new folder only for files a listing has shown there
\* or, where the listing fails and no flow was at work, that have landed.
LEMMA FilesInvSyncReturns ==
    ASSUME TypeInv, SpentGrows, FilesInv, NEW k \in Slots,
           SyncReturns(k) \/ SyncReturnsUnchecked(k)
    PROVE  FilesInv'
<1> DEFINE s == run[k].site
           n == run[k].folder
<1>0. Verified' => Verified
  BY VerifiedBefore
<1>1. PICK synced \in SUBSET Files :
        /\ Report(k, synced)
        /\ Verified' => \A f \in synced : n \in library[s][f]
  <2>1. CASE SyncReturns(k)
    <3>1. Seen(k) \in SUBSET Files /\ \A f \in Seen(k) : n \in library[s][f]
      BY DEF Seen, TypeInv, TypeOK, Run
    <3> QED BY <2>1, <3>1 DEF SyncReturns
  <2>2. CASE SyncReturnsUnchecked(k)
    <3>1. spent'["listing"] # 0 /\ spent'["flow"] = spent["flow"]
      BY <2>2 DEF SyncReturnsUnchecked, Spend, TypeInv, TypeOK, EventKinds
    <3>2. Verified' => \A f \in run[k].landed : n \in library[s][f]
      BY <2>2, <3>1 DEF SyncReturnsUnchecked, Report, Verified, FilesInv, LandedIsThere
    <3>3. run[k].landed \in SUBSET Files
      BY DEF TypeInv, TypeOK, Run
    <3> QED BY <2>2, <3>2, <3>3 DEF SyncReturnsUnchecked
  <2> QED BY <2>1, <2>2
<1> DEFINE outcome == Outcome(run[k].rec, n, synced)
<1>2. run[k].phase = "uploading" /\ s \in Sites
  BY <1>1 DEF Report, TypeInv, BusySlotsHaveSite
<1>3. UNCHANGED <<intake, record, staging, library, request>>
  BY <1>1 DEF Report, durable
<1>4. run[k].rec \in Record /\ n \in Folders
  BY DEF TypeInv, TypeOK, Run
<1>5. /\ Honest(outcome)
      /\ outcome.stored = [f \in Files |-> IF f \in synced THEN n ELSE run[k].rec.stored[f]]
  BY <1>4, OutcomeIsHonest
<1>6. run' = [run EXCEPT ![k].phase = "settling", ![k].rec = outcome, ![k].landed = {}]
  BY <1>1 DEF Report
<1> HIDE DEF outcome
<1>7. run'[k].phase = "settling" /\ run'[k].site = s /\ run'[k].rec = outcome
  BY <1>6 DEF TypeInv, TypeOK, Run
<1>8. \A j \in Slots \ {k} : run'[j] = run[j] /\ run[j].phase # "uploading"
  BY <1>2, <1>6 DEF TypeInv, TypeOK, FilesInv, OneUploader
<1>9. HonestInv'
  <2>1. \A j \in Slots : Honest(run'[j].rec)
    BY <1>5, <1>7, <1>8 DEF FilesInv, HonestInv
  <2> QED BY <1>3, <2>1 DEF FilesInv, HonestInv, Honest, AllStored, NotFiled, Stored
<1>10. OneUploader' /\ LandedIsThere' /\ FolderIsNew' /\ UploadIsSafe'
  <2>1. \A j \in Slots : run'[j].phase # "uploading"
    BY <1>7, <1>8
  <2> QED BY <2>1 DEF OneUploader, LandedIsThere, FolderIsNew, UploadIsSafe
<1>11. ASSUME Verified'
       PROVE  CopiesAreTrue' /\ NothingIsLost'
  <2>1. CopiesAreTrue /\ NothingIsLost
    BY <1>0, <1>11 DEF FilesInv
  <2>2. Truthful(outcome, s)
    BY <1>1, <1>2, <1>5, <1>11, <2>1 DEF CopiesAreTrue, Truthful
  <2> QED BY <1>3, <1>7, <1>8, <2>1, <2>2 DEF CopiesAreTrue, Truthful, NothingIsLost, Accepted
<1> QED BY <1>9, <1>10, <1>11 DEF FilesInv

LEMMA FilesInvInit == Init => FilesInv
<1> SUFFICES ASSUME Init PROVE FilesInv
  OBVIOUS
<1>1. /\ \A s \in Sites : record[s] = NoRecord /\ request[s] = NoRecord
      /\ \A k \in Slots : run[k].rec = NoRecord /\ run[k].phase = "idle"
  BY NewRecordsAreEmpty DEF Init
<1>2. HonestInv
  BY <1>1, NewRecordsAreEmpty DEF HonestInv
<1>3. CopiesAreTrue
  BY <1>1, NewRecordsAreEmpty DEF CopiesAreTrue, Truthful, NothingStored
<1>4. OneUploader /\ LandedIsThere /\ FolderIsNew /\ UploadIsSafe
  BY <1>1 DEF OneUploader, LandedIsThere, FolderIsNew, UploadIsSafe
<1>5. NothingIsLost
  BY DEF Init, NothingIsLost, Accepted
<1> QED BY <1>2, <1>3, <1>4, <1>5 DEF FilesInv

LEMMA FilesInvStep == TypeInv /\ TypeInv' /\ FilesInv /\ [Next]_vars => FilesInv'
<1> SUFFICES ASSUME TypeInv, TypeInv', FilesInv, [Next]_vars PROVE FilesInv'
  OBVIOUS
<1>0. SpentGrows
  BY SpendGrows
<1>1. ASSUME NEW k \in Slots, RunStep(k) \/ RunThrows(k)
      PROVE  FilesInv'
  BY <1>0, <1>1, FilesInvQuietRunSteps, FilesInvSyncStart, FilesInvLibrarySteps,
     FilesInvSyncReturns DEF RunStep, Sync
<1>2. ASSUME NEW k \in Slots, NEW f \in Files, FlowTakes(k, f)
      PROVE  FilesInv'
  BY <1>0, <1>2, FilesInvLibrarySteps
<1>3. CASE UNCHANGED vars
  <2>1. UNCHANGED <<intake, record, staging, library, run, request>>
    BY <1>3 DEF vars
  <2>2. FilesNothing
    BY <2>1, KeptIsListed DEF FilesNothing, StillUploads
  <2> QED BY <1>0, <2>1, <2>2, FilesNothingStep DEF Accepted
<1> QED BY <1>0, <1>1, <1>2, <1>3, FilesInvOtherSteps DEF Next

LEMMA FilesInvariant == Spec => [](TypeInv /\ FilesInv)
BY TypeInvInit, TypeInvStep, FilesInvInit, FilesInvStep, PTL DEF Spec

\* The record store never claims a file for a folder that does not hold it:
\* not after a stale save, a lost answer, a crash or a flow that moved files.
THEOREM RecordsAreTrue == Spec => []RecordedFilesAreStored
<1>1. TypeInv /\ FilesInv => RecordedFilesAreStored
  BY DEF FilesInv, CopiesAreTrue, Truthful, RecordedFilesAreStored
<1> QED BY <1>1, FilesInvariant, PTL

\* No file of an accepted submission is ever lost: until the library has it
\* for good, the staged copy stays.
THEOREM NoFileIsLost == Spec => []AcceptedFilesSurvive
<1>1. TypeInv /\ FilesInv => AcceptedFilesSurvive
  BY DEF FilesInv, NothingIsLost, AcceptedFilesSurvive
<1> QED BY <1>1, FilesInvariant, PTL

\* COMPLETED, PARTIAL and FAILED mean all, some and none of the files.
THEOREM StatusesAreRight == Spec => []StatusMatchesFiles
<1>1. TypeInv /\ FilesInv => StatusMatchesFiles
  BY DEF FilesInv, HonestInv, Honest, StatusMatchesFiles
<1> QED BY <1>1, FilesInvariant, PTL
==============================================================================
