------------------------- MODULE LibrarySync_proofs -------------------------
(***************************************************************************)
(* Theorems about LibrarySync, for any number of submissions, files,       *)
(* suffixes and drives, with or without a sidecar, and any budget.         *)
(***************************************************************************)
EXTENDS LibrarySync, TLAPS, SequenceTheorems, FiniteSetTheorems

----------------------------------------------------------------------------
(* Types *)

\* Who holds the lock is in the chain, and a job under way belongs to somebody.
JobHasSite ==
    job.phase # "idle" => waiting # << >> /\ job.site \in Sites

TypeInv == TypeOK /\ JobHasSite

LEMMA IdleJobType == IdleJob \in Job
<1>1. 0 \in Folders
  BY ConstantsAssumption DEF Folders
<1> QED BY <1>1 DEF IdleJob, Job, Phases, NoneLanded, NoNumber, NoSite

LEMMA SpendType ==
    ASSUME TypeOK, NEW e \in EventKinds, Spend(e)
    PROVE  /\ spent' \in [EventKinds -> Nat]
           /\ \A k \in EventKinds : spent'[k] >= spent[k]
           /\ spent'[e] > spent[e]
BY DEF TypeOK, Spend

\* The lock is passed on.
LEMMA TailType ==
    ASSUME waiting \in Seq(Sites), waiting # << >>
    PROVE  Tail(waiting) \in Seq(Sites) /\ Head(waiting) \in Sites
BY HeadTailProperties

LEMMA StoreType ==
    ASSUME TypeOK, NEW d \in Drives, NEW fo \in Folders, NEW n \in Numbers,
           NEW c \in Contents, files' = [files EXCEPT ![d][fo][n] = c]
    PROVE  /\ files' \in [Drives -> [Folders -> [Numbers -> Contents]]]
           /\ \A dd \in Drives, ff \in Folders, nn \in Numbers :
                 files'[dd][ff][nn] = IF dd = d /\ ff = fo /\ nn = n THEN c
                                      ELSE files[dd][ff][nn]
BY DEF TypeOK

LEMMA MarkType ==
    ASSUME TypeOK, job.site \in Sites, Mark
    PROVE  /\ sidecar' \in [Drives -> [Folders -> Sites \cup {NoSite}]]
           /\ \A d \in Drives, fo \in Folders :
                 sidecar'[d][fo] = IF d = drive /\ fo = job.folder THEN job.site
                                   ELSE sidecar[d][fo]
BY DEF TypeOK, Mark, Job

\* What looking at one candidate makes of a job.
LEMMA ChosenType ==
    ASSUME NEW j \in Job, NEW names, j.phase = "choosing"
    PROVE  /\ Chosen(j, names) \in Job
           /\ Chosen(j, names).phase \in {"choosing", "preparing"}
           /\ Chosen(j, names).site = j.site
           /\ Chosen(j, names).live = j.live
           /\ Chosen(j, names).todo = j.todo
           /\ Chosen(j, names).landed = j.landed
<1>1. 0 \in Folders /\ j.folder \in Folders
  BY ConstantsAssumption DEF Folders, Job
<1>2. CASE ~Taken(j.folder, names)
  BY <1>2 DEF Chosen, Job, Phases
<1>3. CASE Taken(j.folder, names) /\ j.folder < MaxSuffix
  <2>1. j.folder + 1 \in Folders
    BY <1>1, <1>3, ConstantsAssumption DEF Folders
  <2> QED BY <1>3, <2>1 DEF Chosen, Job, Phases
<1>4. CASE Taken(j.folder, names) /\ ~(j.folder < MaxSuffix)
  BY <1>4, <1>1 DEF Chosen, Job, Phases
<1> QED BY <1>2, <1>3, <1>4

LEMMA ChooserType ==
    ASSUME TypeInv, waiting # << >>, job.phase \in {"idle", "choosing"}
    PROVE  /\ Chooser \in Job
           /\ Chooser.phase = "choosing"
           /\ Chooser.site \in Sites
           /\ job.phase = "idle" => /\ Chooser.live = Live(drive)
                                    /\ Chooser.todo = Owing(Chooser.site)
                                    /\ Chooser.landed = NoneLanded
           /\ job.phase = "choosing" => Chooser = job
<1>1. Head(waiting) \in Sites
  BY TailType DEF TypeInv, TypeOK
<1>2. CASE job.phase = "choosing"
  BY <1>2 DEF Chooser, TypeInv, TypeOK, JobHasSite
<1>3. CASE job.phase = "idle"
  <2>1. Owing(Head(waiting)) \in SUBSET Files
    BY DEF Owing
  <2>2. Live(drive) \in BOOLEAN
    BY DEF Live
  <2>3. Chooser = [IdleJob EXCEPT !.phase = "choosing",
                                  !.site = Head(waiting),
                                  !.live = Live(drive),
                                  !.todo = Owing(Head(waiting))]
    BY <1>3 DEF Chooser
  <2> QED BY <1>1, <1>3, <2>1, <2>2, <2>3, IdleJobType DEF IdleJob, Job, Phases
<1> QED BY <1>2, <1>3

LEMMA TriedType ==
    ASSUME TypeInv, NEW f \in Files, NextFile(f), NEW got \in Numbers \cup {NoNumber},
           Tried(f, got)
    PROVE  /\ job' \in Job
           /\ job'.phase = "uploading" /\ job'.site = job.site
           /\ job'.live = job.live /\ job'.folder = job.folder
           /\ job'.last = Number
           /\ job'.todo = job.todo \ {f}
           /\ \A g \in Files : job'.landed[g] = IF g = f THEN got ELSE job.landed[g]
<1>1. job \in Job /\ Number \in Nat
  BY DEF TypeInv, TypeOK, Job, Number
<1> QED BY <1>1 DEF Tried, NextFile, Job

\* Whoever gives the lock back, job and chain stay well typed.
LEMMA ReleaseType ==
    ASSUME TypeInv, job.phase # "idle", job' = IdleJob, waiting' = Tail(waiting)
    PROVE  job' \in Job /\ waiting' \in Seq(Sites) /\ JobHasSite'
<1>1. Tail(waiting) \in Seq(Sites)
  BY TailType DEF TypeInv, TypeOK, JobHasSite
<1> QED BY <1>1, IdleJobType DEF JobHasSite, IdleJob

LEMMA TypeInvInit == Init => TypeInv
<1> SUFFICES ASSUME Init PROVE TypeInv
  OBVIOUS
<1>1. Nothing \in Contents
  BY DEF Contents
<1>2. files \in [Drives -> [Folders -> [Numbers -> Contents]]]
  BY <1>1 DEF Init
<1>3. waiting \in Seq(Sites)
  BY DEF Init
<1>4. /\ drive \in Drives /\ job \in Job /\ torn \in BOOLEAN
      /\ sidecar \in [Drives -> [Folders -> Sites \cup {NoSite}]]
      /\ filed \in [Sites -> [Files -> (Folders \X Numbers) \cup {NotFiled}]]
      /\ tries \in [Sites -> Nat] /\ spent \in [EventKinds -> Nat]
  BY IdleJobType DEF Init
<1>5. JobHasSite
  BY DEF Init, IdleJob, JobHasSite
<1> QED BY <1>2, <1>3, <1>4, <1>5 DEF TypeInv, TypeOK

\* The steps of the sync up to its uploads.
LEMMA TypeInvFolderSteps ==
    ASSUME TypeInv,
           \/ ChooseFolder \/ ChooseBlind
           \/ PrepareFolder \/ PrepareFails \/ PrepareReplyLost
           \/ CountNames \/ CountBlind
    PROVE  TypeInv'
<1> USE DEF TypeInv
<1>1. ASSUME NEW names, Choosing, job' = Chosen(Chooser, names)
      PROVE  job' \in Job /\ JobHasSite'
  <2>1. /\ Chooser \in Job /\ Chooser.phase = "choosing" /\ Chooser.site \in Sites
    BY <1>1, ChooserType DEF Choosing
  <2>2. job' \in Job /\ job'.site = Chooser.site
    BY <1>1, <2>1, ChosenType
  <2> QED BY <1>1, <2>1, <2>2 DEF Choosing, JobHasSite
<1>2. CASE ChooseFolder
  <2>1. job' \in Job /\ JobHasSite'
    BY <1>1, <1>2 DEF ChooseFolder
  <2> QED BY <1>2, <2>1 DEF ChooseFolder, Choosing, library, TypeOK
<1>3. CASE ChooseBlind
  <2>1. job' \in Job /\ JobHasSite'
    BY <1>1, <1>3 DEF ChooseBlind
  <2>2. spent' \in [EventKinds -> Nat]
    BY <1>3, SpendType DEF ChooseBlind, EventKinds
  <2> QED BY <1>3, <2>1, <2>2 DEF ChooseBlind, Choosing, library, TypeOK
<1>4. CASE PrepareFolder
  <2>1. job.site \in Sites
    BY <1>4 DEF PrepareFolder, JobHasSite
  <2>2. job' \in Job /\ waiting' \in Seq(Sites) /\ JobHasSite' /\ UNCHANGED filed
    <3>1. CASE Abort
      BY <1>4, <3>1, ReleaseType DEF PrepareFolder, Abort
    <3>2. CASE job' = [job EXCEPT !.phase = "counting"] /\ UNCHANGED <<waiting, filed>>
      <4>1. job' \in Job
        BY <3>2 DEF TypeOK, Job, Phases
      <4> QED BY <1>4, <3>2, <4>1 DEF PrepareFolder, TypeOK, JobHasSite, Job
    <3> QED BY <1>4, <3>1, <3>2 DEF PrepareFolder
  <2>3. sidecar' \in [Drives -> [Folders -> Sites \cup {NoSite}]]
    BY <1>4, <2>1, MarkType DEF PrepareFolder, TypeOK
  <2> QED BY <1>4, <2>2, <2>3 DEF PrepareFolder, TypeOK
<1>5. CASE PrepareFails
  <2>1. job' \in Job /\ waiting' \in Seq(Sites) /\ JobHasSite'
    BY <1>5, ReleaseType DEF PrepareFails, Abort
  <2>2. spent' \in [EventKinds -> Nat]
    BY <1>5, SpendType DEF PrepareFails, EventKinds
  <2> QED BY <1>5, <2>1, <2>2 DEF PrepareFails, Abort, library, TypeOK
<1>6. CASE PrepareReplyLost
  <2>1. job' \in Job /\ waiting' \in Seq(Sites) /\ JobHasSite'
    BY <1>6, ReleaseType DEF PrepareReplyLost, Abort
  <2>2. spent' \in [EventKinds -> Nat]
    BY <1>6, SpendType DEF PrepareReplyLost, EventKinds
  <2>3. sidecar' \in [Drives -> [Folders -> Sites \cup {NoSite}]]
    BY <1>6, MarkType DEF PrepareReplyLost, JobHasSite
  <2> QED BY <1>6, <2>1, <2>2, <2>3 DEF PrepareReplyLost, Abort, TypeOK
<1>7. ASSUME NEW names, Count(names)
      PROVE  job' \in Job /\ JobHasSite'
  <2>1. PICK n \in Numbers \cup {0} : job' = [job EXCEPT !.phase = "uploading", !.last = n]
    BY <1>7 DEF Count
  <2>2. n \in Nat
    BY ConstantsAssumption DEF Numbers
  <2>3. job' \in Job
    BY <2>1, <2>2 DEF TypeOK, Job, Phases
  <2> QED BY <1>7, <2>1, <2>3 DEF Count, TypeOK, JobHasSite, Job
<1>8. CASE CountNames
  BY <1>7, <1>8 DEF CountNames, Count, library, TypeOK
<1>9. CASE CountBlind
  <2>1. spent' \in [EventKinds -> Nat]
    BY <1>9, SpendType DEF CountBlind, EventKinds
  <2> QED BY <1>7, <1>9, <2>1 DEF CountBlind, Count, library, TypeOK
<1> QED BY <1>2, <1>3, <1>4, <1>5, <1>6, <1>8, <1>9

\* What storing a file changes.
LEMMA StoreEffect ==
    ASSUME TypeInv, NEW f \in Files, NextFile(f), Store(f)
    PROVE  /\ <<job.site, f>> \in Contents
           /\ Target \in Drives /\ job.folder \in Folders
           /\ files' \in [Drives -> [Folders -> [Numbers -> Contents]]]
           /\ \A d \in Drives, fo \in Folders, n \in Numbers :
                 files'[d][fo][n] =
                    IF d = Target /\ fo = job.folder /\ n = Number THEN <<job.site, f>>
                    ELSE files[d][fo][n]
<1>1. job.site \in Sites
  BY DEF TypeInv, JobHasSite, NextFile
<1>2. <<job.site, f>> \in Contents
  BY <1>1 DEF Contents
<1>3. Target \in Drives /\ job.folder \in Folders /\ Number \in Numbers
  BY ConstantsAssumption DEF Target, Store, TypeInv, TypeOK, Job
<1>4. files' = [files EXCEPT ![Target][job.folder][Number] = <<job.site, f>>]
  BY DEF Store
<1>5. files \in [Drives -> [Folders -> [Numbers -> Contents]]]
  BY DEF TypeInv, TypeOK
<1>6. Number \in Numbers
  BY DEF Store
<1> DEFINE d == Target
           fo == job.folder
           n == Number
           c == <<job.site, f>>
<1>7. /\ d \in Drives /\ fo \in Folders /\ n \in Numbers /\ c \in Contents
      /\ files' = [files EXCEPT ![d][fo][n] = c]
  BY <1>2, <1>3, <1>4, <1>6
<1>8. \A dd \in Drives, ff \in Folders, nn \in Numbers :
         files'[dd][ff][nn] = IF dd = d /\ ff = fo /\ nn = n THEN c ELSE files[dd][ff][nn]
  <2> HIDE DEF d, fo, n, c
  <2> QED BY <1>5, <1>7
<1>9. files' \in [Drives -> [Folders -> [Numbers -> Contents]]]
  <2> HIDE DEF d, fo, n, c
  <2> QED BY <1>5, <1>7
<1> QED BY <1>2, <1>3, <1>8, <1>9

LEMMA TypeInvUploadSteps ==
    ASSUME TypeInv, NEW f \in Files,
           UploadLands(f) \/ UploadRefused(f) \/ UploadFails(f) \/ UploadReplyLost(f)
    PROVE  TypeInv'
<1>1. NextFile(f)
  BY DEF UploadLands, UploadRefused, UploadFails, UploadReplyLost
<1>2. PICK got \in Numbers \cup {NoNumber} : Tried(f, got)
  BY DEF UploadLands, UploadRefused, UploadFails, UploadReplyLost, Store
<1>3. job' \in Job /\ JobHasSite'
  <2>1. job' \in Job /\ job'.site = job.site
    BY <1>1, <1>2, TriedType
  <2> QED BY <1>1, <1>2, <2>1 DEF Tried, NextFile, TypeInv, JobHasSite
<1>4. files' \in [Drives -> [Folders -> [Numbers -> Contents]]]
  <2>1. CASE Store(f)
    BY <1>1, <2>1, StoreEffect
  <2>2. CASE UNCHANGED files
    BY <2>2 DEF TypeInv, TypeOK
  <2> QED BY <2>1, <2>2 DEF UploadLands, UploadRefused, UploadFails, UploadReplyLost
<1>5. spent' \in [EventKinds -> Nat]
  BY SpendType DEF UploadLands, UploadRefused, UploadFails, UploadReplyLost,
                   EventKinds, TypeInv, TypeOK
<1> QED BY <1>2, <1>3, <1>4, <1>5 DEF Tried, TypeInv, TypeOK

\* What a report adds to the record.
LEMMA ReturnEffect ==
    ASSUME TypeInv, NEW synced \in SUBSET Landed, Return(synced)
    PROVE  /\ filed' \in [Sites -> [Files -> (Folders \X Numbers) \cup {NotFiled}]]
           /\ \A s \in Sites, f \in Files :
                 filed'[s][f] = IF s = job.site /\ f \in synced
                                THEN <<job.folder, job.landed[f]>> ELSE filed[s][f]
           /\ job' \in Job /\ waiting' \in Seq(Sites) /\ JobHasSite'
<1>1. job.site \in Sites /\ job.folder \in Folders
  BY DEF TypeInv, TypeOK, JobHasSite, Return, Job
<1>2. \A f \in synced : job.landed[f] \in Numbers
  BY DEF Landed, TypeInv, TypeOK, Job
<1>3. job' \in Job /\ waiting' \in Seq(Sites) /\ JobHasSite'
  BY ReleaseType DEF Return
<1> DEFINE mine == [f \in Files |-> IF f \in synced THEN <<job.folder, job.landed[f]>>
                                    ELSE filed[job.site][f]]
<1>4. mine \in [Files -> (Folders \X Numbers) \cup {NotFiled}]
  BY <1>1, <1>2 DEF TypeInv, TypeOK
<1>5. filed' = [filed EXCEPT ![job.site] = mine]
  BY DEF Return
<1>6. filed' \in [Sites -> [Files -> (Folders \X Numbers) \cup {NotFiled}]]
  BY <1>1, <1>4, <1>5 DEF TypeInv, TypeOK
<1>7. ASSUME NEW s \in Sites, NEW f \in Files
      PROVE  filed'[s][f] = IF s = job.site /\ f \in synced
                            THEN <<job.folder, job.landed[f]>> ELSE filed[s][f]
  <2>1. filed'[s] = IF s = job.site THEN mine ELSE filed[s]
    BY <1>1, <1>5 DEF TypeInv, TypeOK
  <2> QED BY <2>1
<1> QED BY <1>3, <1>6, <1>7

LEMMA SeenLanded == Seen \in SUBSET Landed
BY DEF Seen, Landed

LEMMA TypeInvReturnSteps ==
    ASSUME TypeInv, Confirm \/ ConfirmBlind
    PROVE  TypeInv'
<1>1. CASE Confirm
  BY <1>1, ReturnEffect, SeenLanded DEF Confirm, Return, library, TypeInv, TypeOK
<1>2. CASE ConfirmBlind
  <2>1. spent' \in [EventKinds -> Nat]
    BY <1>2, SpendType DEF ConfirmBlind, EventKinds, TypeInv
  <2>2. Landed \in SUBSET Landed
    OBVIOUS
  <2> QED BY <1>2, <2>1, <2>2, ReturnEffect DEF ConfirmBlind, Return, library, TypeInv, TypeOK
<1> QED BY <1>1, <1>2

\* What a flow may do to a folder.
OfTheUpload(c) == c = Nothing \/ \E g \in Landed : c = <<job.site, g>>

LEMMA FlowEffect ==
    ASSUME TypeInv, NEW f \in Files, FlowActs(f)
    PROVE  /\ files' \in [Drives -> [Folders -> [Numbers -> Contents]]]
           /\ \E d \in Drives :
                /\ Live(d)
                /\ files[d][job.folder][job.landed[f]] = <<job.site, f>>
                /\ \A dd \in Drives, fo \in Folders, n \in Numbers :
                      files'[dd][fo][n] # files[dd][fo][n] =>
                         /\ dd = d /\ fo = job.folder
                         /\ OfTheUpload(files[dd][fo][n])
                         /\ files'[dd][fo][n] \in {Nothing, <<job.site, f>>}
<1>1. PICK d \in Drives :
         /\ Live(d)
         /\ files[d][job.folder][job.landed[f]] = <<job.site, f>>
         /\ \/ files' = [files EXCEPT ![d][job.folder][job.landed[f]] = Nothing]
            \/ \E g \in Landed \ {f} :
                  /\ files[d][job.folder][job.landed[g]] \in {Nothing, <<job.site, g>>}
                  /\ files' = [files EXCEPT ![d][job.folder][job.landed[f]] = Nothing,
                                            ![d][job.folder][job.landed[g]] = <<job.site, f>>]
  BY DEF FlowActs
<1>2. f \in Landed /\ job.folder \in Folders /\ \A g \in Landed : job.landed[g] \in Numbers
  BY DEF FlowActs, TypeInv, TypeOK, Job, Landed
<1>3. files \in [Drives -> [Folders -> [Numbers -> Contents]]]
  BY DEF TypeInv, TypeOK
<1>4. files[d][job.folder][job.landed[f]] = <<job.site, f>> /\ Live(d)
  BY <1>1
<1>5. <<job.site, f>> \in Contents /\ Nothing \in Contents
  <2>1. files[d][job.folder][job.landed[f]] \in Contents
    BY <1>2, <1>3
  <2>2. Nothing \in Contents
    BY DEF Contents
  <2> QED BY <1>4, <2>1, <2>2
<1> DEFINE fo == job.folder
           n == job.landed[f]
           c == <<job.site, f>>
<1>6. /\ fo \in Folders /\ n \in Numbers /\ c \in Contents /\ Nothing \in Contents
      /\ files[d][fo][n] = c /\ OfTheUpload(c)
  BY <1>2, <1>4, <1>5 DEF OfTheUpload
<1> DEFINE Changes(a, ff, m) ==
               files'[a][ff][m] # files[a][ff][m] =>
                  /\ a = d /\ ff = fo
                  /\ OfTheUpload(files[a][ff][m])
                  /\ files'[a][ff][m] \in {Nothing, c}
           Effect == /\ files' \in [Drives -> [Folders -> [Numbers -> Contents]]]
                     /\ \A a \in Drives, ff \in Folders, m \in Numbers : Changes(a, ff, m)
<1>7. ASSUME files' = [files EXCEPT ![d][fo][n] = Nothing]
      PROVE  Effect
  <2> HIDE DEF fo, n, c
  <2> QED BY <1>3, <1>6, <1>7
<1>8. ASSUME NEW g \in Landed,
             files[d][fo][job.landed[g]] \in {Nothing, <<job.site, g>>},
             files' = [files EXCEPT ![d][fo][n] = Nothing, ![d][fo][job.landed[g]] = c]
      PROVE  Effect
  <2> DEFINE m == job.landed[g]
             between == [files EXCEPT ![d][fo][n] = Nothing]
  <2>1. m \in Numbers /\ OfTheUpload(files[d][fo][m])
    BY <1>2, <1>8 DEF OfTheUpload
  <2>2. files' = [between EXCEPT ![d][fo][m] = c]
    BY <1>8
  <2> HIDE DEF fo, n, c, m
  <2>3. /\ between \in [Drives -> [Folders -> [Numbers -> Contents]]]
        /\ \A a \in Drives, ff \in Folders, k \in Numbers :
              between[a][ff][k] = IF a = d /\ ff = fo /\ k = n THEN Nothing
                                  ELSE files[a][ff][k]
    BY <1>3, <1>6
  <2> HIDE DEF between
  <2>4. /\ files' \in [Drives -> [Folders -> [Numbers -> Contents]]]
        /\ \A a \in Drives, ff \in Folders, k \in Numbers :
              files'[a][ff][k] = IF a = d /\ ff = fo /\ k = m THEN c
                                 ELSE between[a][ff][k]
    BY <1>6, <2>1, <2>2, <2>3
  <2> QED BY <1>6, <2>1, <2>3, <2>4
<1>9. Effect
  <2>1. CASE files' = [files EXCEPT ![d][job.folder][job.landed[f]] = Nothing]
    <3>1. Effect
      BY <1>7, <2>1
    <3> QED BY <3>1
  <2>2. CASE \E g \in Landed \ {f} :
                /\ files[d][job.folder][job.landed[g]] \in {Nothing, <<job.site, g>>}
                /\ files' = [files EXCEPT ![d][job.folder][job.landed[f]] = Nothing,
                                          ![d][job.folder][job.landed[g]] = <<job.site, f>>]
    <3>1. PICK g \in Landed \ {f} :
                /\ files[d][job.folder][job.landed[g]] \in {Nothing, <<job.site, g>>}
                /\ files' = [files EXCEPT ![d][job.folder][job.landed[f]] = Nothing,
                                          ![d][job.folder][job.landed[g]] = <<job.site, f>>]
      BY <2>2
    <3> HIDE DEF Effect
    <3> QED BY <1>8, <3>1
  <2> QED BY <1>1, <2>1, <2>2
<1> QED BY <1>4, <1>9

\* A person only adds a file where there was none.
LEMMA HandEffect ==
    ASSUME TypeInv, NEW fo \in Folders, NEW n \in Numbers, HandAdds(fo, n)
    PROVE  /\ files' \in [Drives -> [Folders -> [Numbers -> Contents]]]
           /\ \A dd \in Drives, ff \in Folders, nn \in Numbers :
                 files'[dd][ff][nn] \in {files[dd][ff][nn], ByHand}
           /\ \A dd \in Drives, ff \in Folders, nn \in Numbers :
                 files[dd][ff][nn] # Nothing => files'[dd][ff][nn] = files[dd][ff][nn]
<1>1. drive \in Drives /\ files[drive][fo][n] = Nothing
      /\ files' = [files EXCEPT ![drive][fo][n] = ByHand]
  BY DEF HandAdds, TypeInv, TypeOK
<1>2. files \in [Drives -> [Folders -> [Numbers -> Contents]]]
  BY DEF TypeInv, TypeOK
<1>3. ByHand \in Contents
  BY DEF Contents
<1> QED BY <1>1, <1>2, <1>3

\* What other people and the process do.
LEMMA TypeInvOtherSteps ==
    ASSUME TypeInv,
           \/ \E s \in Sites : Request(s)
           \/ \E f \in Files : FlowActs(f)
           \/ \E fo \in Folders, n \in Numbers : HandAdds(fo, n)
           \/ \E d \in Drives : SwitchTarget(d)
           \/ Crash
    PROVE  TypeInv'
<1> USE DEF TypeInv
<1>1. ASSUME NEW s \in Sites, Request(s)
      PROVE  TypeInv'
  <2>1. waiting' \in Seq(Sites) /\ waiting' # << >>
    <3>1. waiting \in Seq(Sites) /\ waiting' = Append(waiting, s)
      BY <1>1 DEF Request, TypeOK
    <3> QED BY <3>1, AppendProperties
  <2>2. tries' \in [Sites -> Nat]
    BY <1>1 DEF Request, TypeOK
  <2> QED BY <1>1, <2>1, <2>2 DEF Request, library, TypeOK, JobHasSite
<1>2. ASSUME NEW f \in Files, FlowActs(f)
      PROVE  TypeInv'
  <2>1. spent' \in [EventKinds -> Nat]
    BY <1>2, SpendType DEF FlowActs, EventKinds
  <2>2. files' \in [Drives -> [Folders -> [Numbers -> Contents]]]
    BY <1>2, FlowEffect
  <2>3. UNCHANGED <<drive, sidecar, waiting, job, filed, tries, torn>>
    BY <1>2 DEF FlowActs
  <2> QED BY <2>1, <2>2, <2>3 DEF TypeOK, JobHasSite
<1>3. ASSUME NEW fo \in Folders, NEW n \in Numbers, HandAdds(fo, n)
      PROVE  TypeInv'
  <2>1. spent' \in [EventKinds -> Nat]
    BY <1>3, SpendType DEF HandAdds, EventKinds
  <2>2. files' \in [Drives -> [Folders -> [Numbers -> Contents]]]
    BY <1>3, HandEffect
  <2>3. UNCHANGED <<drive, sidecar, waiting, job, filed, tries, torn>>
    BY <1>3 DEF HandAdds
  <2> QED BY <2>1, <2>2, <2>3 DEF TypeOK, JobHasSite
<1>4. ASSUME NEW d \in Drives, SwitchTarget(d)
      PROVE  TypeInv'
  <2>1. spent' \in [EventKinds -> Nat]
    BY <1>4, SpendType DEF SwitchTarget, EventKinds
  <2>2. torn' \in BOOLEAN
    BY <1>4 DEF SwitchTarget
  <2> QED BY <1>4, <2>1, <2>2 DEF SwitchTarget, library, TypeOK, JobHasSite
<1>5. CASE Crash
  <2>1. spent' \in [EventKinds -> Nat]
    BY <1>5, SpendType DEF Crash, EventKinds
  <2>2. waiting' \in Seq(Sites) /\ job' \in Job /\ JobHasSite'
    BY <1>5, IdleJobType DEF Crash, IdleJob, JobHasSite
  <2> QED BY <1>5, <2>1, <2>2 DEF Crash, library, TypeOK
<1> QED BY <1>1, <1>2, <1>3, <1>4, <1>5

LEMMA TypeInvStep == TypeInv /\ [Next]_vars => TypeInv'
<1> SUFFICES ASSUME TypeInv, [Next]_vars PROVE TypeInv'
  OBVIOUS
<1>1. CASE UNCHANGED vars
  BY <1>1 DEF vars, TypeInv, TypeOK, JobHasSite
<1> QED
  BY <1>1, TypeInvFolderSteps, TypeInvUploadSteps, TypeInvReturnSteps, TypeInvOtherSteps
     DEF Next, SyncStep

\* Every variable stays in its type, whatever the constants: a suffix never
\* goes beyond MaxSuffix, and a holder of the lock is always in its chain.
THEOREM TypeCorrect == Spec => []TypeOK
<1>1. Spec => []TypeInv
  BY TypeInvInit, TypeInvStep, PTL DEF Spec
<1>2. TypeInv => TypeOK
  BY DEF TypeInv
<1> QED BY <1>1, <1>2, PTL

----------------------------------------------------------------------------
(* Folders are not mixed *)

\* While no target changes under a sync, the upload it picked fits the drive.
KindIsFixed == ~torn /\ job.phase # "idle" => job.live = Live(drive)

\* A sync uploads to SharePoint only under a sidecar of its own.
MarkedFirst ==
    HasSidecar /\ ~torn /\ job.live /\ job.phase \in {"counting", "uploading"} =>
        sidecar[drive][job.folder] = job.site

\* A file on a SharePoint drive belongs to the submission the sidecar names.
FilesAreMarked ==
    HasSidecar /\ ~torn =>
        \A d \in Drives, fo \in Folders, n \in Numbers, s \in Sites, f \in Files :
            Live(d) /\ files[d][fo][n] = <<s, f>> => sidecar[d][fo] = s

MarkInv == KindIsFixed /\ MarkedFirst /\ FilesAreMarked

LEMMA MarkInvInit == Init => MarkInv
<1> SUFFICES ASSUME Init PROVE MarkInv
  OBVIOUS
<1>1. KindIsFixed /\ MarkedFirst
  BY DEF Init, IdleJob, KindIsFixed, MarkedFirst
<1>2. ASSUME NEW d \in Drives, NEW fo \in Folders, NEW n \in Numbers,
             NEW s \in Sites, NEW f \in Files
      PROVE  files[d][fo][n] # <<s, f>>
  <2>1. files[d][fo][n] = Nothing
    BY DEF Init
  <2>2. s # 0
    BY ConstantsAssumption DEF Sites
  <2> QED BY <2>1, <2>2 DEF Nothing
<1> QED BY <1>1, <1>2 DEF MarkInv, FilesAreMarked

LEMMA MarkInvChoose ==
    ASSUME TypeInv, MarkInv, ChooseFolder \/ ChooseBlind
    PROVE  MarkInv'
<1>1. PICK names : job' = Chosen(Chooser, names)
  BY DEF ChooseFolder, ChooseBlind
<1>2. waiting # << >> /\ job.phase \in {"idle", "choosing"}
      /\ UNCHANGED <<drive, files, sidecar, torn>>
  BY DEF ChooseFolder, ChooseBlind, Choosing, library
<1>3. Chooser \in Job /\ Chooser.phase = "choosing"
  BY <1>2, ChooserType
<1>4. job'.phase \in {"choosing", "preparing"} /\ job'.live = Chooser.live
  BY <1>1, <1>3, ChosenType
<1>5. KindIsFixed'
  BY <1>2, <1>4, ChooserType DEF MarkInv, KindIsFixed
<1> QED BY <1>2, <1>4, <1>5 DEF MarkInv, MarkedFirst, FilesAreMarked

\* A job that ends, or is not there, takes no promise with it.
LEMMA MarkInvIdle ==
    ASSUME MarkInv, job' = IdleJob, UNCHANGED <<files, sidecar, torn>>
    PROVE  MarkInv'
BY DEF MarkInv, KindIsFixed, MarkedFirst, FilesAreMarked, IdleJob

\* A sidecar is written only where there is none, so no file is there yet.
LEMMA MarkInvMark ==
    ASSUME TypeInv, MarkInv, HasSidecar, job.phase = "preparing",
           ~SidecarClashes, Mark, UNCHANGED <<drive, files, torn>>
    PROVE  FilesAreMarked'
<1>1. job.site \in Sites
  BY DEF TypeInv, JobHasSite
<1> SUFFICES ASSUME ~torn,
                    NEW d \in Drives, NEW fo \in Folders, NEW n \in Numbers,
                    NEW s \in Sites, NEW f \in Files,
                    Live(d), files[d][fo][n] = <<s, f>>
             PROVE  sidecar'[d][fo] = s
  BY DEF FilesAreMarked
<1>2. sidecar[d][fo] = s /\ s # NoSite
  BY ConstantsAssumption DEF MarkInv, FilesAreMarked, Sites, NoSite
<1>3. ~(d = drive /\ fo = job.folder)
  BY <1>2 DEF SidecarClashes
<1> QED BY <1>1, <1>2, <1>3, MarkType DEF TypeInv

LEMMA MarkInvPrepare ==
    ASSUME TypeInv, MarkInv, PrepareFolder \/ PrepareFails \/ PrepareReplyLost
    PROVE  MarkInv'
<1>1. CASE PrepareFails
  BY <1>1, MarkInvIdle DEF PrepareFails, Abort, library
<1>2. CASE PrepareFolder /\ Abort /\ UNCHANGED sidecar
  BY <1>2, MarkInvIdle DEF PrepareFolder, Abort
<1>3. CASE PrepareReplyLost
  <2>1. FilesAreMarked'
    BY <1>3, MarkInvMark DEF PrepareReplyLost
  <2> QED BY <1>3, <2>1 DEF PrepareReplyLost, Abort, IdleJob, MarkInv, KindIsFixed, MarkedFirst
<1>4. CASE /\ PrepareFolder
           /\ HasSidecar => ~SidecarClashes
           /\ IF HasSidecar THEN Mark ELSE UNCHANGED sidecar
           /\ job' = [job EXCEPT !.phase = "counting"]
  <2>1. job.phase = "preparing" /\ UNCHANGED <<drive, files, torn>>
    BY <1>4 DEF PrepareFolder
  <2>2. /\ job'.live = job.live /\ job'.folder = job.folder /\ job'.site = job.site
        /\ job'.phase = "counting"
    BY <1>4 DEF TypeInv, TypeOK, Job
  <2>3. KindIsFixed'
    BY <2>1, <2>2 DEF MarkInv, KindIsFixed
  <2>4. FilesAreMarked'
    BY <1>4, <2>1, MarkInvMark DEF FilesAreMarked
  <2>5. MarkedFirst'
    <3>1. job.site \in Sites /\ drive \in Drives /\ job.folder \in Folders
      BY <2>1 DEF TypeInv, TypeOK, JobHasSite, Job
    <3>2. HasSidecar => sidecar'[drive][job.folder] = job.site
      BY <1>4, <3>1, MarkType DEF TypeInv
    <3> QED BY <2>1, <2>2, <3>2 DEF MarkedFirst
  <2> QED BY <2>3, <2>4, <2>5 DEF MarkInv
<1> QED BY <1>1, <1>2, <1>3, <1>4 DEF PrepareFolder

LEMMA MarkInvCount ==
    ASSUME TypeInv, MarkInv, CountNames \/ CountBlind
    PROVE  MarkInv'
<1>1. PICK n \in Numbers \cup {0} : job' = [job EXCEPT !.phase = "uploading", !.last = n]
  BY DEF CountNames, CountBlind, Count
<1>2. job.phase = "counting" /\ UNCHANGED <<drive, files, sidecar, torn>>
  BY DEF CountNames, CountBlind, Count, library
<1>3. /\ job'.live = job.live /\ job'.folder = job.folder /\ job'.site = job.site
      /\ job'.phase = "uploading"
  BY <1>1 DEF TypeInv, TypeOK, Job
<1> QED BY <1>2, <1>3 DEF MarkInv, KindIsFixed, MarkedFirst, FilesAreMarked

LEMMA MarkInvUpload ==
    ASSUME TypeInv, MarkInv, NEW f \in Files,
           UploadLands(f) \/ UploadRefused(f) \/ UploadFails(f) \/ UploadReplyLost(f)
    PROVE  MarkInv'
<1>1. NextFile(f)
  BY DEF UploadLands, UploadRefused, UploadFails, UploadReplyLost
<1>2. PICK got \in Numbers \cup {NoNumber} : Tried(f, got)
  BY DEF UploadLands, UploadRefused, UploadFails, UploadReplyLost, Store
<1>3. /\ job'.live = job.live /\ job'.folder = job.folder /\ job'.site = job.site
      /\ job'.phase = job.phase /\ job.phase = "uploading"
  BY <1>1, <1>2, TriedType DEF NextFile
<1>4. UNCHANGED <<drive, sidecar, torn>>
  BY <1>2 DEF Tried
<1>5. KindIsFixed' /\ MarkedFirst'
  BY <1>3, <1>4 DEF MarkInv, KindIsFixed, MarkedFirst
<1>6. CASE UNCHANGED files
  BY <1>4, <1>5, <1>6 DEF MarkInv, FilesAreMarked
<1>7. CASE Store(f)
  <2> SUFFICES ASSUME HasSidecar, ~torn,
                      NEW d \in Drives, NEW fo \in Folders, NEW n \in Numbers,
                      NEW s \in Sites, NEW g \in Files,
                      Live(d), files'[d][fo][n] = <<s, g>>
               PROVE  sidecar[d][fo] = s
    BY <1>4, <1>5 DEF MarkInv, FilesAreMarked
  <2>1. CASE files[d][fo][n] = <<s, g>>
    BY <2>1 DEF MarkInv, FilesAreMarked
  <2>2. CASE d = Target /\ fo = job.folder /\ <<s, g>> = <<job.site, f>>
    <3>1. job.live /\ d = drive /\ s = job.site
      BY <2>2 DEF Target, Live
    <3> QED BY <1>3, <2>2, <3>1 DEF MarkInv, MarkedFirst
  <2> QED BY ZenonT(40), <1>1, <1>7, <2>1, <2>2, StoreEffect
<1> QED BY <1>6, <1>7 DEF UploadLands, UploadRefused, UploadFails, UploadReplyLost

LEMMA MarkInvOther ==
    ASSUME TypeInv, MarkInv,
           \/ \E s \in Sites : Request(s)
           \/ Confirm \/ ConfirmBlind
           \/ \E f \in Files : FlowActs(f)
           \/ \E fo \in Folders, n \in Numbers : HandAdds(fo, n)
           \/ \E d \in Drives : SwitchTarget(d)
           \/ Crash
    PROVE  MarkInv'
<1>1. ASSUME NEW s \in Sites, Request(s)
      PROVE  MarkInv'
  <2>1. UNCHANGED <<drive, files, sidecar, job, torn>>
    BY <1>1 DEF Request, library
  <2> QED BY <2>1 DEF MarkInv, KindIsFixed, MarkedFirst, FilesAreMarked
<1>2. CASE Confirm \/ ConfirmBlind \/ Crash
  BY <1>2, MarkInvIdle DEF Confirm, ConfirmBlind, Crash, Return, library
<1>3. ASSUME NEW f \in Files, FlowActs(f)
      PROVE  MarkInv'
  <2>1. UNCHANGED <<drive, sidecar, job, torn>>
    BY <1>3 DEF FlowActs
  <2>2. KindIsFixed' /\ MarkedFirst'
    BY <2>1 DEF MarkInv, KindIsFixed, MarkedFirst
  <2>3. f \in Landed
    BY <1>3 DEF FlowActs
  <2>4. job.folder \in Folders /\ job.landed[f] \in Numbers
    BY <2>3 DEF TypeInv, TypeOK, Job, Landed
  <2>5. PICK d \in Drives :
           /\ Live(d)
           /\ files[d][job.folder][job.landed[f]] = <<job.site, f>>
           /\ \A dd \in Drives, fo \in Folders, n \in Numbers :
                 files'[dd][fo][n] # files[dd][fo][n] =>
                    /\ dd = d /\ fo = job.folder
                    /\ OfTheUpload(files[dd][fo][n])
                    /\ files'[dd][fo][n] \in {Nothing, <<job.site, f>>}
    BY <1>3, FlowEffect
  <2> SUFFICES ASSUME HasSidecar, ~torn,
                      NEW dd \in Drives, NEW fo \in Folders, NEW n \in Numbers,
                      NEW s \in Sites, NEW g \in Files,
                      Live(dd), files'[dd][fo][n] = <<s, g>>
               PROVE  sidecar[dd][fo] = s
    BY <2>1, <2>2 DEF MarkInv, FilesAreMarked
  <2>6. <<s, g>> # Nothing
    BY ConstantsAssumption DEF Sites, Nothing
  <2>7. CASE files[dd][fo][n] = <<s, g>>
    BY <2>7 DEF MarkInv, FilesAreMarked
  <2>8. CASE dd = d /\ fo = job.folder /\ <<s, g>> = <<job.site, f>>
    <3>1. files[dd][fo][job.landed[f]] = <<s, f>>
      BY <2>5, <2>8
    <3> QED BY <2>4, <3>1 DEF MarkInv, FilesAreMarked
  <2> QED BY <2>5, <2>6, <2>7, <2>8
<1>4. ASSUME NEW fo \in Folders, NEW n \in Numbers, HandAdds(fo, n)
      PROVE  MarkInv'
  <2>1. UNCHANGED <<drive, sidecar, job, torn>>
    BY <1>4 DEF HandAdds
  <2>2. KindIsFixed' /\ MarkedFirst'
    BY <2>1 DEF MarkInv, KindIsFixed, MarkedFirst
  <2>3. \A dd \in Drives, ff \in Folders, nn \in Numbers :
           files'[dd][ff][nn] \in {files[dd][ff][nn], ByHand}
    BY <1>4, HandEffect
  <2>4. \A s \in Sites, f \in Files : <<s, f>> # ByHand
    BY ConstantsAssumption DEF Sites, ByHand
  <2> SUFFICES ASSUME HasSidecar, ~torn,
                      NEW dd \in Drives, NEW ff \in Folders, NEW nn \in Numbers,
                      NEW s \in Sites, NEW g \in Files,
                      Live(dd), files'[dd][ff][nn] = <<s, g>>
               PROVE  sidecar[dd][ff] = s
    BY <2>1, <2>2 DEF MarkInv, FilesAreMarked
  <2>5. files[dd][ff][nn] = <<s, g>>
    BY <2>3, <2>4
  <2> QED BY <2>5 DEF MarkInv, FilesAreMarked
<1>5. ASSUME NEW d \in Drives, SwitchTarget(d)
      PROVE  MarkInv'
  BY <1>5 DEF SwitchTarget, library, MarkInv, KindIsFixed, MarkedFirst, FilesAreMarked
<1> QED BY <1>1, <1>2, <1>3, <1>4, <1>5

LEMMA MarkInvStep == TypeInv /\ MarkInv /\ [Next]_vars => MarkInv'
<1> SUFFICES ASSUME TypeInv, MarkInv, [Next]_vars PROVE MarkInv'
  OBVIOUS
<1>1. CASE UNCHANGED vars
  BY <1>1 DEF vars, MarkInv, KindIsFixed, MarkedFirst, FilesAreMarked
<1> QED
  BY <1>1, MarkInvChoose, MarkInvPrepare, MarkInvCount, MarkInvUpload, MarkInvOther
     DEF Next, SyncStep

LEMMA Marked == Spec => [](TypeInv /\ MarkInv)
<1>1. Init => TypeInv /\ MarkInv
  BY TypeInvInit, MarkInvInit
<1>2. (TypeInv /\ MarkInv) /\ [Next]_vars => (TypeInv /\ MarkInv)'
  BY TypeInvStep, MarkInvStep
<1> QED BY <1>1, <1>2, PTL DEF Spec

\* However many submissions share a planned folder and however few suffixes
\* there are: under a rule with a sidecar no two of them ever have files in one
\* folder of a SharePoint drive, failing listings and lost answers included.
THEOREM FoldersStayApart == Spec => []FoldersAreNotMixed
<1>1. MarkInv => FoldersAreNotMixed
  <2> SUFFICES ASSUME MarkInv, HasSidecar, ~torn,
                      NEW d \in Drives, NEW fo \in Folders, Live(d),
                      NEW s \in Owners(d, fo), NEW t \in Owners(d, fo)
               PROVE  s = t
    BY DEF FoldersAreNotMixed
  <2>1. \A r \in Owners(d, fo) : sidecar[d][fo] = r
    BY DEF Owners, MarkInv, FilesAreMarked
  <2> QED BY <2>1
<1> QED BY <1>1, Marked, PTL

----------------------------------------------------------------------------
(* Nothing is overwritten *)

\* On the local disk the names past the last number used are free.
Numbered ==
    Undisturbed /\ job.phase = "uploading" /\ ~job.live =>
        \A n \in Numbers : n > job.last => files[TestRoot][job.folder][n] = Nothing

LEMMA NumberedInit == Init => Numbered
BY DEF Init, IdleJob, Numbered

\* Events are not forgotten.
LEMMA SpentGrows ==
    ASSUME TypeInv, [Next]_vars
    PROVE  /\ \A e \in EventKinds : spent'[e] >= spent[e]
           /\ Undisturbed' => Undisturbed
<1>1. (UNCHANGED spent \/ \E e \in EventKinds : Spend(e)) /\ (torn => torn')
  <2>1. ASSUME UNCHANGED torn PROVE torn => torn'
    BY <2>1
  <2>2. CASE \/ \E s \in Sites : Request(s)
             \/ SyncStep
             \/ UNCHANGED vars
    <3>1. UNCHANGED spent /\ UNCHANGED torn
      BY <2>2 DEF Request, SyncStep, ChooseFolder, Choosing, PrepareFolder, CountNames, Count,
                  UploadLands, UploadRefused, Tried, Confirm, Return, vars
    <3> QED BY <2>1, <3>1
  <2>3. CASE \/ ChooseBlind \/ PrepareFails \/ PrepareReplyLost \/ CountBlind \/ ConfirmBlind
             \/ Crash
    <3>1. (\E e \in EventKinds : Spend(e)) /\ UNCHANGED torn
      BY <2>3 DEF ChooseBlind, Choosing, PrepareFails, PrepareReplyLost, CountBlind, Count,
                  ConfirmBlind, Return, Crash, EventKinds
    <3> QED BY <2>1, <3>1
  <2>4. ASSUME NEW f \in Files, UploadFails(f) \/ UploadReplyLost(f) \/ FlowActs(f)
        PROVE  (\E e \in EventKinds : Spend(e)) /\ UNCHANGED torn
    BY <2>4 DEF UploadFails, UploadReplyLost, Tried, FlowActs, EventKinds
  <2>5. ASSUME NEW fo \in Folders, NEW n \in Numbers, HandAdds(fo, n)
        PROVE  (\E e \in EventKinds : Spend(e)) /\ UNCHANGED torn
    BY <2>5 DEF HandAdds, EventKinds
  <2>6. ASSUME NEW d \in Drives, SwitchTarget(d)
        PROVE  (\E e \in EventKinds : Spend(e)) /\ (torn => torn')
    BY <2>6 DEF SwitchTarget, EventKinds
  <2> QED BY <2>1, <2>2, <2>3, <2>4, <2>5, <2>6 DEF Next
<1>2. spent \in [EventKinds -> Nat]
  BY DEF TypeInv, TypeOK
<1>3. \A e \in EventKinds : spent'[e] >= spent[e]
  <2>1. CASE UNCHANGED spent
    BY <1>2, <2>1
  <2>2. CASE \E e \in EventKinds : Spend(e)
    BY <2>2, SpendType DEF TypeInv
  <2> QED BY <1>1, <2>1, <2>2 DEF EventKinds
<1>4. Undisturbed' => Undisturbed
  BY <1>1, <1>2, <1>3 DEF Undisturbed, EventKinds
<1> QED BY <1>3, <1>4

\* Files change where one is uploaded, by a flow, or by hand.
LEMMA WhoChangesFiles ==
    ASSUME [Next]_vars
    PROVE  \/ UNCHANGED files
           \/ \E f \in Files : UploadLands(f) \/ UploadReplyLost(f)
           \/ \E f \in Files : FlowActs(f)
           \/ \E fo \in Folders, n \in Numbers : HandAdds(fo, n)
<1>1. CASE \/ \E s \in Sites : Request(s)
           \/ UNCHANGED vars
           \/ ChooseFolder \/ ChooseBlind
           \/ PrepareFolder \/ PrepareFails \/ PrepareReplyLost
  BY <1>1 DEF Request, ChooseFolder, ChooseBlind, Choosing, PrepareFolder, PrepareFails,
              PrepareReplyLost, library, vars
<1>2. CASE \/ CountNames \/ CountBlind \/ Confirm \/ ConfirmBlind \/ Crash
           \/ \E d \in Drives : SwitchTarget(d)
           \/ \E f \in Files : UploadRefused(f) \/ UploadFails(f)
  BY <1>2 DEF CountNames, CountBlind, Count, Confirm, ConfirmBlind, Return, Crash,
              SwitchTarget, UploadRefused, UploadFails, library
<1> QED BY <1>1, <1>2 DEF Next, SyncStep

\* An upload picked for Graph is refused a name in use; one picked for the
\* local disk goes where the numbering has found the name free.
LEMMA StoreIsSafe ==
    ASSUME TypeInv, Numbered, NEW f \in Files, NextFile(f), Store(f)
    PROVE  \/ files[Target][job.folder][Number] = Nothing
           \/ Target = TestRoot /\ ~Undisturbed
<1>1. Number \in Numbers /\ Number > job.last
  BY DEF Store, Number, TypeInv, TypeOK, Job
<1> QED BY <1>1 DEF NextFile, Store, NameIsFree, Target, Numbered

LEMMA NumberedStep ==
    ASSUME TypeInv, MarkInv, Numbered, [Next]_vars
    PROVE  Numbered'
<1> SUFFICES ASSUME Undisturbed', job'.phase = "uploading", ~job'.live,
                    NEW n \in Numbers, n > job'.last
             PROVE  files'[TestRoot][job'.folder][n] = Nothing
  BY DEF Numbered
<1>1. Undisturbed
  BY SpentGrows
<1>2. ASSUME UNCHANGED job, UNCHANGED files
      PROVE  files'[TestRoot][job'.folder][n] = Nothing
  BY <1>1, <1>2 DEF Numbered
<1>3. CASE CountNames
  <2>1. PICK m \in Numbers \cup {0} :
           /\ Highest(m, Listing(job.folder))
           /\ job' = [job EXCEPT !.phase = "uploading", !.last = m]
    BY <1>3 DEF CountNames, Count
  <2>2. job'.folder = job.folder /\ job'.live = job.live /\ job'.last = m
    BY <2>1 DEF TypeInv, TypeOK, Job
  <2>3. drive = TestRoot
    BY <1>1, <1>3, <2>2 DEF CountNames, Count, MarkInv, KindIsFixed, Live, Undisturbed
  <2>4. n \notin Listing(job.folder)
    BY <2>1, <2>2, ConstantsAssumption DEF Highest, Numbers
  <2>5. UNCHANGED files
    BY <1>3 DEF CountNames, Count, library
  <2> QED BY <2>2, <2>3, <2>4, <2>5 DEF Listing
<1>4. CASE CountBlind
  <2>1. spent'["listing"] > spent["listing"]
    BY <1>4, SpendType DEF CountBlind, EventKinds, TypeInv
  <2> QED BY <1>1, <2>1 DEF Undisturbed
<1>5. ASSUME NEW f \in Files,
             UploadLands(f) \/ UploadRefused(f) \/ UploadFails(f) \/ UploadReplyLost(f)
      PROVE  files'[TestRoot][job'.folder][n] = Nothing
  <2>1. NextFile(f)
    BY <1>5 DEF UploadLands, UploadRefused, UploadFails, UploadReplyLost
  <2>2. PICK got \in Numbers \cup {NoNumber} : Tried(f, got)
    BY <1>5 DEF UploadLands, UploadRefused, UploadFails, UploadReplyLost, Store
  <2>3. job'.live = job.live /\ job'.folder = job.folder /\ job'.last = Number
    BY <2>1, <2>2, TriedType
  <2>4. Number > job.last /\ job.last \in Nat /\ n \in Nat
    BY ConstantsAssumption DEF Number, TypeInv, TypeOK, Job, Numbers
  <2>5. files[TestRoot][job.folder][n] = Nothing
    BY <1>1, <2>1, <2>3, <2>4 DEF Numbered, NextFile, Number
  <2>6. job.folder \in Folders
    BY DEF TypeInv, TypeOK, Job
  <2>7. UNCHANGED files \/ Store(f)
    BY <1>5 DEF UploadLands, UploadRefused, UploadFails, UploadReplyLost
  <2>8. n # Number
    BY <2>3, <2>4 DEF Number
  <2>9. CASE Store(f)
    <3>1. files'[TestRoot][job.folder][n] = files[TestRoot][job.folder][n]
      BY <2>1, <2>6, <2>8, <2>9, StoreEffect, ConstantsAssumption
    <3> QED BY <2>3, <2>5, <3>1
  <2> QED BY <2>3, <2>5, <2>7, <2>9
<1>6. ASSUME NEW f \in Files, FlowActs(f)
      PROVE  files'[TestRoot][job'.folder][n] = Nothing
  <2>1. UNCHANGED job
    BY <1>6 DEF FlowActs
  <2>2. job.folder \in Folders /\ files[TestRoot][job.folder][n] = Nothing
    BY <1>1, <2>1 DEF Numbered, TypeInv, TypeOK, Job
  <2>3. PICK d \in Drives :
           /\ Live(d)
           /\ \A dd \in Drives, fo \in Folders, k \in Numbers :
                 files'[dd][fo][k] # files[dd][fo][k] => dd = d
    BY <1>6, FlowEffect
  <2>4. d # TestRoot
    BY <2>3 DEF Live
  <2> QED BY <2>1, <2>2, <2>3, <2>4, ConstantsAssumption
<1>7. ASSUME NEW fo \in Folders, NEW k \in Numbers, HandAdds(fo, k)
      PROVE  FALSE
  <2>1. spent'["hand"] > spent["hand"]
    BY <1>7, SpendType DEF HandAdds, EventKinds, TypeInv
  <2> QED BY <1>1, <2>1 DEF Undisturbed
<1>8. CASE \/ \E s \in Sites : Request(s)
           \/ \E d \in Drives : SwitchTarget(d)
           \/ UNCHANGED vars
  BY <1>2, <1>8 DEF Request, SwitchTarget, library, vars
<1>9. CASE Confirm \/ ConfirmBlind \/ Crash \/ PrepareFails \/ PrepareReplyLost
  BY <1>9 DEF Confirm, ConfirmBlind, Return, Crash, PrepareFails, PrepareReplyLost, Abort, IdleJob
<1>10. CASE PrepareFolder
  BY <1>10 DEF PrepareFolder, Abort, IdleJob, TypeInv, TypeOK, Job
<1>11. CASE ChooseFolder \/ ChooseBlind
  <2>1. PICK names : job' = Chosen(Chooser, names)
    BY <1>11 DEF ChooseFolder, ChooseBlind
  <2>2. Chooser \in Job /\ Chooser.phase = "choosing"
    BY <1>11, ChooserType DEF ChooseFolder, ChooseBlind, Choosing
  <2> QED BY <2>1, <2>2, ChosenType
<1> QED BY <1>3, <1>4, <1>5, <1>6, <1>7, <1>8, <1>9, <1>10, <1>11 DEF Next, SyncStep

LEMMA NumberedAlways == Spec => [](TypeInv /\ MarkInv /\ Numbered)
<1>1. Init => TypeInv /\ MarkInv /\ Numbered
  BY TypeInvInit, MarkInvInit, NumberedInit
<1>2. (TypeInv /\ MarkInv /\ Numbered) /\ [Next]_vars => (TypeInv /\ MarkInv /\ Numbered)'
  BY TypeInvStep, MarkInvStep, NumberedStep
<1> QED BY <1>1, <1>2, PTL DEF Spec

\* What a step may do to a file that is there.
LEMMA Overwrites ==
    ASSUME TypeInv, Numbered, [Next]_vars,
           NEW d \in Drives, NEW fo \in Folders, NEW n \in Numbers,
           files[d][fo][n] # Nothing, files'[d][fo][n] # files[d][fo][n]
    PROVE  \/ \E f \in Files : FlowActs(f)
           \/ d = TestRoot /\ ~Undisturbed
<1>1. ASSUME NEW f \in Files, UploadLands(f) \/ UploadReplyLost(f)
      PROVE  d = TestRoot /\ ~Undisturbed
  <2>1. NextFile(f) /\ Store(f)
    BY <1>1 DEF UploadLands, UploadReplyLost
  <2>2. d = Target /\ fo = job.folder /\ n = Number
    BY <2>1, StoreEffect
  <2> QED BY <2>1, <2>2, StoreIsSafe
<1>2. ASSUME NEW ff \in Folders, NEW k \in Numbers, HandAdds(ff, k)
      PROVE  FALSE
  BY <1>2, HandEffect
<1> QED BY <1>1, <1>2, WhoChangesFiles

\* No sync ever replaces a file that has a name already: on SharePoint because
\* Graph is asked to fail, on the local disk because the lock and the numbering
\* leave only free names, whoever shares the folder.
THEOREM NamesAreFresh == Spec => NothingIsOverwritten
<1> DEFINE Step ==
      \A d \in Drives, fo \in Folders, n \in Numbers :
          /\ files[d][fo][n] # Nothing
          /\ files'[d][fo][n] # files[d][fo][n]
          => \/ spent'["flow"] > spent["flow"]
             \/ ~Live(d) /\ ~Undisturbed
<1>1. TypeInv /\ Numbered /\ [Next]_vars => Step
  <2> SUFFICES ASSUME TypeInv, Numbered, [Next]_vars,
                      NEW d \in Drives, NEW fo \in Folders, NEW n \in Numbers,
                      files[d][fo][n] # Nothing,
                      files'[d][fo][n] # files[d][fo][n]
               PROVE  \/ spent'["flow"] > spent["flow"]
                      \/ ~Live(d) /\ ~Undisturbed
    OBVIOUS
  <2>1. CASE \E f \in Files : FlowActs(f)
    BY <2>1, SpendType DEF FlowActs, EventKinds, TypeInv
  <2>2. CASE d = TestRoot /\ ~Undisturbed
    BY <2>2 DEF Live
  <2> QED BY <2>1, <2>2, Overwrites
<1>2. Spec => [][Step]_vars
  <2> HIDE DEF Step
  <2> QED BY <1>1, NumberedAlways, PTL DEF Spec
<1>3. NothingIsOverwritten <=> [][Step]_vars
  BY DEF NothingIsOverwritten
<1> QED BY <1>2, <1>3

----------------------------------------------------------------------------
(* What is reported stored stays *)

\* A sync uploads only what is not recorded yet.
OpenFilesNotFiled ==
    job.phase # "idle" => \A f \in job.todo \cup Landed : filed[job.site][f] = NotFiled

LandedLast == job.phase # "uploading" => Landed = {}

\* The files this sync has uploaded are where it put them.
LandedIsThere ==
    spent["flow"] = 0 /\ (DiskUnused \/ Undisturbed) =>
        \A f \in Landed : \E d \in Drives : files[d][job.folder][job.landed[f]] = <<job.site, f>>

StayInv == OpenFilesNotFiled /\ LandedLast /\ LandedIsThere /\ FiledFilesStay

\* Under the guard of the invariants no upload and no person replaces a file.
LEMMA FilesStay ==
    ASSUME TypeInv, Numbered, [Next]_vars, (DiskUnused \/ Undisturbed)'
    PROVE  /\ DiskUnused \/ Undisturbed
           /\ \A d \in Drives, fo \in Folders, n \in Numbers :
                 files[d][fo][n] # Nothing =>
                    \/ files'[d][fo][n] = files[d][fo][n]
                    \/ \E f \in Files : FlowActs(f)
<1>1. CASE Undisturbed'
  BY <1>1, SpentGrows, Overwrites
<1>2. CASE DiskUnused'
  <2>1. DiskUnused
    <3> SUFFICES ASSUME NEW fo \in Folders, NEW n \in Numbers,
                        files[TestRoot][fo][n] # Nothing
                 PROVE  FALSE
      BY DEF DiskUnused
    <3>1. files'[TestRoot][fo][n] # files[TestRoot][fo][n]
      BY <1>2 DEF DiskUnused
    <3>2. ASSUME NEW f \in Files, FlowActs(f) PROVE FALSE
      <4>1. PICK d \in Drives :
               /\ Live(d)
               /\ \A dd \in Drives, ff \in Folders, k \in Numbers :
                     files'[dd][ff][k] # files[dd][ff][k] => dd = d
        BY <3>2, FlowEffect
      <4> QED BY <3>1, <4>1, ConstantsAssumption DEF Live
    <3>3. \A ff \in Folders, k \in Numbers : ~HandAdds(ff, k)
      BY <3>1, HandEffect, ConstantsAssumption
    <3>4. PICK f \in Files : UploadLands(f) \/ UploadReplyLost(f)
      BY <3>1, <3>2, <3>3, WhoChangesFiles
    <3>5. NextFile(f) /\ Store(f)
      BY <3>4 DEF UploadLands, UploadReplyLost
    <3>6. files'[TestRoot][fo][n] = <<job.site, f>> /\ job.site \in Sites
      <4>1. job.site \in Sites
        BY <3>5 DEF NextFile, TypeInv, JobHasSite
      <4> QED BY ZenonT(40), <3>1, <3>5, <4>1, StoreEffect, ConstantsAssumption
    <3>7. files'[TestRoot][fo][n] = Nothing
      BY <1>2 DEF DiskUnused
    <3> QED BY <3>6, <3>7, ConstantsAssumption DEF Nothing, Sites
  <2>2. ASSUME NEW d \in Drives, NEW fo \in Folders, NEW n \in Numbers,
               files[d][fo][n] # Nothing, files'[d][fo][n] # files[d][fo][n]
        PROVE  \E f \in Files : FlowActs(f)
    BY <2>1, <2>2, Overwrites DEF DiskUnused
  <2> QED BY <2>1, <2>2
<1> QED BY <1>1, <1>2

\* A flow touches only files of the upload under way.
LEMMA FlowSparesFiled ==
    ASSUME TypeInv, OpenFilesNotFiled, LandedLast, NEW f \in Files, FlowActs(f),
           NEW d \in Drives, NEW fo \in Folders, NEW n \in Numbers,
           NEW s \in Sites, NEW g \in Files,
           filed[s][g] # NotFiled, files[d][fo][n] = <<s, g>>
    PROVE  files'[d][fo][n] = <<s, g>>
<1>1. job.phase # "idle"
  BY DEF FlowActs, LandedLast
<1>2. \A h \in Landed : <<s, g>> # <<job.site, h>>
  BY <1>1 DEF OpenFilesNotFiled
<1>3. <<s, g>> # Nothing
  BY ConstantsAssumption DEF Nothing, Sites
<1>4. files'[d][fo][n] # files[d][fo][n] => OfTheUpload(files[d][fo][n])
  BY FlowEffect
<1> QED BY <1>2, <1>3, <1>4 DEF OfTheUpload

\* Files that are recorded stay, for as long as the record does not change.
LEMMA FiledStay ==
    ASSUME TypeInv, Numbered, OpenFilesNotFiled, LandedLast, FiledFilesStay,
           [Next]_vars, Verified', (DiskUnused \/ Undisturbed)',
           NEW s \in Sites, NEW f \in Files,
           filed[s][f] # NotFiled, filed'[s][f] = filed[s][f]
    PROVE  \E d \in Drives : files'[d][filed'[s][f][1]][filed'[s][f][2]] = <<s, f>>
<1>1. Verified
  <2>1. \A e \in EventKinds : spent'[e] >= spent[e]
    BY SpentGrows
  <2> QED BY <2>1 DEF Verified, EventKinds, TypeInv, TypeOK
<1>2. DiskUnused \/ Undisturbed
  BY FilesStay
<1> DEFINE fo == filed[s][f][1]
           n == filed[s][f][2]
<1>3. PICK d \in Drives : files[d][fo][n] = <<s, f>>
  BY <1>1, <1>2 DEF FiledFilesStay
<1>4. fo \in Folders /\ n \in Numbers
  BY DEF TypeInv, TypeOK
<1>5. files[d][fo][n] # Nothing
  <2>1. s # 0
    BY ConstantsAssumption DEF Sites
  <2>2. <<s, f>> # Nothing
    BY <2>1 DEF Nothing
  <2> HIDE DEF fo, n
  <2> QED BY <1>3, <2>2
<1>6. files'[d][fo][n] = <<s, f>>
  <2> HIDE DEF fo, n
  <2>1. CASE files'[d][fo][n] = files[d][fo][n]
    BY <1>3, <2>1
  <2>2. ASSUME NEW g \in Files, FlowActs(g)
        PROVE  files'[d][fo][n] = <<s, f>>
    BY <1>3, <1>4, <2>2, FlowSparesFiled
  <2> QED BY <1>4, <1>5, <2>1, <2>2, FilesStay
<1> QED BY <1>6

\* The record changes only when a sync returns.
LEMMA WhoFiles ==
    ASSUME [Next]_vars
    PROVE  UNCHANGED filed \/ Confirm \/ ConfirmBlind
<1>1. CASE \/ \E s \in Sites : Request(s)
           \/ UNCHANGED vars
           \/ ChooseFolder \/ ChooseBlind
           \/ PrepareFolder \/ PrepareFails \/ PrepareReplyLost
  BY <1>1 DEF Request, ChooseFolder, ChooseBlind, Choosing, PrepareFolder, PrepareFails,
              PrepareReplyLost, Abort, vars
<1>2. CASE \/ CountNames \/ CountBlind \/ Crash
           \/ \E d \in Drives : SwitchTarget(d)
           \/ \E f \in Files : UploadLands(f) \/ UploadRefused(f) \/ UploadFails(f)
  BY <1>2 DEF CountNames, CountBlind, Count, Crash, SwitchTarget, UploadLands, UploadRefused,
              UploadFails, Tried
<1>3. CASE \/ \E f \in Files : UploadReplyLost(f) \/ FlowActs(f)
           \/ \E fo \in Folders, n \in Numbers : HandAdds(fo, n)
  BY <1>3 DEF UploadReplyLost, Tried, FlowActs, HandAdds
<1> QED BY <1>1, <1>2, <1>3 DEF Next, SyncStep

\* What a sync reports stored, it has seen, or nothing can have moved it.
LEMMA FiledFilesStayStep ==
    ASSUME TypeInv, Numbered, StayInv, [Next]_vars
    PROVE  FiledFilesStay'
<1> USE DEF StayInv
<1> SUFFICES ASSUME Verified', (DiskUnused \/ Undisturbed)',
                    NEW s \in Sites, NEW f \in Files, filed'[s][f] # NotFiled
             PROVE  \E d \in Drives : files'[d][filed'[s][f][1]][filed'[s][f][2]] = <<s, f>>
  BY DEF FiledFilesStay
<1>1. CASE filed'[s][f] = filed[s][f]
  BY <1>1, FiledStay
<1>2. ASSUME NEW synced \in SUBSET Landed, Return(synced), filed'[s][f] # filed[s][f],
             f \in synced => \E d \in Drives : files[d][job.folder][job.landed[f]] = <<job.site, f>>
      PROVE  \E d \in Drives : files'[d][filed'[s][f][1]][filed'[s][f][2]] = <<s, f>>
  <2>1. s = job.site /\ f \in synced /\ filed'[s][f] = <<job.folder, job.landed[f]>>
    BY ZenonT(40), <1>2, ReturnEffect
  <2>2. UNCHANGED files
    BY <1>2 DEF Return, library
  <2>3. PICK d \in Drives : files[d][job.folder][job.landed[f]] = <<job.site, f>>
    BY <1>2, <2>1
  <2>4. /\ filed'[s][f][1] = job.folder /\ filed'[s][f][2] = job.landed[f]
        /\ files'[d][job.folder][job.landed[f]] = <<s, f>>
    BY <2>1, <2>2, <2>3
  <2> QED BY <2>4
<1>3. CASE Confirm /\ filed'[s][f] # filed[s][f]
  <2>1. PICK synced \in SUBSET Landed : synced = Seen /\ Return(synced)
    BY <1>3, SeenLanded DEF Confirm
  <2>2. f \in synced => \E d \in Drives : files[d][job.folder][job.landed[f]] = <<job.site, f>>
    BY <2>1 DEF Seen, TypeInv, TypeOK
  <2> QED BY <1>2, <1>3, <2>1, <2>2
<1>4. CASE ConfirmBlind /\ filed'[s][f] # filed[s][f]
  <2>1. PICK synced \in SUBSET Landed : synced = Landed /\ Return(synced)
    BY <1>4 DEF ConfirmBlind
  <2>2. spent["flow"] = 0
    <3>1. spent'["listing"] > spent["listing"]
      BY <1>4, SpendType DEF ConfirmBlind, EventKinds, TypeInv
    <3>2. spent'["flow"] >= spent["flow"] /\ spent \in [EventKinds -> Nat]
      BY SpentGrows DEF EventKinds, TypeInv, TypeOK
    <3> QED BY <3>1, <3>2 DEF Verified, EventKinds
  <2>3. DiskUnused \/ Undisturbed
    BY FilesStay
  <2>4. f \in synced => \E d \in Drives : files[d][job.folder][job.landed[f]] = <<job.site, f>>
    BY <2>1, <2>2, <2>3 DEF LandedIsThere
  <2> QED BY <1>2, <1>4, <2>1, <2>4
<1> QED BY <1>1, <1>3, <1>4, WhoFiles

\* What is said of the sync under way, while it tries no file.
LEMMA OtherStepsOfTheJob ==
    ASSUME TypeInv, OpenFilesNotFiled, LandedLast, [Next]_vars
    PROVE  \/ \E f \in Files : UploadLands(f) \/ UploadRefused(f) \/ UploadFails(f)
                               \/ UploadReplyLost(f)
           \/ /\ OpenFilesNotFiled' /\ LandedLast'
              /\ Landed' = {} \/ UNCHANGED job
<1>1. ASSUME job' = IdleJob
      PROVE  OpenFilesNotFiled' /\ LandedLast' /\ Landed' = {}
  BY <1>1 DEF OpenFilesNotFiled, LandedLast, Landed, IdleJob, NoneLanded
<1>2. ASSUME job'.phase # "uploading", UNCHANGED filed, job'.site = job.site,
             job'.todo = job.todo, job'.landed = job.landed, job.phase # "idle",
             job.phase # "uploading"
      PROVE  OpenFilesNotFiled' /\ LandedLast' /\ Landed' = {}
  BY <1>2 DEF OpenFilesNotFiled, LandedLast, Landed
<1>3. CASE ChooseFolder \/ ChooseBlind
  <2>1. PICK names : job' = Chosen(Chooser, names)
    BY <1>3 DEF ChooseFolder, ChooseBlind
  <2>2. waiting # << >> /\ job.phase \in {"idle", "choosing"} /\ UNCHANGED filed
    BY <1>3 DEF ChooseFolder, ChooseBlind, Choosing
  <2>3. Chooser \in Job /\ Chooser.phase = "choosing"
    BY <2>2, ChooserType
  <2>4. /\ job'.phase \in {"choosing", "preparing"} /\ job'.site = Chooser.site
        /\ job'.todo = Chooser.todo /\ job'.landed = Chooser.landed
    BY <2>1, <2>3, ChosenType
  <2>5. CASE job.phase = "choosing"
    BY <1>2, <2>2, <2>4, <2>5, ChooserType
  <2>6. CASE job.phase = "idle"
    <3>1. Chooser.todo = Owing(Chooser.site) /\ Chooser.landed = NoneLanded
      BY <2>2, <2>6, ChooserType
    <3>2. Landed' = {}
      BY <2>4, <3>1 DEF Landed, NoneLanded
    <3> QED BY <2>2, <2>4, <3>1, <3>2 DEF OpenFilesNotFiled, LandedLast, Owing
  <2> QED BY <2>2, <2>5, <2>6
<1>4. CASE PrepareFolder
  <2>1. job.phase = "preparing"
    BY <1>4 DEF PrepareFolder
  <2>2. CASE job' = IdleJob
    BY <1>1, <2>2
  <2>3. CASE job' = [job EXCEPT !.phase = "counting"] /\ UNCHANGED filed
    <3>1. /\ job'.phase = "counting" /\ job'.site = job.site
          /\ job'.todo = job.todo /\ job'.landed = job.landed
      BY <2>3 DEF TypeInv, TypeOK, Job
    <3> QED BY <1>2, <2>1, <2>3, <3>1
  <2> QED BY <1>4, <2>2, <2>3 DEF PrepareFolder, Abort
<1>5. CASE CountNames \/ CountBlind
  <2>1. job.phase = "counting" /\ UNCHANGED filed
    BY <1>5 DEF CountNames, CountBlind, Count
  <2>2. PICK n \in Numbers \cup {0} : job' = [job EXCEPT !.phase = "uploading", !.last = n]
    BY <1>5 DEF CountNames, CountBlind, Count
  <2>3. /\ job'.phase = "uploading" /\ job'.site = job.site
        /\ job'.todo = job.todo /\ job'.landed = job.landed
    BY <2>2 DEF TypeInv, TypeOK, Job
  <2> QED BY <2>1, <2>3 DEF OpenFilesNotFiled, LandedLast, Landed
<1>6. CASE Confirm \/ ConfirmBlind \/ Crash \/ PrepareFails \/ PrepareReplyLost
  BY <1>1, <1>6 DEF Confirm, ConfirmBlind, Return, Crash, PrepareFails, PrepareReplyLost, Abort
<1>7. ASSUME UNCHANGED <<job, filed>>
      PROVE  OpenFilesNotFiled' /\ LandedLast'
  BY <1>7 DEF OpenFilesNotFiled, LandedLast, Landed
<1>8. CASE \/ \E s \in Sites : Request(s)
           \/ \E f \in Files : FlowActs(f)
           \/ \E fo \in Folders, n \in Numbers : HandAdds(fo, n)
           \/ \E d \in Drives : SwitchTarget(d)
           \/ UNCHANGED vars
  BY <1>7, <1>8 DEF Request, FlowActs, HandAdds, SwitchTarget, vars
<1> QED BY <1>3, <1>4, <1>5, <1>6, <1>8 DEF Next, SyncStep

LEMMA UploadKeepsTheJob ==
    ASSUME TypeInv, Numbered, StayInv, [Next]_vars, NEW f \in Files,
           UploadLands(f) \/ UploadRefused(f) \/ UploadFails(f) \/ UploadReplyLost(f)
    PROVE  OpenFilesNotFiled' /\ LandedLast' /\ LandedIsThere'
<1> USE DEF StayInv
<1>1. NextFile(f) /\ f \in job.todo /\ job.phase = "uploading"
  BY DEF UploadLands, UploadRefused, UploadFails, UploadReplyLost, NextFile
<1>2. PICK got \in Numbers \cup {NoNumber} :
         /\ Tried(f, got)
         /\ got # NoNumber => Store(f) /\ got = Number
  BY DEF UploadLands, UploadRefused, UploadFails, UploadReplyLost, Store
<1>3. /\ job'.phase = "uploading" /\ job'.site = job.site /\ job'.folder = job.folder
      /\ job'.todo = job.todo \ {f}
      /\ \A g \in Files : job'.landed[g] = IF g = f THEN got ELSE job.landed[g]
  BY <1>1, <1>2, TriedType
<1>4. UNCHANGED filed
  BY <1>2 DEF Tried
<1>5. Landed' \subseteq Landed \cup {f}
  BY <1>3 DEF Landed
<1>6. OpenFilesNotFiled' /\ LandedLast'
  BY <1>1, <1>3, <1>4, <1>5 DEF OpenFilesNotFiled, LandedLast
<1>7. ASSUME spent'["flow"] = 0, (DiskUnused \/ Undisturbed)', NEW g \in Landed'
      PROVE  \E d \in Drives : files'[d][job'.folder][job'.landed[g]] = <<job'.site, g>>
  <2>1. spent["flow"] = 0
    BY <1>7, SpentGrows DEF EventKinds, TypeInv, TypeOK
  <2>2. DiskUnused \/ Undisturbed
    BY <1>7, FilesStay
  <2>3. job.site \in Sites /\ job.folder \in Folders /\ g \in Files
    BY <1>1 DEF TypeInv, TypeOK, JobHasSite, Job, Landed
  <2>4. CASE g = f
    <3>1. got # NoNumber /\ job'.landed[g] = got
      BY <1>3, <1>7, <2>4 DEF Landed
    <3>2. Store(f) /\ got = Number /\ got \in Numbers
      BY <1>2, <3>1
    <3>3. files'[Target][job.folder][got] = <<job.site, f>> /\ Target \in Drives
      BY <1>1, <2>3, <3>2, StoreEffect
    <3> QED BY <1>3, <2>4, <3>1, <3>3
  <2>5. CASE g # f
    <3>1. g \in Landed /\ job'.landed[g] = job.landed[g]
      BY <1>3, <2>3, <2>5, <1>7 DEF Landed
    <3>2. PICK d \in Drives : files[d][job.folder][job.landed[g]] = <<job.site, g>>
      BY <2>1, <2>2, <3>1 DEF LandedIsThere
    <3>3. job.landed[g] \in Numbers
      BY <3>1 DEF Landed, TypeInv, TypeOK, Job
    <3>4. files[d][job.folder][job.landed[g]] # Nothing
      BY <2>3, <3>2, ConstantsAssumption DEF Nothing, Sites
    <3>5. \A h \in Files : ~FlowActs(h)
      <4>1. SUFFICES ASSUME NEW h \in Files, FlowActs(h) PROVE FALSE
        OBVIOUS
      <4>2. spent'["flow"] > spent["flow"]
        BY <4>1, SpendType DEF FlowActs, EventKinds, TypeInv
      <4> QED BY <1>7, <2>1, <4>2
    <3>6. files'[d][job.folder][job.landed[g]] = files[d][job.folder][job.landed[g]]
      BY <1>7, <2>3, <3>3, <3>4, <3>5, FilesStay
    <3> QED BY <1>3, <3>1, <3>2, <3>6
  <2> QED BY <2>4, <2>5
<1> QED BY <1>6, <1>7 DEF LandedIsThere

LEMMA StayInvStep ==
    ASSUME TypeInv, Numbered, StayInv, [Next]_vars
    PROVE  StayInv'
<1>1. FiledFilesStay'
  BY FiledFilesStayStep
<1>2. ASSUME NEW f \in Files,
             UploadLands(f) \/ UploadRefused(f) \/ UploadFails(f) \/ UploadReplyLost(f)
      PROVE  StayInv'
  BY <1>1, <1>2, UploadKeepsTheJob DEF StayInv
<1>3. ASSUME UNCHANGED job
      PROVE  LandedIsThere'
  <2> SUFFICES ASSUME spent'["flow"] = 0, (DiskUnused \/ Undisturbed)', NEW g \in Landed
               PROVE  \E d \in Drives : files'[d][job.folder][job.landed[g]] = <<job.site, g>>
    BY <1>3 DEF LandedIsThere, Landed
  <2>1. spent["flow"] = 0
    BY SpentGrows DEF EventKinds, TypeInv, TypeOK
  <2>2. DiskUnused \/ Undisturbed
    BY FilesStay
  <2>3. /\ job.site \in Sites /\ job.folder \in Folders /\ g \in Files
        /\ job.landed[g] \in Numbers
    BY DEF StayInv, LandedLast, TypeInv, TypeOK, JobHasSite, Job, Landed
  <2>4. PICK d \in Drives : files[d][job.folder][job.landed[g]] = <<job.site, g>>
    BY <2>1, <2>2 DEF StayInv, LandedIsThere
  <2>5. files[d][job.folder][job.landed[g]] # Nothing
    BY <2>3, <2>4, ConstantsAssumption DEF Nothing, Sites
  <2>6. ASSUME NEW h \in Files, FlowActs(h) PROVE FALSE
    <3>1. spent'["flow"] > spent["flow"]
      BY <2>6, SpendType DEF FlowActs, EventKinds, TypeInv
    <3> QED BY <2>1, <3>1
  <2>7. files'[d][job.folder][job.landed[g]] = files[d][job.folder][job.landed[g]]
    BY <2>3, <2>5, <2>6, FilesStay
  <2> QED BY <2>4, <2>7
<1>4. ASSUME Landed' = {}
      PROVE  LandedIsThere'
  BY <1>4 DEF LandedIsThere
<1>5. ASSUME OpenFilesNotFiled', LandedLast', Landed' = {} \/ UNCHANGED job
      PROVE  StayInv'
  BY <1>1, <1>3, <1>4, <1>5 DEF StayInv
<1> QED BY <1>2, <1>5, OtherStepsOfTheJob DEF StayInv

LEMMA StayInvInit == Init => StayInv
<1> SUFFICES ASSUME Init PROVE StayInv
  OBVIOUS
<1>1. OpenFilesNotFiled /\ Landed = {}
  BY DEF Init, IdleJob, NoneLanded, OpenFilesNotFiled, Landed
<1>2. FiledFilesStay
  BY DEF Init, FiledFilesStay
<1> QED BY <1>1, <1>2 DEF StayInv, LandedLast, LandedIsThere

\* What is reported stored stays under its name with its own content, whatever
\* later syncs, crashes and lost answers do, with the exceptions the property
\* names.
THEOREM StoredFilesStay == Spec => []FiledFilesStay
<1> DEFINE Inv == TypeInv /\ MarkInv /\ Numbered /\ StayInv
<1>1. Init => Inv
  BY TypeInvInit, MarkInvInit, NumberedInit, StayInvInit
<1>2. Inv /\ [Next]_vars => Inv'
  BY TypeInvStep, MarkInvStep, NumberedStep, StayInvStep
<1>3. Inv => FiledFilesStay
  BY DEF StayInv
<1> QED BY <1>1, <1>2, <1>3, PTL DEF Spec

----------------------------------------------------------------------------
(* Calm syncs file everything *)

Guarded == HasSidecar /\ Live(drive)

InUse(fo) == \E n \in Numbers : files[drive][fo][n] # Nothing

\* Nobody waits twice, and whoever holds the lock is the first in the chain.
InTurn ==
    /\ \A i, j \in 1 .. Len(waiting) : waiting[i] = waiting[j] => i = j
    /\ job.phase # "idle" => job.site = Head(waiting)

\* Nobody needs a second try.
FirstTries ==
    \A s \in Sites :
      /\ tries[s] = 0 => s \notin Waiting
      /\ tries[s] = 0 \/ s \in Waiting => Owing(s) = Files
      /\ tries[s] > 0 => Files # {} /\ (s \notin Waiting => Owing(s) = {})

\* The sync under way has landed what it has tried, and there is room for more.
NothingMissing ==
    job.phase # "idle" =>
      /\ job.todo \cup Landed = Files
      /\ job.phase # "uploading" => Landed = {}
      /\ \A f \in Landed : files[drive][job.folder][job.landed[f]] = <<job.site, f>>
      /\ job.phase = "uploading" =>
           \A n \in Numbers : n > job.last => files[drive][job.folder][n] = Nothing

\* Where sidecars guard the folders, they stand where files are, one for each
\* submission that is through and one for the one under way; so a folder
\* without one is among the candidates, and the one chosen has none.
OneMarkEach ==
    Guarded =>
      /\ \A fo, fp \in Folders :
           sidecar[drive][fo] # NoSite /\ sidecar[drive][fo] = sidecar[drive][fp] => fo = fp
      /\ \A fo \in Folders : InUse(fo) => sidecar[drive][fo] # NoSite
      /\ \A fo \in Folders : sidecar[drive][fo] # NoSite =>
           \/ sidecar[drive][fo] \notin Waiting /\ tries[sidecar[drive][fo]] > 0 /\ InUse(fo)
           \/ /\ job.phase \in {"counting", "uploading"}
              /\ sidecar[drive][fo] = job.site /\ fo = job.folder
      /\ job.phase = "choosing" => \A fo \in Folders : fo < job.folder => sidecar[drive][fo] # NoSite
      /\ job.phase = "preparing" => sidecar[drive][job.folder] = NoSite

\* Every submission finds a suffix of its own.
Enough == Guarded => NSites <= MaxSuffix + 1

CalmFacts == ~torn /\ InTurn /\ FirstTries /\ NothingMissing /\ OneMarkEach

CalmInv == Calm /\ Enough => CalmFacts

\* Without events nothing but the calls of the sync and requests for one happen.
LEMMA CalmSteps ==
    ASSUME TypeInv, [Next]_vars, Calm'
    PROVE  /\ Calm
           /\ UNCHANGED <<drive, torn>>
           /\ \/ UNCHANGED vars
              \/ \E s \in Sites : Request(s)
              \/ ChooseFolder \/ PrepareFolder \/ CountNames \/ Confirm
              \/ \E f \in Files : UploadLands(f) \/ UploadRefused(f)
<1>1. ASSUME NEW e \in EventKinds PROVE ~Spend(e)
  <2> SUFFICES ASSUME Spend(e) PROVE FALSE
    OBVIOUS
  <2>1. spent'[e] > spent[e] /\ spent[e] \in Nat
    BY SpendType DEF TypeInv, TypeOK
  <2> QED BY <2>1 DEF Calm
<1>2. Calm
  <2>1. \A e \in EventKinds : spent'[e] >= spent[e] /\ spent[e] \in Nat
    BY SpentGrows DEF TypeInv, TypeOK
  <2> QED BY <2>1 DEF Calm
<1>3. ~(ChooseBlind \/ PrepareFails \/ PrepareReplyLost \/ CountBlind \/ ConfirmBlind \/ Crash)
  BY <1>1 DEF ChooseBlind, PrepareFails, PrepareReplyLost, CountBlind, ConfirmBlind, Crash, EventKinds
<1>4. \A f \in Files : ~(UploadFails(f) \/ UploadReplyLost(f) \/ FlowActs(f))
  BY <1>1 DEF UploadFails, UploadReplyLost, FlowActs, EventKinds
<1>5. /\ \A fo \in Folders, n \in Numbers : ~HandAdds(fo, n)
      /\ \A d \in Drives : ~SwitchTarget(d)
  BY <1>1 DEF HandAdds, SwitchTarget, EventKinds
<1>6. \/ UNCHANGED vars
      \/ \E s \in Sites : Request(s)
      \/ ChooseFolder \/ PrepareFolder \/ CountNames \/ Confirm
      \/ \E f \in Files : UploadLands(f) \/ UploadRefused(f)
  BY <1>3, <1>4, <1>5 DEF Next, SyncStep
<1>7. UNCHANGED <<drive, torn>>
  BY <1>6 DEF vars, Request, ChooseFolder, Choosing, PrepareFolder, CountNames, Count, Confirm,
              Return, UploadLands, UploadRefused, Tried
<1> QED BY <1>2, <1>6, <1>7

\* Joining the chain.
LEMMA JoinsTheChain ==
    ASSUME waiting \in Seq(Sites), NEW s \in Sites \ Waiting, waiting' = Append(waiting, s),
           \A i, j \in 1 .. Len(waiting) : waiting[i] = waiting[j] => i = j
    PROVE  /\ Waiting' = Waiting \cup {s}
           /\ \A i, j \in 1 .. Len(waiting') : waiting'[i] = waiting'[j] => i = j
           /\ waiting # << >> => Head(waiting') = Head(waiting)
<1>1. /\ Len(waiting') = Len(waiting) + 1 /\ Len(waiting) \in Nat
      /\ waiting'[Len(waiting) + 1] = s
      /\ \A i \in 1 .. Len(waiting) : waiting'[i] = waiting[i]
  OBVIOUS
<1>2. \A i \in 1 .. Len(waiting) : waiting[i] # s
  BY DEF Waiting
<1>3. DOMAIN waiting' = 1 .. Len(waiting) + 1 /\ DOMAIN waiting = 1 .. Len(waiting)
  OBVIOUS
<1>4. Waiting' = Waiting \cup {s}
  BY <1>1, <1>3 DEF Waiting
<1>5. waiting # << >> => Head(waiting') = Head(waiting)
  BY <1>1
<1> QED BY <1>1, <1>2, <1>4, <1>5

\* Leaving it.
LEMMA LeavesTheChain ==
    ASSUME waiting \in Seq(Sites), waiting # << >>, waiting' = Tail(waiting),
           \A i, j \in 1 .. Len(waiting) : waiting[i] = waiting[j] => i = j
    PROVE  /\ Waiting' = Waiting \ {Head(waiting)} /\ Head(waiting) \in Waiting
           /\ \A i, j \in 1 .. Len(waiting') : waiting'[i] = waiting'[j] => i = j
<1>1. /\ Len(waiting) \in Nat \ {0} /\ Head(waiting) = waiting[1]
      /\ Len(waiting') = Len(waiting) - 1
      /\ \A i \in 1 .. Len(waiting') : waiting'[i] = waiting[i + 1]
  BY HeadTailProperties
<1>2. DOMAIN waiting' = 1 .. Len(waiting') /\ DOMAIN waiting = 1 .. Len(waiting)
  BY HeadTailProperties
<1>3. Head(waiting) \in Waiting
  BY <1>1, <1>2 DEF Waiting
<1>4. ASSUME NEW x PROVE x \in Waiting' <=> x \in Waiting /\ x # Head(waiting)
  <2>1. ASSUME x \in Waiting' PROVE x \in Waiting /\ x # Head(waiting)
    <3>1. PICK i \in 1 .. Len(waiting') : x = waiting'[i]
      BY <1>2, <2>1 DEF Waiting
    <3>2. x = waiting[i + 1] /\ i + 1 \in 1 .. Len(waiting) /\ i + 1 # 1
      BY <1>1, <3>1
    <3> QED BY <1>1, <1>2, <3>2 DEF Waiting
  <2>2. ASSUME x \in Waiting, x # Head(waiting) PROVE x \in Waiting'
    <3>1. PICK i \in 1 .. Len(waiting) : x = waiting[i]
      BY <1>2, <2>2 DEF Waiting
    <3>2. i # 1
      BY <1>1, <2>2, <3>1
    <3>3. i - 1 \in 1 .. Len(waiting') /\ waiting'[i - 1] = waiting[i]
      BY <1>1, <3>1, <3>2
    <3> QED BY <1>2, <3>1, <3>3 DEF Waiting
  <2> QED BY <2>1, <2>2
<1>5. \A i, j \in 1 .. Len(waiting') : waiting'[i] = waiting'[j] => i = j
  BY <1>1
<1> QED BY <1>3, <1>4, <1>5

LEMMA CalmRequest ==
    ASSUME TypeInv, CalmFacts, NEW s \in Sites, Request(s), UNCHANGED <<drive, torn>>
    PROVE  CalmFacts'
<1>1. /\ s \notin Waiting /\ Owing(s) # {} /\ waiting' = Append(waiting, s)
      /\ tries' = [tries EXCEPT ![s] = @ + 1]
      /\ UNCHANGED <<files, sidecar, job, filed>>
  BY DEF Request, library
<1>2. waiting \in Seq(Sites) /\ tries \in [Sites -> Nat]
  BY DEF TypeInv, TypeOK
<1>3. tries[s] = 0 /\ Owing(s) = Files
  BY SMTT(30), <1>1, <1>2 DEF CalmFacts, FirstTries
<1>4. /\ Waiting' = Waiting \cup {s}
      /\ \A i, j \in 1 .. Len(waiting') : waiting'[i] = waiting'[j] => i = j
      /\ waiting # << >> => Head(waiting') = Head(waiting)
  BY <1>1, <1>2, JoinsTheChain DEF CalmFacts, InTurn
<1>5. InTurn'
  BY <1>1, <1>4 DEF CalmFacts, InTurn, TypeInv, JobHasSite
<1>6. \A t \in Sites : Owing(t)' = Owing(t) /\ tries'[t] = (IF t = s THEN 1 ELSE tries[t])
  BY <1>1, <1>2, <1>3 DEF Owing
<1>7. FirstTries'
  <2> SUFFICES ASSUME NEW t \in Sites
               PROVE  /\ tries'[t] = 0 => t \notin Waiting'
                      /\ tries'[t] = 0 \/ t \in Waiting' => Owing(t)' = Files
                      /\ tries'[t] > 0 => Files # {} /\ (t \notin Waiting' => Owing(t)' = {})
    BY DEF FirstTries
  <2> QED BY <1>1, <1>3, <1>4, <1>6 DEF CalmFacts, FirstTries
<1>8. NothingMissing'
  BY <1>1 DEF CalmFacts, NothingMissing, Landed
<1>9. OneMarkEach'
  <2>1. Guarded' = Guarded
    BY DEF Guarded, Live
  <2>2. ASSUME NEW fo \in Folders, Guarded, sidecar[drive][fo] # NoSite,
               sidecar[drive][fo] \notin Waiting, tries[sidecar[drive][fo]] > 0
        PROVE  sidecar[drive][fo] \notin Waiting' /\ tries'[sidecar[drive][fo]] > 0
    <3>1. sidecar[drive][fo] \in Sites
      BY <2>2 DEF TypeInv, TypeOK
    <3> QED BY <2>2, <3>1, <1>3, <1>4, <1>6
  <2>3. \A fo \in Folders : InUse(fo)' = InUse(fo)
    BY <1>1 DEF InUse
  <2> QED BY <1>1, <2>1, <2>2, <2>3 DEF CalmFacts, OneMarkEach
<1> QED BY <1>5, <1>7, <1>8, <1>9 DEF CalmFacts

\* Where sidecars guard the folders, one of them has none when somebody chooses.
LEMMA AFolderIsLeft ==
    ASSUME TypeInv, CalmFacts, Enough, Guarded, NEW s \in Sites, s \in Waiting,
           job.phase \notin {"counting", "uploading"}
    PROVE  \E fo \in Folders : sidecar[drive][fo] = NoSite
<1> SUFFICES ASSUME \A fo \in Folders : sidecar[drive][fo] # NoSite
             PROVE  FALSE
  OBVIOUS
<1> DEFINE owner == [fo \in Folders |-> sidecar[drive][fo]]
           others == Sites \ {s}
<1>1. owner \in [Folders -> others]
  <2> SUFFICES ASSUME NEW fo \in Folders PROVE sidecar[drive][fo] \in Sites \ {s}
    OBVIOUS
  <2>1. sidecar[drive][fo] \in Sites
    BY DEF TypeInv, TypeOK
  <2>2. sidecar[drive][fo] \notin Waiting
    BY DEF CalmFacts, OneMarkEach
  <2> QED BY <2>1, <2>2
<1>2. IsFiniteSet(Folders) /\ Cardinality(Folders) = MaxSuffix + 1
  BY FS_Interval, ConstantsAssumption DEF Folders
<1>3. IsFiniteSet(Sites) /\ Cardinality(Sites) = NSites
  BY FS_Interval, ConstantsAssumption DEF Sites
<1>4. IsFiniteSet(others) /\ Cardinality(others) = NSites - 1
  BY <1>3, FS_RemoveElement
<1>5. Cardinality(others) < Cardinality(Folders)
  BY <1>2, <1>4, ConstantsAssumption DEF Enough, Guarded
<1>6. \E x, y \in Folders : x # y /\ owner[x] = owner[y]
  <2> HIDE DEF owner, others
  <2> QED BY <1>1, <1>2, <1>4, <1>5, FS_PigeonHole
<1>7. PICK x \in Folders, y \in Folders : x # y /\ owner[x] = owner[y]
  BY <1>6
<1> QED BY <1>7 DEF CalmFacts, OneMarkEach

\* A candidate counts as taken exactly where a sidecar guards it.
LEMMA TakenIsMarked ==
    ASSUME TypeInv, CalmFacts, Guarded, NEW fo \in Folders,
           job.phase \notin {"counting", "uploading"}
    PROVE  Taken(fo, Listing(fo)) <=> sidecar[drive][fo] # NoSite
<1>1. SidecarName \notin Numbers
  BY DEF SidecarName, Numbers
<1>2. InUse(fo) => Taken(fo, Listing(fo))
  <2> SUFFICES ASSUME NEW n \in Numbers, files[drive][fo][n] # Nothing
               PROVE  Taken(fo, Listing(fo))
    BY DEF InUse
  <2>1. n \in Listing(fo) /\ n # SidecarName
    BY <1>1 DEF Listing
  <2> QED BY <2>1 DEF Taken
<1>3. Taken(fo, Listing(fo)) => sidecar[drive][fo] # NoSite \/ InUse(fo)
  BY DEF Taken, Listing, InUse
<1>4. sidecar[drive][fo] # NoSite => InUse(fo)
  BY DEF CalmFacts, OneMarkEach
<1>5. InUse(fo) => sidecar[drive][fo] # NoSite
  BY DEF CalmFacts, OneMarkEach
<1> QED BY <1>2, <1>3, <1>4, <1>5

LEMMA CalmChoose ==
    ASSUME TypeInv, CalmFacts, Enough, ChooseFolder, UNCHANGED <<drive, torn>>
    PROVE  CalmFacts'
<1>1. /\ waiting # << >> /\ job.phase \in {"idle", "choosing"}
      /\ job' = Chosen(Chooser, Listing(Chooser.folder))
      /\ UNCHANGED <<files, sidecar, waiting, filed, tries>>
  BY DEF ChooseFolder, Choosing, library
<1>2. /\ Chooser \in Job /\ Chooser.phase = "choosing" /\ Chooser.site \in Sites
      /\ job.phase = "idle" => /\ Chooser.todo = Owing(Chooser.site)
                               /\ Chooser.landed = NoneLanded
      /\ job.phase = "choosing" => Chooser = job
  BY <1>1, ChooserType
<1>3. job.phase = "idle" => Chooser.site = Head(waiting) /\ Chooser.folder = 0
  BY DEF Chooser, IdleJob
<1>4. Chooser.site = Head(waiting)
  BY <1>1, <1>2, <1>3 DEF CalmFacts, InTurn
<1>5. Chooser.site \in Waiting
  <2>1. 1 \in DOMAIN waiting /\ Head(waiting) = waiting[1]
    BY <1>1 DEF TypeInv, TypeOK
  <2> QED BY <1>4, <2>1 DEF Waiting
<1>6. /\ job' \in Job
      /\ job'.phase \in {"choosing", "preparing"}
      /\ job'.site = Chooser.site
      /\ job'.todo = Chooser.todo
      /\ job'.landed = Chooser.landed
  BY <1>1, <1>2, ChosenType
<1>7. Chooser.todo = Files /\ \A f \in Files : Chooser.landed[f] = NoNumber
  <2>1. CASE job.phase = "idle"
    BY <1>2, <1>5, <2>1 DEF CalmFacts, FirstTries, NoneLanded
  <2>2. CASE job.phase = "choosing"
    BY <1>2, <2>2 DEF CalmFacts, NothingMissing, Landed, TypeInv, TypeOK, Job
  <2> QED BY <1>1, <2>1, <2>2
<1>8. InTurn'
  BY <1>1, <1>4, <1>6 DEF CalmFacts, InTurn
<1>9. FirstTries'
  BY <1>1 DEF CalmFacts, FirstTries, Waiting, Owing
<1>10. NothingMissing'
  <2>1. Landed' = {}
    BY <1>6, <1>7 DEF Landed
  <2>2. job'.phase # "uploading" /\ job'.todo = Files
    BY <1>6, <1>7
  <2> QED BY <2>1, <2>2 DEF NothingMissing
<1>11. OneMarkEach'
  <2> SUFFICES ASSUME Guarded PROVE OneMarkEach'
    BY DEF OneMarkEach, Guarded, Live
  <2>1. job.phase \notin {"counting", "uploading"} /\ job'.phase \notin {"counting", "uploading"}
    BY <1>1, <1>6
  <2>2. Chooser.folder \in Folders
    BY <1>2 DEF Job
  <2>3. \A fo \in Folders : fo < Chooser.folder => sidecar[drive][fo] # NoSite
    BY <1>1, <1>2, <1>3 DEF CalmFacts, OneMarkEach, Folders
  <2>4. Taken(Chooser.folder, Listing(Chooser.folder)) <=> sidecar[drive][Chooser.folder] # NoSite
    BY <2>1, <2>2, TakenIsMarked
  <2>5. CASE sidecar[drive][Chooser.folder] = NoSite
    <3>1. job'.phase = "preparing" /\ job'.folder = Chooser.folder
      BY <1>1, <1>2, <2>4, <2>5 DEF Chosen, Job
    <3> QED BY <1>1, <2>1, <2>5, <3>1 DEF CalmFacts, OneMarkEach, Guarded, Live, Waiting, InUse
  <2>6. CASE sidecar[drive][Chooser.folder] # NoSite /\ Chooser.folder < MaxSuffix
    <3>1. job'.phase = "choosing" /\ job'.folder = Chooser.folder + 1
      BY <1>1, <1>2, <2>4, <2>6 DEF Chosen, Job
    <3>2. \A fo \in Folders : fo < job'.folder => sidecar[drive][fo] # NoSite
      BY <2>2, <2>3, <2>6, <3>1 DEF Folders
    <3> QED BY <1>1, <2>1, <3>1, <3>2 DEF CalmFacts, OneMarkEach, Guarded, Live, Waiting, InUse
  <2>7. CASE sidecar[drive][Chooser.folder] # NoSite /\ ~(Chooser.folder < MaxSuffix)
    <3>1. PICK fo \in Folders : sidecar[drive][fo] = NoSite
      BY <1>2, <1>5, <2>1, AFolderIsLeft
    <3> QED BY <2>2, <2>3, <2>7, <3>1, ConstantsAssumption DEF Folders
  <2> QED BY <2>5, <2>6, <2>7
<1> QED BY <1>8, <1>9, <1>10, <1>11 DEF CalmFacts

\* What every step keeps that leaves the chain and the records alone.
LEMMA CalmChain ==
    ASSUME CalmFacts, UNCHANGED <<waiting, filed, tries>>,
           job'.phase # "idle" => job.phase # "idle" /\ job'.site = job.site
    PROVE  InTurn' /\ FirstTries' /\ Waiting' = Waiting
BY DEF CalmFacts, InTurn, FirstTries, Waiting, Owing

LEMMA CalmPrepare ==
    ASSUME TypeInv, CalmFacts, PrepareFolder, UNCHANGED <<drive, torn>>
    PROVE  CalmFacts'
<1>1. job.phase = "preparing" /\ UNCHANGED <<files, tries>>
  BY DEF PrepareFolder
<1>2. /\ job.site \in Sites /\ job.folder \in Folders /\ drive \in Drives
  BY <1>1 DEF TypeInv, TypeOK, JobHasSite, Job
<1>3. ~(HasSidecar /\ SidecarClashes)
  BY <1>1 DEF SidecarClashes, CalmFacts, OneMarkEach, Guarded
<1>4. /\ IF HasSidecar THEN Mark ELSE UNCHANGED sidecar
      /\ job' = [job EXCEPT !.phase = "counting"]
      /\ UNCHANGED <<waiting, filed>>
  BY <1>3 DEF PrepareFolder
<1>5. /\ job'.phase = "counting" /\ job'.site = job.site /\ job'.folder = job.folder
      /\ job'.todo = job.todo /\ job'.landed = job.landed
  BY <1>4 DEF TypeInv, TypeOK, Job
<1>6. InTurn' /\ FirstTries' /\ Waiting' = Waiting
  BY <1>1, <1>4, <1>5, CalmChain
<1>7. NothingMissing'
  BY <1>1, <1>5 DEF CalmFacts, NothingMissing, Landed
<1>8. OneMarkEach'
  <2> SUFFICES ASSUME Guarded PROVE OneMarkEach'
    BY DEF OneMarkEach, Guarded, Live
  <2>1. \A fo \in Folders : sidecar'[drive][fo] = IF fo = job.folder THEN job.site
                                                  ELSE sidecar[drive][fo]
    BY <1>2, <1>4, MarkType DEF Guarded, TypeInv
  <2>2. sidecar[drive][job.folder] = NoSite
    BY <1>1 DEF CalmFacts, OneMarkEach
  <2>3. job.site \in Waiting
    <3>1. 1 \in DOMAIN waiting /\ Head(waiting) = waiting[1]
      BY <1>1 DEF TypeInv, TypeOK, JobHasSite
    <3> QED BY <1>1, <3>1 DEF Waiting, CalmFacts, InTurn
  <2>4. \A fo \in Folders : InUse(fo)' = InUse(fo)
    BY <1>1 DEF InUse
  <2>5. job.site # NoSite
    BY <1>2 DEF Sites, NoSite
  <2>6. \A fo \in Folders : sidecar[drive][fo] # NoSite =>
          sidecar[drive][fo] \notin Waiting /\ tries[sidecar[drive][fo]] > 0 /\ InUse(fo)
    BY <1>1 DEF CalmFacts, OneMarkEach
  <2>7. \A fo, fp \in Folders :
           sidecar'[drive][fo] # NoSite /\ sidecar'[drive][fo] = sidecar'[drive][fp] => fo = fp
    BY <2>1, <2>3, <2>5, <2>6 DEF CalmFacts, OneMarkEach
  <2>8. \A fo \in Folders : InUse(fo)' => sidecar'[drive][fo] # NoSite
    BY <2>1, <2>4, <2>5 DEF CalmFacts, OneMarkEach
  <2>9. \A fo \in Folders : sidecar'[drive][fo] # NoSite =>
           \/ sidecar'[drive][fo] \notin Waiting' /\ tries'[sidecar'[drive][fo]] > 0 /\ InUse(fo)'
           \/ /\ job'.phase \in {"counting", "uploading"}
              /\ sidecar'[drive][fo] = job'.site /\ fo = job'.folder
    BY <1>1, <1>5, <1>6, <2>1, <2>4, <2>6
  <2>10. drive' = drive /\ job'.phase \notin {"choosing", "preparing"}
    BY <1>5
  <2> QED BY <2>7, <2>8, <2>9, <2>10 DEF OneMarkEach
<1> QED BY <1>6, <1>7, <1>8 DEF CalmFacts

\* Where a step leaves library and chain alone and keeps the folder of a sync
\* that has marked it, the sidecars are as they were.
LEMMA MarksStay ==
    ASSUME OneMarkEach, UNCHANGED <<drive, files, sidecar, tries>>, Waiting' = Waiting,
           job.phase \in {"counting", "uploading"}, job'.phase \in {"counting", "uploading"},
           job'.site = job.site, job'.folder = job.folder
    PROVE  OneMarkEach'
<1>1. \A fo \in Folders : InUse(fo)' = InUse(fo)
  BY DEF InUse
<1> QED BY <1>1 DEF OneMarkEach, Guarded, Live

LEMMA CalmCount ==
    ASSUME TypeInv, CalmFacts, CountNames, UNCHANGED <<drive, torn>>
    PROVE  CalmFacts'
<1>1. job.phase = "counting" /\ UNCHANGED <<files, sidecar, waiting, filed, tries>>
  BY DEF CountNames, Count, library
<1>2. PICK n \in Numbers \cup {0} :
        Highest(n, Listing(job.folder)) /\ job' = [job EXCEPT !.phase = "uploading", !.last = n]
  BY DEF CountNames, Count
<1>3. /\ job'.phase = "uploading" /\ job'.last = n /\ job'.site = job.site
      /\ job'.folder = job.folder /\ job'.todo = job.todo /\ job'.landed = job.landed
  BY <1>2 DEF TypeInv, TypeOK, Job
<1>4. InTurn' /\ FirstTries' /\ Waiting' = Waiting
  BY <1>1, <1>3, CalmChain
<1>5. Landed' = Landed /\ Landed = {} /\ job.todo \cup Landed = Files
  BY <1>1, <1>3 DEF Landed, CalmFacts, NothingMissing
<1>6. ASSUME NEW m \in Numbers, m > n PROVE files[drive][job.folder][m] = Nothing
  <2>1. m \notin Listing(job.folder)
    BY <1>2, <1>6 DEF Highest, Numbers
  <2> QED BY <2>1 DEF Listing
<1>7. NothingMissing'
  BY <1>1, <1>3, <1>5, <1>6 DEF NothingMissing
<1>8. OneMarkEach'
  BY <1>1, <1>3, <1>4, MarksStay DEF CalmFacts
<1> QED BY <1>4, <1>7, <1>8 DEF CalmFacts

\* In calm the next name is always free and goes where the listing looked.
LEMMA CalmNamesAreFree ==
    ASSUME TypeInv, MarkInv, CalmFacts, NEW f \in Files, NextFile(f), Number \in Numbers
    PROVE  NameIsFree /\ Target = drive /\ files[drive][job.folder][Number] = Nothing
<1>1. job.phase = "uploading" /\ job.live = Live(drive)
  BY DEF NextFile, MarkInv, KindIsFixed, CalmFacts
<1>2. Number > job.last
  BY DEF Number, TypeInv, TypeOK, Job
<1>3. files[drive][job.folder][Number] = Nothing
  BY <1>1, <1>2 DEF CalmFacts, NothingMissing
<1> QED BY <1>1, <1>3 DEF NameIsFree, Target, Live

LEMMA CalmUpload ==
    ASSUME TypeInv, MarkInv, CalmFacts, NEW f \in Files, UploadLands(f) \/ UploadRefused(f),
           UNCHANGED <<drive, torn>>
    PROVE  CalmFacts'
<1>1. NextFile(f) /\ Number \in Numbers
  BY DEF UploadLands, UploadRefused, Store
<1>2. NameIsFree /\ Target = drive /\ files[drive][job.folder][Number] = Nothing
  BY <1>1, CalmNamesAreFree
<1>3. Store(f) /\ Tried(f, Number)
  BY <1>2 DEF UploadLands, UploadRefused
<1>4. /\ job'.phase = "uploading" /\ job'.site = job.site /\ job'.folder = job.folder
      /\ job'.last = Number /\ job'.todo = job.todo \ {f}
      /\ \A g \in Files : job'.landed[g] = IF g = f THEN Number ELSE job.landed[g]
  BY <1>1, <1>3, TriedType
<1>5. job.phase = "uploading" /\ f \in job.todo /\ UNCHANGED <<sidecar, waiting, filed, tries>>
  BY <1>1, <1>3 DEF NextFile, Tried
<1>6. /\ job.folder \in Folders /\ drive \in Drives /\ job.site \in Sites
      /\ \A fo \in Folders, n \in Numbers :
           files'[drive][fo][n] = IF fo = job.folder /\ n = Number THEN <<job.site, f>>
                                  ELSE files[drive][fo][n]
  BY <1>1, <1>2, <1>3, <1>5, StoreEffect DEF TypeInv, TypeOK, JobHasSite
<1>7. InTurn' /\ FirstTries' /\ Waiting' = Waiting
  BY <1>4, <1>5, CalmChain
<1>8. Landed' = Landed \cup {f}
  BY <1>1, <1>4 DEF Landed, NoNumber, Numbers
<1>9. NothingMissing'
  <2>1. job'.todo \cup Landed' = Files
    BY <1>4, <1>5, <1>8 DEF CalmFacts, NothingMissing
  <2>2. ASSUME NEW g \in Landed'
        PROVE  files'[drive][job.folder][job'.landed[g]] = <<job.site, g>>
    <3>1. CASE g = f
      BY <1>1, <1>4, <1>6, <3>1
    <3>2. CASE g # f
      <4>1. g \in Landed /\ g \in Files /\ job'.landed[g] = job.landed[g]
        BY <1>4, <1>8, <2>2, <3>2 DEF Landed
      <4>2. files[drive][job.folder][job.landed[g]] = <<job.site, g>>
        BY <1>5, <4>1 DEF CalmFacts, NothingMissing
      <4>3. job.landed[g] \in Numbers
        BY <4>1 DEF Landed, TypeInv, TypeOK, Job
      <4>4. job.landed[g] # Number
        BY <1>2, <1>6, <4>2 DEF Nothing, Sites
      <4> QED BY ZenonT(40), <1>6, <4>1, <4>2, <4>3, <4>4
    <3> QED BY <3>1, <3>2
  <2>3. ASSUME NEW n \in Numbers, n > Number
        PROVE  files'[drive][job.folder][n] = Nothing
    <3>1. n > job.last /\ n # Number
      BY <2>3 DEF Number, TypeInv, TypeOK, Job, Numbers
    <3> QED BY <1>5, <1>6, <3>1 DEF CalmFacts, NothingMissing
  <2> QED BY <1>4, <2>1, <2>2, <2>3 DEF NothingMissing
<1>10. OneMarkEach'
  <2> SUFFICES ASSUME Guarded PROVE OneMarkEach'
    BY DEF OneMarkEach, Guarded, Live
  <2>1. \A fo \in Folders : InUse(fo) => InUse(fo)'
    BY <1>1, <1>2, <1>6 DEF InUse
  <2>2. \A fo \in Folders : fo # job.folder => InUse(fo)' = InUse(fo)
    BY <1>6 DEF InUse
  <2>3. sidecar[drive][job.folder] # NoSite
    <3>1. ~torn /\ job.live = Live(drive)
      BY <1>5 DEF MarkInv, KindIsFixed, CalmFacts
    <3>2. sidecar[drive][job.folder] = job.site
      BY <1>5, <3>1 DEF MarkInv, MarkedFirst, Guarded
    <3> QED BY <1>6, <3>2 DEF Sites, NoSite
  <2> QED BY <1>4, <1>5, <1>7, <2>1, <2>2, <2>3 DEF CalmFacts, OneMarkEach, Guarded, Live
<1> QED BY <1>7, <1>9, <1>10 DEF CalmFacts

LEMMA CalmConfirm ==
    ASSUME TypeInv, CalmFacts, Confirm, UNCHANGED <<drive, torn>>
    PROVE  CalmFacts'
<1>1. /\ job.phase = "uploading" /\ job.todo = {} /\ job' = IdleJob
      /\ waiting' = Tail(waiting)
      /\ UNCHANGED <<files, sidecar, tries>>
  BY DEF Confirm, Return, library
<1>2. /\ waiting \in Seq(Sites) /\ waiting # << >> /\ job.site \in Sites
      /\ job.site = Head(waiting) /\ drive \in Drives /\ job.folder \in Folders
  BY <1>1 DEF TypeInv, TypeOK, JobHasSite, CalmFacts, InTurn, Job
<1>3. /\ Waiting' = Waiting \ {job.site} /\ job.site \in Waiting
      /\ \A i, j \in 1 .. Len(waiting') : waiting'[i] = waiting'[j] => i = j
  BY <1>1, <1>2, LeavesTheChain DEF CalmFacts, InTurn
<1>4. Landed = Files
  BY <1>1 DEF CalmFacts, NothingMissing
<1>5. Seen = Files
  BY <1>1, <1>4 DEF CalmFacts, NothingMissing, Seen, Landed
<1>6. \A s \in Sites, f \in Files :
        filed'[s][f] = IF s = job.site THEN <<job.folder, job.landed[f]>> ELSE filed[s][f]
  BY <1>5, SeenLanded, ReturnEffect DEF Confirm
<1>7. \A f \in Files : job.landed[f] \in Numbers
  BY <1>4 DEF Landed, TypeInv, TypeOK, Job
<1>8. ASSUME NEW s \in Sites
      PROVE  Owing(s)' = IF s = job.site THEN {} ELSE Owing(s)
  <2>1. \A f \in Files : <<job.folder, job.landed[f]>> # NotFiled
    BY <1>7 DEF NotFiled, Numbers
  <2>2. Owing(s)' = {f \in Files : filed'[s][f] = NotFiled}
    BY DEF Owing
  <2>3. CASE s = job.site
    <3>1. \A f \in Files : filed'[s][f] = <<job.folder, job.landed[f]>>
      BY <1>6, <2>3
    <3> QED BY <2>1, <2>2, <2>3, <3>1
  <2>4. CASE s # job.site
    BY <1>6, <2>2, <2>4 DEF Owing
  <2> QED BY <2>3, <2>4
<1>9. tries[job.site] > 0 /\ Files # {}
  BY <1>2, <1>3 DEF CalmFacts, FirstTries, TypeInv, TypeOK
<1>10. InTurn'
  BY <1>1, <1>3 DEF InTurn, IdleJob
<1>11. FirstTries'
  <2> SUFFICES ASSUME NEW s \in Sites
               PROVE  /\ tries[s] = 0 => s \notin Waiting'
                      /\ tries[s] = 0 \/ s \in Waiting' => Owing(s)' = Files
                      /\ tries[s] > 0 => Files # {} /\ (s \notin Waiting' => Owing(s)' = {})
    BY <1>1 DEF FirstTries
  <2>1. /\ tries[s] = 0 => s \notin Waiting
        /\ tries[s] = 0 \/ s \in Waiting => Owing(s) = Files
        /\ tries[s] > 0 => Files # {} /\ (s \notin Waiting => Owing(s) = {})
    BY DEF CalmFacts, FirstTries
  <2>2. CASE s = job.site
    <3>1. tries[s] > 0 /\ tries[s] # 0
      BY <1>9, <2>2 DEF TypeInv, TypeOK
    <3> QED BY <1>3, <1>8, <1>9, <2>2, <3>1
  <2>3. CASE s # job.site
    BY <1>3, <1>8, <2>1, <2>3
  <2> QED BY <2>2, <2>3
<1>12. NothingMissing'
  BY <1>1 DEF NothingMissing, IdleJob
<1>13. OneMarkEach'
  <2> SUFFICES ASSUME Guarded PROVE OneMarkEach'
    BY DEF OneMarkEach, Guarded, Live
  <2>1. \A fo \in Folders : InUse(fo)' = InUse(fo)
    BY <1>1 DEF InUse
  <2>2. InUse(job.folder)
    <3>1. PICK f \in Files : TRUE
      BY <1>9
    <3>2. files[drive][job.folder][job.landed[f]] = <<job.site, f>> /\ job.landed[f] \in Numbers
      BY <1>1, <1>4, <1>7 DEF CalmFacts, NothingMissing
    <3> QED BY <1>2, <3>2 DEF InUse, Nothing, Sites
  <2>3. \A fo \in Folders : sidecar[drive][fo] # NoSite =>
          sidecar[drive][fo] \notin Waiting' /\ tries[sidecar[drive][fo]] > 0 /\ InUse(fo)
    BY <1>3, <1>9, <2>2 DEF CalmFacts, OneMarkEach
  <2> QED BY <1>1, <2>1, <2>3 DEF CalmFacts, OneMarkEach, IdleJob, Guarded, Live
<1> QED BY <1>10, <1>11, <1>12, <1>13 DEF CalmFacts

LEMMA CalmInvStep ==
    ASSUME TypeInv, MarkInv, CalmInv, [Next]_vars
    PROVE  CalmInv'
<1> SUFFICES ASSUME Calm', Enough' PROVE CalmFacts'
  BY DEF CalmInv, CalmFacts
<1>1. Calm /\ UNCHANGED <<drive, torn>>
  BY CalmSteps
<1>2. Enough /\ CalmFacts
  BY <1>1 DEF Enough, Guarded, Live, CalmInv
<1>3. CASE UNCHANGED vars
  BY <1>2, <1>3 DEF vars, CalmFacts, InTurn, FirstTries, NothingMissing, OneMarkEach, Guarded, Live,
                    Waiting, Owing, Landed, InUse
<1> QED BY <1>1, <1>2, <1>3, CalmSteps, CalmRequest, CalmChoose, CalmPrepare, CalmCount,
           CalmUpload, CalmConfirm

LEMMA CalmInvInit == Init => CalmInv
<1> SUFFICES ASSUME Init PROVE CalmFacts
  BY DEF CalmInv, CalmFacts
<1>1. waiting = << >> /\ job.phase = "idle" /\ ~torn
  BY DEF Init, IdleJob
<1>2. InTurn /\ NothingMissing
  BY <1>1 DEF InTurn, NothingMissing
<1>3. FirstTries
  BY DEF Init, FirstTries, Waiting, Owing
<1>4. OneMarkEach
  BY <1>1 DEF Init, OneMarkEach, InUse
<1> QED BY <1>1, <1>2, <1>3, <1>4 DEF CalmFacts

\* As long as nothing goes wrong, one sync files all of a submission, whatever
\* folders, sidecars and numbers those before it have left; with sidecars on
\* SharePoint as long as every submission finds a suffix of its own.
THEOREM CalmSyncsFileAllAlways == Spec => []CalmSyncsFileAll
<1> DEFINE Inv == TypeInv /\ MarkInv /\ CalmInv
<1>1. Init => Inv
  BY TypeInvInit, MarkInvInit, CalmInvInit
<1>2. Inv /\ [Next]_vars => Inv'
  BY TypeInvStep, MarkInvStep, CalmInvStep
<1>3. Inv => CalmSyncsFileAll
  BY DEF CalmInv, CalmFacts, CalmSyncsFileAll, FirstTries, Enough, Guarded
<1> QED BY <1>1, <1>2, <1>3, PTL DEF Spec
=============================================================================
