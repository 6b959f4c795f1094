---------------------------- MODULE SiteNumbers ----------------------------
(***************************************************************************)
(* The number of a submission.  Its photos arrive in a staging folder under*)
(* a placeholder; once the form is accepted the server takes the next      *)
(* number of the 시공종류 and 시공일, moves the folder to it, and saves the   *)
(* record under it.  The worker finds the photos by the record's id alone. *)
(* Counters live in memory; the repository has a copy that is written as   *)
(* well as may be, and counters of dates long past are not kept at all.    *)
(*                                                                         *)
(* What is abstracted: what the id looks like (two kinds that read the same*)
(* in Latin letters share a counter), and the rest of the submission, which*)
(* is SubmissionPipeline's.                                                *)
(***************************************************************************)
EXTENDS Common

CONSTANTS
    Series,      \* pairs of 시공종류 and 시공일
    LongPast,    \* those older than KEEP_DAYS
    Submissions, \* submissions that arrive
    MaxProbes    \* how often a number in use is stepped over (50 in the code)

ASSUME SiteNumbersAssumption ==
    /\ LongPast \subseteq Series
    /\ IsFiniteSet(Submissions) /\ None \notin Submissions
    /\ MaxProbes \in Nat

\* A number, or the placeholder of a submission (number 0).
Numbers == (Series \X Nat) \cup (Submissions \X {0})

Submission == [ stage  : {"idle", "waiting", "probing", "keeping", "moving", "saving", "accepted", "gone"},
                series : Series,
                number : Nat,
                probes : Nat,
                id     : Numbers \cup {None} ]

VARIABLES
    submissions, \* per submission, how far its request is
    counters,    \* per series, the last number handed out
    keptCounters,\* the repository's copy
    records,     \* per id, the submission whose record is saved under it
    folders      \* per id, the submission whose photos are staged under it

numbersVars == <<submissions, counters, keptCounters, records, folders>>

\* The ids so many submissions can reach: a number is only stepped over when an
\* earlier submission has it.
Ids == (Series \X (1..Cardinality(Submissions))) \cup (Submissions \X {0})

NumbersTypeOK ==
    /\ submissions \in [Submissions -> Submission]
    /\ counters \in [Series -> Nat]
    /\ keptCounters \in [Series -> Nat]
    /\ records \in [Ids -> Submissions \cup {None}]
    /\ folders \in [Ids -> Submissions \cup {None}]

Unsubmitted(c) == [stage |-> "idle", series |-> c, number |-> 0, probes |-> 0, id |-> None]

NumbersInit ==
    /\ \E c \in [Submissions -> Series] : submissions = [r \in Submissions |-> Unsubmitted(c[r])]
    /\ counters = [c \in Series |-> 0]
    /\ keptCounters = counters
    /\ records = [i \in Ids |-> None]
    /\ folders = [i \in Ids |-> None]

----------------------------------------------------------------------------
Placeholder(r) == <<r, 0>>
Candidate(r)   == <<submissions[r].series, submissions[r].number>>

\* The form is accepted: the photos are staged, next joins the queue.
Arrives(r) ==
    /\ submissions[r].stage = "idle"
    /\ submissions' = [submissions EXCEPT ![r].stage = "waiting"]
    /\ folders' = [folders EXCEPT ![Placeholder(r)] = r]
    /\ UNCHANGED <<counters, keptCounters, records, spent>>

\* An allocation is under way, up to the write of the counter.
Queued == \E r \in Submissions : submissions[r].stage \in {"probing", "keeping"}

Allocates(r) ==
    /\ submissions[r].stage = "waiting" /\ ~Queued
    /\ submissions' = [submissions EXCEPT ![r].stage = "probing",
                                          ![r].number = counters[submissions[r].series] + 1]
    /\ UNCHANGED <<counters, keptCounters, records, folders, spent>>

\* Mutant: the record store is not asked.
InUse_Never(i) == FALSE

\* exists: there is a record under the id.
InUse(i) == records[i] # None

\* A number in use is stepped over, so often at most; then the number is taken,
\* and the counter of a date long past is dropped at once.
Probe(r) ==
    LET w == submissions[r] IN
    /\ w.stage = "probing"
    /\ IF w.probes < MaxProbes /\ InUse(Candidate(r))
       THEN /\ submissions' = [submissions EXCEPT ![r].number = @ + 1, ![r].probes = @ + 1]
            /\ UNCHANGED counters
       ELSE /\ submissions' = [submissions EXCEPT ![r].stage = "keeping"]
            /\ counters' = [counters EXCEPT ![w.series] = IF w.series \in LongPast THEN 0 ELSE w.number]
    /\ UNCHANGED <<keptCounters, records, folders, spent>>

\* The copy of the counters is best-effort.
KeepCounters(r) ==
    /\ submissions[r].stage = "keeping"
    /\ \/ keptCounters' = counters /\ UNCHANGED spent
       \/ Spend("call") /\ UNCHANGED keptCounters
    /\ submissions' = [submissions EXCEPT ![r].stage = "moving"]
    /\ UNCHANGED <<counters, records, folders>>

\* A folder with photos in it is not replaced.
Free(i) == folders[i] = None

\* The staging folder is renamed; if it cannot be, the placeholder stays.
MoveFolder(r) ==
    LET i == Candidate(r) IN
    /\ submissions[r].stage = "moving"
    /\ \/ /\ Free(i)
          /\ folders' = [folders EXCEPT ![Placeholder(r)] = None, ![i] = r]
          /\ submissions' = [submissions EXCEPT ![r].stage = "saving", ![r].id = i]
          /\ UNCHANGED spent
       \/ /\ IF Free(i) THEN Spend("call") ELSE UNCHANGED spent
          /\ submissions' = [submissions EXCEPT ![r].stage = "saving", ![r].id = Placeholder(r)]
          /\ UNCHANGED folders
    /\ UNCHANGED <<counters, keptCounters, records>>

\* intake.accept.
SaveRecord(r) ==
    /\ submissions[r].stage = "saving"
    /\ records' = [records EXCEPT ![submissions[r].id] = r]
    /\ submissions' = [submissions EXCEPT ![r].stage = "accepted"]
    /\ UNCHANGED <<counters, keptCounters, folders, spent>>

\* The store rejects exists or save: the request fails and its photos are removed.
SubmissionFails(r) ==
    LET w == submissions[r]
        i == IF w.stage = "saving" THEN w.id ELSE Placeholder(r) IN
    /\ w.stage \in {"probing", "saving"}
    /\ Spend("call")
    /\ submissions' = [submissions EXCEPT ![r] = [Unsubmitted(@.series) EXCEPT !.stage = "gone"]]
    /\ folders' = [folders EXCEPT ![i] = None]
    /\ UNCHANGED <<counters, keptCounters, records>>

\* The worker has filed the photos and clears the folder of the record's id.
Filed(r) ==
    LET w == submissions[r] IN
    /\ w.stage = "accepted" /\ records[w.id] = r
    /\ folders' = [folders EXCEPT ![w.id] = None]
    /\ submissions' = [submissions EXCEPT ![r].stage = "gone"]
    /\ UNCHANGED <<counters, keptCounters, records, spent>>

\* The process ends and starts again: requests are lost, their folders stay.
NumbersCrash ==
    /\ Spend("crash")
    /\ submissions' = [r \in Submissions |->
                          IF submissions[r].stage \in {"idle", "accepted", "gone"} THEN submissions[r]
                          ELSE [Unsubmitted(submissions[r].series) EXCEPT !.stage = "gone"]]
    /\ counters' = [c \in Series |-> IF c \in LongPast THEN 0 ELSE keptCounters[c]]
    /\ UNCHANGED <<keptCounters, records, folders>>

----------------------------------------------------------------------------
NumbersNext ==
    \/ \E r \in Submissions :
          \/ Arrives(r) \/ Allocates(r) \/ Probe(r) \/ KeepCounters(r) \/ MoveFolder(r)
          \/ SaveRecord(r) \/ SubmissionFails(r) \/ Filed(r)
    \/ NumbersCrash

NumbersSpec == NumbersInit /\ NothingSpent /\ [][NumbersNext]_<<numbersVars, spent>>

----------------------------------------------------------------------------
(* Properties *)

\* No submission's record is ever replaced by another submission's, although
\* counters get lost and a number is handed out before the record that claims it
\* is saved; and until they are filed, the photos under a record's id are its
\* submission's own: nobody's photos are filed as somebody else's.  Two cases
\* are left out of the first: a series with more than MaxProbes records and no
\* counter, where the probing gives up; and dates long past, whose counter is
\* dropped at once, so that two requests may hold one number and the second one
\* replaces a record whose photos are filed and out of its way.
RecordStays(i) ==
    records[i] # None /\ records'[i] # records[i]
    => \/ i[1] \in LongPast
       \/ Cardinality({j \in Ids : j[1] = i[1] /\ records[j] # None}) > MaxProbes

PhotosFit(r) ==
    submissions[r].stage = "accepted" /\ records[submissions[r].id] = r
    => folders[submissions[r].id] = r

SubmissionsStayApart ==
    [][ /\ \A i \in Ids : RecordStays(i)
        /\ \A r \in Submissions : PhotosFit(r)' ]_<<numbersVars, spent>>
=============================================================================
