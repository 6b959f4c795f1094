------------------------------ MODULE IssueLog ------------------------------
(***************************************************************************)
(* The issue log on either record store.  A request reads an issue, adds   *)
(* to it, saves it whole and answers.                                      *)
(*                                                                         *)
(* On the JSON store a read hands out the object that the collection       *)
(* holds; a save puts it back into the collection, takes a snapshot of the *)
(* whole collection and queues it behind the snapshots before it, and is   *)
(* over when its own snapshot has replaced the file.  In Azure Tables a    *)
(* read hands out a copy and a save replaces the row.                      *)
(*                                                                         *)
(* A save that is rejected ends the process: the issue routes do not catch *)
(* it, express 4 does not wait for them, and Node ends on a rejection      *)
(* nobody handles.                                                         *)
(*                                                                         *)
(* What is abstracted: an issue is the set of its comments, a comment is   *)
(* the request that adds it; the five tries of the rename are one.  The    *)
(* other collections of the JSON store share the class modelled here.      *)
(***************************************************************************)
EXTENDS Common, Sequences

CONSTANTS
    Issues,     \* issues there may be
    Writers     \* requests to the issue log

VARIABLES
    backend,    \* "json" or "table"
    objects,    \* per issue, its comments: in memory, or in its row; None:
                \* there never was such an issue
    open,       \* the issues that the collection or the table has
    disk,       \* JSON: what the file has; None: it cannot be parsed
    chain,      \* JSON: snapshots waiting to be written, in order
    torn,       \* JSON: whether the file is being written in place
    writers,    \* per request, what it does
    promised    \* ghost: comments saved, and not given up since

issuesVars == <<backend, objects, open, disk, chain, torn, writers, promised>>

\* Comments per issue that is there.
Contents == UNION {[is -> SUBSET Writers] : is \in SUBSET Issues}

Writer == [ does  : {"create", "comment", "edit", "delete"},
            issue : Issues,
            copy  : (SUBSET Writers) \cup {None},    \* what it read
            at    : {"read", "saving", "done"} ]

ASSUME IssuesAssumption ==
    /\ \A c \in (SUBSET Writers) \cup Contents : c # None
    /\ \A r \in Writer : r # None

IssuesTypeOK ==
    /\ backend \in {"json", "table"}
    /\ objects \in [Issues -> (SUBSET Writers) \cup {None}]
    /\ open \subseteq Issues
    /\ disk \in Contents \cup {None}
    /\ chain \in Seq([by : Writers, snapshot : Contents])
    /\ torn \in BOOLEAN
    /\ writers \in [Writers -> Writer \cup {None}]
    /\ promised \subseteq Issues \X Writers

\* What a snapshot of the collection holds.
Snapshot(os, is) == [i \in is |-> os[i]]

IssuesInit ==
    /\ backend \in {"json", "table"}
    /\ open \in SUBSET Issues
    /\ objects = [i \in Issues |-> IF i \in open THEN {} ELSE None]
    /\ disk = Snapshot(objects, open)
    /\ chain = <<>> /\ torn = FALSE
    /\ writers = [w \in Writers |-> None]
    /\ promised = {}

----------------------------------------------------------------------------
(* Requests *)

\* An edit or a comment reads its issue; a new issue has a name of its own.
Begins(w, d, i) ==
    /\ writers[w] = None
    /\ IF d = "create" THEN /\ objects[i] = None
                            /\ \A v \in Writers : writers[v] # None => writers[v].issue # i
       ELSE i \in open
    /\ writers' = [writers EXCEPT ![w] = [does |-> d, issue |-> i, copy |-> objects[i], at |-> "read"]]
    /\ UNCHANGED <<backend, objects, open, disk, chain, torn, promised, spent>>

\* What the save leaves: the live object with the comment, or the copy that
\* was read with it.
SavedIssue(w) ==
    LET r == writers[w]
        read == IF backend = "json" THEN objects[r.issue] ELSE r.copy
    IN  CASE r.does = "create"  -> {}
          [] r.does = "comment" -> read \cup {w}
          [] r.does = "edit"    -> read
          [] OTHER -> objects[r.issue]

\* The comments nobody gave up after the save of w: a delete gives up those
\* of its issue, and a copy those that were saved since it was read.
StillPromised(w) ==
    LET r == writers[w]
    IN  {p \in promised : p[1] = r.issue => (r.does # "delete" /\ p[2] \in SavedIssue(w))}
          \cup (IF r.does = "comment" THEN {<<r.issue, w>>} ELSE {})

\* The collection changes at once; the file follows.
JsonSaves(w) ==
    /\ backend = "json"
    /\ writers[w] # None /\ writers[w].at = "read"
    /\ LET r == writers[w]
       IN  /\ objects' = [objects EXCEPT ![r.issue] = SavedIssue(w)]
           /\ open' = IF r.does = "delete" THEN open \ {r.issue} ELSE open \cup {r.issue}
    /\ promised' = StillPromised(w)
    /\ chain' = Append(chain, [by |-> w, snapshot |-> Snapshot(objects', open')])
    /\ writers' = [writers EXCEPT ![w].at = "saving"]
    /\ UNCHANGED <<backend, disk, torn, spent>>

\* One row is replaced; comments saved since the copy was read are gone.
TableSaves(w) ==
    /\ backend = "table"
    /\ writers[w] # None /\ writers[w].at = "read"
    /\ LET r == writers[w]
       IN  /\ objects' = [objects EXCEPT ![r.issue] = SavedIssue(w)]
           /\ open' = IF r.does = "delete" THEN open \ {r.issue} ELSE open \cup {r.issue}
    /\ promised' = StillPromised(w)
    /\ writers' = [writers EXCEPT ![w].at = "done"]
    /\ UNCHANGED <<backend, disk, chain, torn, spent>>

\* The answer: 201 for a comment.
Answers(w) ==
    /\ writers[w] # None /\ writers[w].at = "done"
    /\ writers' = [writers EXCEPT ![w] = None]
    /\ UNCHANGED <<backend, objects, open, disk, chain, torn, promised, spent>>

\* Comments whose save is not over: they have no answer yet.
Underway(p) ==
    LET r == writers[p[2]]
    IN  r # None /\ r.at = "saving" /\ r.does = "comment" /\ r.issue = p[1]

----------------------------------------------------------------------------
(* The file *)

\* Mutant: snapshots are written as they come, without waiting.
Turn_Any(n) == n \in 1 .. Len(chain)

\* A snapshot is written when all before it are.
Turn(n) == n = 1 /\ chain # <<>>

Landed(n) ==
    /\ disk' = chain[n].snapshot
    /\ writers' = [writers EXCEPT ![chain[n].by].at = "done"]
    /\ chain' = SubSeq(chain, 1, n - 1) \o SubSeq(chain, n + 1, Len(chain))
    /\ torn' = FALSE
    /\ UNCHANGED <<backend, objects, open, promised>>

\* A temporary file is written beside the old one and renamed.
FileRenamed(n) == Turn(n) /\ ~torn /\ Landed(n) /\ UNCHANGED spent

\* The rename is refused five times: the file itself is written over.
RenameRefused(n) ==
    /\ Turn(n) /\ ~torn
    /\ Spend("rename")
    /\ disk' = None /\ torn' = TRUE
    /\ UNCHANGED <<backend, objects, open, chain, writers, promised>>

WrittenOver(n) == Turn(n) /\ torn /\ Landed(n) /\ UNCHANGED spent

----------------------------------------------------------------------------
(* The process *)

\* What the next start finds in the file; one it cannot parse is no issue.
FileContents == IF disk = None THEN [i \in {} |-> {}] ELSE disk

\* The requests and the queue are gone.  Only the in-place write can cost
\* what had been answered.
Restarted ==
    /\ writers' = [w \in Writers |-> None]
    /\ chain' = <<>> /\ torn' = FALSE
    /\ IF backend = "json"
       THEN /\ open' = DOMAIN FileContents
            /\ objects' = [i \in Issues |-> IF i \in DOMAIN FileContents THEN FileContents[i]
                                           ELSE IF objects[i] = None THEN None ELSE {}]
            /\ promised' = IF disk = None THEN {} ELSE {p \in promised : ~Underway(p)}
       ELSE UNCHANGED <<open, objects, promised>>
    /\ UNCHANGED <<backend, disk>>

\* The store rejects a call of a request: nobody catches it.
CallRejected(w) ==
    /\ writers[w] # None
    /\ writers[w].at = IF backend = "json" THEN "saving" ELSE "read"
    /\ Spend("call") /\ Restarted

IssuesCrash == Spend("crash") /\ Restarted

IssuesNext ==
    \/ \E w \in Writers :
         \/ \E i \in Issues, d \in {"create", "comment", "edit", "delete"} : Begins(w, d, i)
         \/ JsonSaves(w) \/ TableSaves(w) \/ Answers(w) \/ CallRejected(w)
    \/ \E n \in 1 .. Len(chain) : FileRenamed(n) \/ RenameRefused(n) \/ WrittenOver(n)
    \/ IssuesCrash

----------------------------------------------------------------------------
(* Properties *)

\* A comment that was answered with 201 is in the issue and, on the JSON
\* store, in the file that the next start reads, whatever else was being
\* saved at the time, until somebody deletes its issue, or saves a copy of
\* the issue read before it was there (Azure Tables), or the process ends
\* in the middle of the in-place write that replaces a refused rename.
\* A comment whose issue was deleted before its answer is given up, even if
\* a later comment brings the issue back.
AnsweredIsKept ==
    \A p \in promised :
      /\ p[1] \in open /\ p[2] \in objects[p[1]]
      /\ (backend = "json" /\ disk # None /\ ~Underway(p))
           => (p[1] \in DOMAIN disk /\ p[2] \in disk[p[1]])
=============================================================================
