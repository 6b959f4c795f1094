--------------------------- MODULE ManualUploads ---------------------------
(***************************************************************************)
(* Files that people put into the library by hand.  Once a minute the      *)
(* reconciler asks Graph what has changed since its cursor, gives new files*)
(* the managed name, saves the cursor, and writes what it renamed and what *)
(* somebody deleted to the audit file.  Choosing another storage target    *)
(* starts over from "now", and an expired cursor from the time the feature *)
(* was switched on.                                                        *)
(*                                                                         *)
(* A cursor belongs to the drive it was made for.  What it brings up is    *)
(* looked at and renamed on the drive in use by then, where a file of      *)
(* another drive is not found and so passed over.                          *)
(*                                                                         *)
(* What is abstracted: a cursor is the set of changes it has passed, a time*)
(* the set of changes before it; the files are all in folders the rules    *)
(* manage and that hold the metadata file, and none arrives with a managed *)
(* name; LibrarySync has the numbers and the upload lock; the app is live, *)
(* and one target is chosen at a time.                                     *)
(***************************************************************************)
EXTENDS Common

CONSTANTS
    Drives,   \* storage targets
    Items,    \* files somebody may upload by hand
    DriveOf   \* per file, its drive

ASSUME ManualUploadsAssumption ==
    /\ DriveOf \in [Items -> Drives]
    /\ None \notin Drives

\* What may happen to a file, and what the audit file may say of it.
Changes == {"up", "name", "delete"} \X Items
Lines   == {"name", "delete"} \X Items

\* Cursors and passes of the reconciler.
Cursors == [drive : Drives, seen : SUBSET Changes]
Pass    == [ stage  : {"idle", "renaming", "saving", "auditing", "rebuilding"},
             next   : Cursors \cup {None},
             todo   : SUBSET Items,    \* to be looked at
             found  : SUBSET Items,    \* to be renamed
             lines  : SUBSET Lines,
             failed : BOOLEAN ]

VARIABLES
    happened,  \* the changes so far
    target,    \* the drive in use
    cursor,    \* the cursor in memory
    enabledAt, \* the changes before the feature was switched on, in memory
    kept,      \* both as the settings repository has them
    pass,      \* what runOnce is doing
    reset,     \* what resetForTarget still has to save
    audit,     \* the lines in the audit file
    lapsed,    \* lines a failure or a restart has cost
    overtaken, \* targets that are left with the cursor of another drive
    before     \* the changes before the target was chosen

history    == <<lapsed, overtaken, before>>
manualVars == <<happened, target, cursor, enabledAt, kept, pass, reset, audit, history>>

IdlePass == [stage |-> "idle", next |-> None, todo |-> {}, found |-> {},
             lines |-> {}, failed |-> FALSE]

ManualTypeOK ==
    /\ happened \subseteq Changes
    /\ target \in Drives
    /\ cursor \in Cursors
    /\ enabledAt \subseteq Changes
    /\ kept \in [cursor : Cursors, enabledAt : SUBSET Changes]
    /\ pass \in Pass
    /\ reset \in {"done", "enabledAt", "cursor"}
    /\ audit \subseteq Lines
    /\ lapsed \subseteq Lines
    /\ overtaken \subseteq Drives
    /\ before \subseteq Changes

\* The first start of the server.
ManualInit ==
    /\ happened = {}
    /\ target \in Drives
    /\ cursor = [drive |-> target, seen |-> {}]
    /\ enabledAt = {}
    /\ kept = [cursor |-> cursor, enabledAt |-> {}]
    /\ pass = IdlePass
    /\ reset = "done"
    /\ audit = {}
    /\ lapsed = {} /\ overtaken = {} /\ before = {}

Uploaded(i) == <<"up", i>> \in happened
Renamed(i)  == <<"name", i>> \in happened
Deleted(i)  == <<"delete", i>> \in happened

On(d) == {c \in Changes : DriveOf[c[2]] = d}

----------------------------------------------------------------------------
(* runOnce *)

\* Files of the window that get a name: there, uploaded by hand, and new.
Unnamed(window) ==
    {i \in Items : /\ \E c \in window : c[2] = i
                   /\ Uploaded(i) /\ ~Renamed(i) /\ ~Deleted(i)
                   /\ <<"up", i>> \notin enabledAt}

DeletionsIn(window) == {<<"delete", i>> : i \in {j \in Items : <<"delete", j>> \in window}}

\* driveDelta: what changed since the cursor, and the cursor after it.
PassStarts ==
    /\ pass.stage = "idle"
    /\ LET window == (happened \cap On(cursor.drive)) \ cursor.seen
       IN /\ window # {}
          /\ pass' = [ stage |-> "renaming", todo |-> Unnamed(window), found |-> {},
                       failed |-> FALSE,
                       next  |-> [cursor EXCEPT !.seen = @ \cup window],
                       lines |-> DeletionsIn(window) ]
    /\ UNCHANGED <<happened, target, cursor, enabledAt, kept, reset, audit, history, spent>>

\* What Graph finds under the identity of a file, on the drive in use.
There(i) == DriveOf[i] = target /\ ~Deleted(i)

\* getItem: a file that is not found is passed over.
LookAt(i) ==
    /\ pass.stage = "renaming" /\ i \in pass.todo
    /\ pass' = [pass EXCEPT !.todo = @ \ {i}, !.found = IF There(i) THEN @ \cup {i} ELSE @]
    /\ UNCHANGED <<happened, target, cursor, enabledAt, kept, reset, audit, history, spent>>

Renaming(i) == pass.stage = "renaming" /\ pass.todo = {} /\ i \in pass.found

RenameItem(i) ==
    /\ Renaming(i) /\ There(i)
    /\ happened' = happened \cup {<<"name", i>>}
    /\ pass' = [pass EXCEPT !.found = @ \ {i}, !.lines = @ \cup {<<"name", i>>}]
    /\ UNCHANGED <<target, cursor, enabledAt, kept, reset, audit, history, spent>>

\* The file is not there any more.  On another drive its folder may not be there
\* either, or have no metadata file: then the file is passed over.
RenameMisses(i) ==
    /\ Renaming(i) /\ ~There(i)
    /\ \E over \in IF DriveOf[i] = target THEN {FALSE} ELSE BOOLEAN :
          pass' = [pass EXCEPT !.found = @ \ {i}, !.failed = @ \/ ~over]
    /\ UNCHANGED <<happened, target, cursor, enabledAt, kept, reset, audit, history, spent>>

RenameFails(i) ==
    /\ Renaming(i)
    /\ Spend("call")
    /\ pass' = [pass EXCEPT !.found = @ \ {i}, !.failed = TRUE]
    /\ UNCHANGED <<happened, target, cursor, enabledAt, kept, reset, audit, history>>

\* The lines of a pass that no other pass will write: deletions are seen again
\* as long as the cursor stays, but a file that has its name is passed over.
Forgone == IF pass.stage = "auditing" THEN pass.lines
           ELSE pass.lines \cap ({"name"} \X Items)

\* The pass ends early, with an error that is logged.
Abandon == pass' = IdlePass /\ lapsed' = lapsed \cup Forgone

\* Mutant: the cursor moves on although a file kept its name.
Advances_Always == TRUE

Advances == ~pass.failed

\* Only a pass without failed renames moves the cursor.
RenamesDone ==
    /\ pass.stage = "renaming" /\ pass.todo = {} /\ pass.found = {}
    /\ IF Advances
       THEN pass' = [pass EXCEPT !.stage = "saving"] /\ UNCHANGED lapsed
       ELSE Abandon
    /\ UNCHANGED <<happened, target, cursor, enabledAt, kept, reset, audit, overtaken, before, spent>>

\* The saved cursor is in force, whichever one was in force meanwhile.
Move(c) ==
    /\ cursor' = c
    /\ kept' = [kept EXCEPT !.cursor = c]
    /\ overtaken' = IF c.drive = target THEN overtaken ELSE overtaken \cup {target}

CursorSaved ==
    /\ pass.stage = "saving"
    /\ Move(pass.next)
    /\ pass' = IF pass.lines = {} THEN IdlePass ELSE [pass EXCEPT !.stage = "auditing"]
    /\ UNCHANGED <<happened, target, enabledAt, reset, audit, lapsed, before, spent>>

\* A line is appended; appendManualAudit swallows an error.
AuditLine(line) ==
    /\ pass.stage = "auditing" /\ line \in pass.lines
    /\ \/ audit' = audit \cup {line} /\ UNCHANGED <<lapsed, spent>>
       \/ Spend("call") /\ lapsed' = lapsed \cup {line} /\ UNCHANGED audit
    /\ pass' = IF pass.lines = {line} THEN IdlePass ELSE [pass EXCEPT !.lines = @ \ {line}]
    /\ UNCHANGED <<happened, target, cursor, enabledAt, kept, reset, overtaken, before>>

\* Graph or the repository rejects a call: the next pass starts from the cursor.
PassFails ==
    /\ pass.stage \in {"renaming", "saving", "rebuilding"}
    /\ Spend("call")
    /\ Abandon
    /\ UNCHANGED <<happened, target, cursor, enabledAt, kept, reset, audit, overtaken, before>>

\* Mutant: an expired cursor starts over from now.
Rebuilt_Now == [drive |-> target, seen |-> happened]

Rebuilt == [drive |-> target, seen |-> enabledAt]

\* Graph answers 410: the cursor has expired.
CursorExpires ==
    /\ pass.stage = "idle"
    /\ Spend("expire")
    /\ pass' = [IdlePass EXCEPT !.stage = "rebuilding", !.next = Rebuilt]
    /\ UNCHANGED <<happened, target, cursor, enabledAt, kept, reset, audit, history>>

RebuiltSaved ==
    /\ pass.stage = "rebuilding"
    /\ Move(pass.next)
    /\ pass' = IdlePass
    /\ UNCHANGED <<happened, target, enabledAt, reset, audit, lapsed, before, spent>>

----------------------------------------------------------------------------
(* Around the reconciler *)

ManualUpload(i) ==
    /\ ~Uploaded(i)
    /\ happened' = happened \cup {<<"up", i>>}
    /\ UNCHANGED <<target, cursor, enabledAt, kept, pass, reset, audit, history, spent>>

ManualDelete(i) ==
    /\ Uploaded(i) /\ ~Deleted(i)
    /\ Spend("delete")
    /\ happened' = happened \cup {<<"delete", i>>}
    /\ UNCHANGED <<target, cursor, enabledAt, kept, pass, reset, audit, history>>

\* A manager chooses a target, perhaps the one in use once more: the client goes
\* to its drive, and resetForTarget begins, up to its first save.
ResetForTarget(d) ==
    /\ reset = "done"
    /\ Spend("switch")
    /\ target' = d
    /\ enabledAt' = happened
    /\ cursor' = [drive |-> d, seen |-> happened]
    /\ reset' = "enabledAt"
    /\ overtaken' = overtaken \ {d}
    /\ before' = happened
    /\ UNCHANGED <<happened, kept, pass, audit, lapsed>>

\* It saves enabledAt, then the cursor as it is in memory by then.
ResetSaves ==
    /\ \/ /\ reset = "enabledAt"
          /\ kept' = [kept EXCEPT !.enabledAt = enabledAt]
          /\ reset' = "cursor"
       \/ /\ reset = "cursor"
          /\ kept' = [kept EXCEPT !.cursor = cursor]
          /\ reset' = "done"
    /\ UNCHANGED <<happened, target, cursor, enabledAt, pass, audit, history, spent>>

\* The repository rejects: memory has the new cursor until the next start.
ResetFails ==
    /\ reset # "done"
    /\ Spend("call")
    /\ reset' = "done"
    /\ UNCHANGED <<happened, target, cursor, enabledAt, kept, pass, audit, history>>

\* The process ends and starts again: start reads what is kept.
ManualCrash ==
    /\ Spend("crash")
    /\ cursor' = kept.cursor
    /\ enabledAt' = kept.enabledAt
    /\ Abandon
    /\ reset' = "done"
    /\ overtaken' = IF kept.cursor.drive = target THEN overtaken ELSE overtaken \cup {target}
    /\ UNCHANGED <<happened, target, kept, audit, before>>

----------------------------------------------------------------------------
PassStep ==
    \/ PassStarts
    \/ \E i \in Items : LookAt(i) \/ RenameItem(i) \/ RenameMisses(i)
    \/ RenamesDone
    \/ CursorSaved
    \/ \E line \in Lines : AuditLine(line)
    \/ RebuiltSaved

ManualNext ==
    \/ PassStep \/ PassFails \/ CursorExpires
    \/ \E i \in Items : RenameFails(i) \/ ManualUpload(i) \/ ManualDelete(i)
    \/ \E d \in Drives : ResetForTarget(d)
    \/ ResetSaves \/ ResetFails
    \/ ManualCrash

\* The interval goes on firing, and what is awaited is answered.
ManualFairness ==
    /\ WF_<<manualVars, spent>>(PassStep)
    /\ WF_<<manualVars, spent>>(ResetSaves)

ManualSpec == ManualInit /\ NothingSpent /\ [][ManualNext]_<<manualVars, spent>> /\ ManualFairness

----------------------------------------------------------------------------
(* Properties *)

\* What the saved cursor has passed is done for good: the file has its name or
\* is gone, and its deletion is in the audit file or about to be, unless an
\* append failed or the server went down just then.  A later pass will not
\* look back.  Files do not count that were there when the target was chosen,
\* nor those of a cursor of another drive than the one in use: a pass that
\* overtook the choice, or a restart before it was saved, leaves such a cursor,
\* and it goes past files that are looked for on the wrong drive.
CursorPassesNothing ==
    \A i \in {j \in Items : DriveOf[j] = kept.cursor.drive} :
        /\ kept.cursor.drive = target /\ <<"up", i>> \in kept.cursor.seen \ before
           => Renamed(i) \/ Deleted(i)
        /\ <<"delete", i>> \in kept.cursor.seen \ before
           => <<"delete", i>> \in audit \cup lapsed \cup pass.lines

\* No file uploaded by hand is silently passed over: in the end it has the
\* managed name, across failed calls, restarts and expired cursors.  The
\* exception is a target whose cursor a pass over the former one replaced.
ManualUploadsAreNamed ==
    \A i \in Items :
        <>[](/\ Uploaded(i) /\ ~Deleted(i) /\ DriveOf[i] = target /\ target \notin overtaken
             /\ <<"up", i>> \notin before
             => Renamed(i))
=============================================================================
