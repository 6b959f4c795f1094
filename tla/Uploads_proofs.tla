---------------------------- MODULE Uploads_proofs ----------------------------
(***************************************************************************)
(* Theorems about ManualUploads, GraphTransport and FileNaming: for any    *)
(* number of drives, files, calls, folders, pieces and retries, any budget *)
(* and any file name rules.                                                *)
(***************************************************************************)
EXTENDS ManualUploads, GraphTransport, FileNaming, TLAPS, FiniteSetTheorems, WellFoundedInduction

----------------------------------------------------------------------------
(* Files uploaded by hand: definitions *)

\* What cursor c has passed on its drive is done, but for the files still to
\* be looked at or renamed, and is written down or among the lines to be
\* written.  Only on the drive in use are files looked at and renamed.
Passed(c, pending, lines) ==
    \A i \in {j \in Items : DriveOf[j] = c.drive} :
        /\ c.drive = target /\ <<"up", i>> \in c.seen \ before => Renamed(i) \/ Deleted(i) \/ i \in pending
        /\ <<"delete", i>> \in c.seen \ before => <<"delete", i>> \in audit \cup lapsed \cup lines

\* Lines of changes that the saved cursor has passed already.
DueLines == IF pass.stage = "auditing" THEN pass.lines ELSE {}

\* A pass without failure knows what the cursor it will save passes.
PassFits ==
    /\ pass.stage # "idle" => pass.next \in Cursors /\ pass.next.seen \subseteq happened
    /\ pass.stage = "renaming" /\ ~pass.failed => Passed(pass.next, pass.todo \cup pass.found, pass.lines)
    /\ pass.stage = "saving" => Passed(pass.next, {}, pass.lines)
    /\ pass.stage = "rebuilding" => pass.next.seen \subseteq before

\* A cursor names changes that happened, and the feature was not switched on
\* after the target was chosen.
CursorsFit ==
    /\ cursor.seen \cup kept.cursor.seen \subseteq happened
    /\ enabledAt \cup kept.enabledAt \subseteq before
    /\ before \subseteq happened

\* The inductive invariant: the cursor in memory and the one a pass is about to
\* save keep what is promised of the saved one.
ManualInv ==
    /\ ManualTypeOK /\ CursorsFit /\ PassFits
    /\ Passed(cursor, {}, DueLines) /\ Passed(kept.cursor, {}, DueLines)

----------------------------------------------------------------------------
(* Files uploaded by hand: lemmas *)

LEMMA PassedGrows ==
    ASSUME NEW c, NEW pending, NEW lines, NEW more, NEW rest, Passed(c, pending, lines),
           target' = target, happened \subseteq happened', before \subseteq before',
           audit \cup lapsed \cup lines \subseteq audit' \cup lapsed' \cup more,
           \A i \in pending : i \in rest \/ Renamed(i)' \/ Deleted(i)'
    PROVE  Passed(c, rest, more)'
BY DEF Passed, Renamed, Deleted

\* A cursor that passed nothing since the target was chosen.
LEMMA NewPassed ==
    ASSUME NEW c, NEW pending, NEW lines, c.seen \subseteq before
    PROVE  Passed(c, pending, lines)
BY DEF Passed

LEMMA ManualInvInit == ManualInit /\ NothingSpent => ManualInv
<1> SUFFICES ASSUME ManualInit PROVE ManualInv
  OBVIOUS
<1>1. ManualTypeOK
  BY DEF ManualInit, ManualTypeOK, Cursors, Pass, IdlePass
<1>2. CursorsFit /\ PassFits
  BY DEF ManualInit, CursorsFit, PassFits, IdlePass
<1>3. cursor.seen = {} /\ kept.cursor.seen = {}
  BY DEF ManualInit
<1> QED BY <1>1, <1>2, <1>3, NewPassed DEF ManualInv

LEMMA ManualTypeStep ==
    ManualTypeOK /\ PassFits /\ [ManualNext]_<<manualVars, spent>> => ManualTypeOK'
<1> SUFFICES ASSUME ManualTypeOK, PassFits, [ManualNext]_<<manualVars, spent>> PROVE ManualTypeOK'
  OBVIOUS
<1> USE DEF ManualTypeOK
<1>1. IdlePass \in Pass /\ pass \in Pass /\ (pass.stage # "idle" => pass.next \in Cursors)
  BY DEF IdlePass, Pass, PassFits
<1>2. CASE PassStarts
  <2> DEFINE window == (happened \cap On(cursor.drive)) \ cursor.seen
  <2>1. window \subseteq Changes
    OBVIOUS
  <2> HIDE DEF window
  <2>2. [cursor EXCEPT !.seen = @ \cup window] \in Cursors
    BY <2>1 DEF Cursors
  <2>3. Unnamed(window) \subseteq Items /\ DeletionsIn(window) \subseteq Lines
    <3>1. \A i \in Items : <<"delete", i>> \in Lines
      BY DEF Lines
    <3> QED BY <3>1 DEF Unnamed, DeletionsIn
  <2>4. pass' = [ stage |-> "renaming", todo |-> Unnamed(window), found |-> {}, failed |-> FALSE,
                  next  |-> [cursor EXCEPT !.seen = @ \cup window], lines |-> DeletionsIn(window) ]
    BY <1>2 DEF PassStarts, window
  <2>5. pass' \in Pass
    BY <2>2, <2>3, <2>4 DEF Pass
  <2> QED BY <1>2, <2>5 DEF PassStarts, history
<1>3. ASSUME NEW i \in Items, LookAt(i) \/ RenameItem(i) \/ RenameMisses(i) PROVE ManualTypeOK'
  <2>1. <<"name", i>> \in Changes /\ <<"name", i>> \in Lines
    BY DEF Changes, Lines
  <2>2. CASE LookAt(i)
    BY <1>1, <2>2 DEF LookAt, Pass, history
  <2>3. CASE RenameItem(i)
    BY <1>1, <2>1, <2>3 DEF RenameItem, Pass, history
  <2>4. CASE RenameMisses(i)
    <3>1. PICK over \in BOOLEAN : pass' = [pass EXCEPT !.found = @ \ {i}, !.failed = @ \/ ~over]
      BY <2>4 DEF RenameMisses
    <3>2. pass' \in Pass
      BY <1>1, <3>1 DEF Pass
    <3> QED BY <2>4, <3>2 DEF RenameMisses, history
  <2> QED BY <1>3, <2>2, <2>3, <2>4
<1>4. ASSUME NEW i \in Items, RenameFails(i) PROVE ManualTypeOK'
  BY <1>1, <1>4 DEF RenameFails, Pass, history
<1>5. Forgone \subseteq Lines
  BY <1>1 DEF Forgone, Pass
<1>6. CASE RenamesDone
  BY <1>1, <1>5, <1>6 DEF RenamesDone, Abandon, Pass
<1>7. ASSUME NEW c \in Cursors, Move(c)
      PROVE  /\ cursor' \in Cursors /\ kept' \in [cursor : Cursors, enabledAt : SUBSET Changes]
             /\ overtaken' \subseteq Drives
  BY <1>7 DEF Move
<1>8. CASE CursorSaved
  BY <1>1, <1>7, <1>8 DEF CursorSaved, Pass
<1>9. ASSUME NEW line \in Lines, AuditLine(line) PROVE ManualTypeOK'
  BY <1>1, <1>9 DEF AuditLine, Pass
<1>10. CASE PassFails
  BY <1>1, <1>5, <1>10 DEF PassFails, Abandon
<1>11. CASE CursorExpires
  BY <1>1, <1>11 DEF CursorExpires, IdlePass, Pass, Rebuilt, Cursors, history
<1>12. CASE RebuiltSaved
  BY <1>1, <1>7, <1>12 DEF RebuiltSaved
<1>13. ASSUME NEW i \in Items, ManualUpload(i) \/ ManualDelete(i) PROVE ManualTypeOK'
  BY <1>13 DEF ManualUpload, ManualDelete, Changes, history
<1>14. ASSUME NEW d \in Drives, ResetForTarget(d) PROVE ManualTypeOK'
  BY <1>14 DEF ResetForTarget, Cursors
<1>15. CASE ResetSaves
  BY <1>15 DEF ResetSaves, history
<1>16. CASE ResetFails
  BY <1>16 DEF ResetFails, history
<1>17. CASE ManualCrash
  BY <1>1, <1>5, <1>17 DEF ManualCrash, Abandon
<1>18. CASE UNCHANGED <<manualVars, spent>>
  BY <1>18 DEF manualVars, history
<1> QED BY <1>2, <1>3, <1>4, <1>6, <1>8, <1>9, <1>10, <1>11, <1>12, <1>13, <1>14, <1>15, <1>16, <1>17, <1>18
        DEF ManualNext, PassStep

\* Cursors, times and promises through every step but the types.
LEMMA ManualInvStep == ManualInv /\ [ManualNext]_<<manualVars, spent>> => ManualInv'
<1> SUFFICES ASSUME ManualInv, [ManualNext]_<<manualVars, spent>> PROVE ManualInv'
  OBVIOUS
<1>1. ManualTypeOK /\ CursorsFit /\ PassFits /\ Passed(cursor, {}, DueLines) /\ Passed(kept.cursor, {}, DueLines)
  BY DEF ManualInv
<1>2. ManualTypeOK'
  BY <1>1, ManualTypeStep
<1>3. pass \in Pass /\ cursor \in Cursors /\ pass.lines \subseteq Lines /\ pass.todo \subseteq Items /\ pass.found \subseteq Items
      /\ kept \in [cursor : Cursors, enabledAt : SUBSET Changes]
  BY <1>1 DEF ManualTypeOK, Pass
\* A step that leaves the cursors alone, and forgets no line that is due.
<1>4. ASSUME UNCHANGED <<target, cursor, kept, enabledAt, before>>, happened \subseteq happened',
             audit \cup lapsed \cup DueLines \subseteq audit' \cup lapsed' \cup DueLines', PassFits'
      PROVE  ManualInv'
  <2>1. CursorsFit'
    BY <1>1, <1>4 DEF CursorsFit
  <2>2. Passed(cursor, {}, DueLines)' /\ Passed(kept.cursor, {}, DueLines)'
    BY <1>1, <1>4 DEF Passed, Renamed, Deleted
  <2> QED BY <1>2, <1>4, <2>1, <2>2 DEF ManualInv
\* An idle reconciler has promised nothing.
<1>5. ASSUME pass' = IdlePass PROVE PassFits' /\ DueLines' = {}
  BY <1>5 DEF PassFits, IdlePass, DueLines
\* A pass that ends early.
<1>6. ASSUME Abandon PROVE PassFits' /\ lapsed \cup DueLines \subseteq lapsed' \cup DueLines'
  BY <1>5, <1>6 DEF Abandon, DueLines, Forgone
<1>7. CASE PassStarts
  <2> DEFINE window == (happened \cap On(cursor.drive)) \ cursor.seen
             next == [cursor EXCEPT !.seen = @ \cup window]
  <2>1. /\ pass.stage = "idle" /\ pass'.stage = "renaming" /\ pass'.next = next
        /\ pass'.todo = Unnamed(window) /\ pass'.found = {} /\ pass'.lines = DeletionsIn(window)
        /\ UNCHANGED <<happened, target, cursor, enabledAt, kept, reset, audit, lapsed, before>>
    BY <1>7 DEF PassStarts, history
  <2>2. next \in Cursors /\ next.seen = cursor.seen \cup window /\ next.drive = cursor.drive
    BY <1>1, <1>3 DEF Cursors, ManualTypeOK
  <2>3. next.seen \subseteq happened
    BY <1>1, <2>2 DEF CursorsFit
  <2>4. Passed(next, Unnamed(window), DeletionsIn(window))
    <3>1. ASSUME NEW i \in Items, <<"up", i>> \in window \ before PROVE Renamed(i) \/ Deleted(i) \/ i \in Unnamed(window)
      <4>1. <<"up", i>>[2] = i /\ <<"up", i>> \notin enabledAt /\ Uploaded(i)
        BY <1>1, <3>1 DEF CursorsFit, Uploaded
      <4> QED BY <3>1, <4>1 DEF Unnamed
    <3>2. ASSUME NEW i \in Items, <<"delete", i>> \in window PROVE <<"delete", i>> \in DeletionsIn(window)
      BY <3>2 DEF DeletionsIn
    <3>3. Passed(cursor, {}, {})
      BY <1>1, <2>1 DEF DueLines
    <3> HIDE DEF window, next
    <3> QED BY <2>2, <3>1, <3>2, <3>3 DEF Passed
  <2> HIDE DEF window, next
  <2>5. PassFits'
    BY <2>1, <2>2, <2>3, <2>4 DEF PassFits, Passed, Renamed, Deleted
  <2>6. DueLines = {}
    BY <2>1 DEF DueLines
  <2> QED BY <1>4, <2>1, <2>5, <2>6
\* A file less is awaited: it is being renamed, has its name, or is not on the
\* drive in use.
<1>8. ASSUME NEW i \in Items, LookAt(i) \/ RenameItem(i) \/ RenameMisses(i) PROVE ManualInv'
  <2>1. /\ pass.stage = "renaming" /\ pass'.stage = "renaming" /\ pass'.next = pass.next
        /\ pass.lines \subseteq pass'.lines /\ (~pass'.failed => ~pass.failed) /\ happened \subseteq happened'
        /\ UNCHANGED <<target, cursor, enabledAt, kept, reset, audit, lapsed, before>>
        /\ pass.todo \cup pass.found \subseteq pass'.todo \cup pass'.found \cup {i}
    <3>1. CASE LookAt(i)
      BY <1>3, <3>1 DEF LookAt, Pass, history
    <3>2. CASE RenameItem(i)
      BY <1>3, <3>2 DEF RenameItem, Renaming, Pass, history
    <3>3. CASE RenameMisses(i)
      <4>1. PICK over \in BOOLEAN : pass' = [pass EXCEPT !.found = @ \ {i}, !.failed = @ \/ ~over]
        BY <3>3 DEF RenameMisses
      <4>2. /\ pass'.stage = pass.stage /\ pass'.next = pass.next /\ pass'.todo = pass.todo
            /\ pass'.found = pass.found \ {i} /\ pass'.lines = pass.lines
            /\ (pass'.failed <=> pass.failed \/ ~over)
        BY <1>3, <4>1 DEF Pass
      <4> QED BY <3>3, <4>2 DEF RenameMisses, Renaming, history
    <3> QED BY <1>8, <3>1, <3>2, <3>3
  <2>2. i \in pass'.found \/ Renamed(i)' \/ Deleted(i)' \/ DriveOf[i] # target
    <3>1. CASE LookAt(i) /\ There(i)
      BY <1>3, <3>1 DEF LookAt, Pass
    <3>2. CASE RenameItem(i)
      BY <3>2 DEF RenameItem, Renamed
    <3>3. CASE ~There(i)
      BY <2>1, <3>3 DEF There, Deleted
    <3> QED BY <1>8, <3>1, <3>2, <3>3 DEF RenameMisses
  <2>3. PassFits'
    BY <1>1, <2>1, <2>2 DEF PassFits, Passed, Renamed, Deleted
  <2> QED BY <1>4, <2>1, <2>3 DEF DueLines
<1>9. ASSUME NEW i \in Items, RenameFails(i) PROVE ManualInv'
  <2>1. /\ pass.stage = "renaming" /\ pass'.stage = "renaming" /\ pass'.next = pass.next /\ pass'.failed
        /\ UNCHANGED <<happened, target, cursor, enabledAt, kept, reset, audit, lapsed, before>>
    BY <1>3, <1>9 DEF RenameFails, Renaming, Pass, history
  <2>2. PassFits'
    BY <1>1, <2>1 DEF PassFits
  <2> QED BY <1>4, <2>1, <2>2 DEF DueLines
<1>10. CASE RenamesDone
  <2>1. /\ pass.stage = "renaming" /\ pass.todo = {} /\ pass.found = {} /\ DueLines = {}
        /\ UNCHANGED <<happened, target, cursor, enabledAt, kept, reset, audit, before>>
    BY <1>10 DEF RenamesDone, DueLines
  <2>2. CASE Advances
    <3>1. /\ pass'.stage = "saving" /\ pass'.next = pass.next /\ pass'.lines = pass.lines
          /\ UNCHANGED lapsed /\ Passed(pass.next, {}, pass.lines)
      BY <1>1, <1>3, <1>10, <2>1, <2>2 DEF RenamesDone, Advances, Pass, PassFits
    <3>2. PassFits'
      BY <1>1, <2>1, <3>1 DEF PassFits, Passed, Renamed, Deleted
    <3> QED BY <1>4, <2>1, <3>1, <3>2
  <2>3. CASE ~Advances
    BY <1>4, <1>6, <1>10, <2>1, <2>3 DEF RenamesDone
  <2> QED BY <2>2, <2>3
\* The cursor that was saved is the one whose pass is over.
<1>11. ASSUME NEW lines, Move(pass.next), Passed(pass.next, {}, lines), lines \subseteq DueLines', PassFits',
              pass.next \in Cursors, pass.next.seen \subseteq happened,
              UNCHANGED <<happened, target, enabledAt, audit, lapsed, before>>
       PROVE  ManualInv'
  <2>1. cursor' = pass.next /\ kept'.cursor = pass.next /\ kept'.enabledAt = kept.enabledAt
    BY <1>3, <1>11 DEF Move
  <2>2. CursorsFit'
    BY <1>1, <1>11, <2>1 DEF CursorsFit
  <2>3. Passed(pass.next, {}, DueLines')
    BY <1>11 DEF Passed
  <2>4. Passed(cursor, {}, DueLines)' /\ Passed(kept.cursor, {}, DueLines)'
    BY <1>11, <2>1, <2>3 DEF Passed, Renamed, Deleted
  <2> QED BY <1>2, <1>11, <2>2, <2>4 DEF ManualInv
<1>12. CASE CursorSaved
  <2>1. /\ pass.stage = "saving" /\ Move(pass.next) /\ pass.next \in Cursors /\ pass.next.seen \subseteq happened
        /\ Passed(pass.next, {}, pass.lines) /\ UNCHANGED <<happened, target, enabledAt, audit, lapsed, before>>
    BY <1>1, <1>12 DEF CursorSaved, PassFits, Cursors
  <2>2. CASE pass.lines = {}
    BY <1>5, <1>11, <1>12, <2>1, <2>2 DEF CursorSaved
  <2>3. CASE pass.lines # {}
    <3>1. pass'.stage = "auditing" /\ pass'.lines = pass.lines /\ pass'.next = pass.next
      BY <1>3, <1>12, <2>3 DEF CursorSaved, Pass
    <3>2. PassFits' /\ DueLines' = pass.lines
      BY <2>1, <3>1 DEF PassFits, DueLines
    <3> QED BY <1>11, <2>1, <3>2
  <2> QED BY <2>2, <2>3
<1>13. ASSUME NEW line \in Lines, AuditLine(line) PROVE ManualInv'
  <2>1. /\ pass.stage = "auditing" /\ DueLines = pass.lines
        /\ audit \cup lapsed \cup {line} \subseteq audit' \cup lapsed'
        /\ UNCHANGED <<happened, target, cursor, enabledAt, kept, reset, before>>
    BY <1>13 DEF AuditLine, DueLines
  <2>2. CASE pass' = IdlePass /\ pass.lines = {line}
    BY <1>4, <1>5, <2>1, <2>2
  <2>3. CASE pass' = [pass EXCEPT !.lines = @ \ {line}]
    <3>1. pass'.stage = "auditing" /\ pass'.lines = pass.lines \ {line} /\ pass'.next = pass.next
      BY <1>3, <2>1, <2>3 DEF Pass
    <3>2. PassFits' /\ DueLines' = pass.lines \ {line}
      BY <1>1, <2>1, <3>1 DEF PassFits, DueLines
    <3> QED BY <1>4, <2>1, <3>2
  <2> QED BY <1>13, <2>2, <2>3 DEF AuditLine
<1>14. CASE PassFails
  BY <1>4, <1>6, <1>14 DEF PassFails
<1>15. CASE CursorExpires
  <2>1. /\ pass.stage = "idle" /\ UNCHANGED <<happened, target, cursor, enabledAt, kept, reset, audit, lapsed, before>>
        /\ pass'.stage = "rebuilding" /\ pass'.next = Rebuilt
    BY <1>15 DEF CursorExpires, IdlePass, history
  <2>2. Rebuilt \in Cursors /\ Rebuilt.seen \subseteq before /\ Rebuilt.seen \subseteq happened
    BY <1>1 DEF Rebuilt, Cursors, ManualTypeOK, CursorsFit
  <2>3. PassFits'
    BY <2>1, <2>2 DEF PassFits
  <2>4. DueLines = {}
    BY <2>1 DEF DueLines
  <2> QED BY <1>4, <2>1, <2>3, <2>4
<1>16. CASE RebuiltSaved
  <2>1. /\ Move(pass.next) /\ pass.next \in Cursors /\ pass.next.seen \subseteq before
        /\ pass.next.seen \subseteq happened
        /\ pass' = IdlePass /\ UNCHANGED <<happened, target, enabledAt, audit, lapsed, before>>
    BY <1>1, <1>16 DEF RebuiltSaved, PassFits, CursorsFit
  <2> QED BY <1>5, <1>11, <2>1, NewPassed
<1>17. ASSUME NEW i \in Items, ManualUpload(i) \/ ManualDelete(i) PROVE ManualInv'
  <2>1. /\ happened \subseteq happened'
        /\ UNCHANGED <<target, cursor, enabledAt, kept, pass, reset, audit, lapsed, before>>
    BY <1>17 DEF ManualUpload, ManualDelete, history
  <2>2. PassFits'
    BY <1>1, <2>1 DEF PassFits, Passed, Renamed, Deleted
  <2> QED BY <1>4, <2>1, <2>2 DEF DueLines
<1>18. ASSUME NEW d \in Drives, ResetForTarget(d) PROVE ManualInv'
  <2>1. /\ enabledAt' = happened /\ cursor' = [drive |-> d, seen |-> happened] /\ before' = happened
        /\ UNCHANGED <<happened, kept, pass, audit, lapsed>>
    BY <1>18 DEF ResetForTarget
  <2>2. CursorsFit'
    BY <1>1, <2>1 DEF CursorsFit
  <2>3. \A c : c.seen \subseteq happened => \A pending, lines : Passed(c, pending, lines)'
    BY <2>1 DEF Passed
  <2>4. PassFits'
    BY <1>1, <2>1, <2>3 DEF PassFits, CursorsFit
  <2>5. cursor'.seen \subseteq happened /\ kept'.cursor.seen \subseteq happened
    BY <1>1, <2>1 DEF CursorsFit
  <2>6. Passed(cursor, {}, DueLines)' /\ Passed(kept.cursor, {}, DueLines)'
    BY <2>1, <2>5 DEF Passed
  <2> QED BY <1>2, <2>2, <2>4, <2>6 DEF ManualInv
\* Memory is saved or read back.
<1>19. ASSUME cursor' \in {cursor, kept.cursor}, kept'.cursor \in {cursor, kept.cursor},
              {enabledAt', kept'.enabledAt} \subseteq {enabledAt, kept.enabledAt}, PassFits',
              lapsed \cup DueLines \subseteq lapsed' \cup DueLines', UNCHANGED <<happened, target, audit, before>>
       PROVE  ManualInv'
  <2>1. CursorsFit'
    BY <1>1, <1>19 DEF CursorsFit
  <2>2. Passed(cursor, {}, DueLines)' /\ Passed(kept.cursor, {}, DueLines)'
    BY <1>1, <1>19 DEF Passed, Renamed, Deleted
  <2> QED BY <1>2, <1>19, <2>1, <2>2 DEF ManualInv
<1>20. CASE ResetSaves \/ ResetFails
  <2>1. UNCHANGED <<happened, target, cursor, enabledAt, pass, audit, lapsed, before>>
    BY <1>20 DEF ResetSaves, ResetFails, history
  <2>2. kept'.cursor \in {cursor, kept.cursor} /\ kept'.enabledAt \in {enabledAt, kept.enabledAt}
    BY <1>3, <1>20 DEF ResetSaves, ResetFails
  <2>3. PassFits'
    BY <1>1, <2>1 DEF PassFits, Passed, Renamed, Deleted
  <2> QED BY <1>19, <2>1, <2>2, <2>3 DEF DueLines
<1>21. CASE ManualCrash
  BY <1>6, <1>19, <1>21 DEF ManualCrash
<1>22. CASE UNCHANGED <<manualVars, spent>>
  <2>1. PassFits'
    BY <1>1, <1>22 DEF PassFits, Passed, Renamed, Deleted, manualVars, history
  <2> QED BY <1>4, <1>22, <2>1 DEF manualVars, history, DueLines
<1> QED BY <1>7, <1>8, <1>9, <1>10, <1>12, <1>13, <1>14, <1>15, <1>16, <1>17, <1>18, <1>20, <1>21, <1>22
        DEF ManualNext, PassStep

LEMMA ManualInvAlways == ManualSpec => []ManualInv
BY ManualInvInit, ManualInvStep, PTL DEF ManualSpec

\* Cursors, passes, the audit file and what a reset has left to save keep to
\* their types.
THEOREM ManualTypeCorrect == ManualSpec => []ManualTypeOK
<1>1. ManualInv => ManualTypeOK
  BY DEF ManualInv
<1> QED BY <1>1, ManualInvAlways, PTL

\* While it is of the drive in use, the saved cursor never passes a file that
\* still has the name it was uploaded with; and of whatever drive, never a
\* deletion nobody writes down.  For any number of drives and files, and also
\* when renames fail, when a pass overtakes changes of the target, and when the
\* cursor expires or the server restarts at any point.
THEOREM CursorPassesNothingAlways == ManualSpec => []CursorPassesNothing
<1>1. ManualInv => CursorPassesNothing
  BY DEF ManualInv, CursorPassesNothing, Passed, DueLines
<1> QED BY <1>1, ManualInvAlways, PTL

----------------------------------------------------------------------------
(* Calls of Graph: definitions *)

TransportSpec == TransportInit /\ NothingSpent /\ [][TransportNext]_<<transportVars, spent>>

Ended(r) == r.at \in {"done", "failed"}

\* The requests each kind of call is made of.
NeedsOf(w) == CASE w = "folder"  -> {"create", "existing"}
                [] w = "small"   -> {"put"}
                [] w = "large"   -> {"session", "piece"}
                [] w = "listing" -> {"page"}
                [] w = "target"  -> {"teams", "channels", "filesFolder",
                                     "teamSite", "driveRoot", "channelFolder"}

\* The requests of a call are its own, about levels and pieces there are, and
\* sources of the site id are asked in turn.
CallShape(r) ==
    /\ r.need \in NeedsOf(r.work)
    /\ r.work \in {"small", "large"} <=> r.name \in FileNames
    /\ r.need \in {"create", "existing"} => r.n \in 1 .. Levels
    /\ r.need \in {"session", "piece"} => r.n \in 1 .. Pieces
    /\ ~Ended(r) => r.refused = CASE r.need = "driveRoot"     -> 1
                                  [] r.need = "channelFolder" -> 2
                                  [] OTHER -> 0

\* Every try before this one is one that Graph did not answer.
CallFits(r) == CallShape(r) /\ r.attempt = r.unanswered

\* A listing has what was there when it began, as far as it has read.
ListingFits(r) ==
    /\ r.there \subseteq Present
    /\ r.work = "listing" =>
         /\ r.at = "done" => r.there \subseteq r.found
         /\ ~Ended(r) => r.n = 1 \/ (r.n = 2 /\ r.there \ LateNames \subseteq r.found)

\* The inductive invariant: no file is in a folder that is not made, and every
\* call is as its requests so far have left it.
TransportInv ==
    /\ TransportTypeOK
    /\ made < Levels => Present = {}
    /\ \A c \in Calls : calls[c] # None =>
          /\ CallFits(calls[c]) /\ ListingFits(calls[c])
          /\ calls[c].work \in {"small", "large"} => made = Levels
          /\ calls[c].at = "failed" => c \in excused

\* Call c goes on from r as q, which has no file to show for it.
Carries(c, r, q) ==
    /\ q \in Call /\ calls' = [calls EXCEPT ![c] = q]
    /\ CallFits(q) /\ ListingFits(q) /\ q.work = r.work /\ q.name = r.name
    /\ q.at # "done" \/ q.work = "folder"
    /\ q.at = "failed" => c \in excused'
    /\ excused \subseteq excused' /\ excused' \subseteq Calls

\* A step of call c: what it becomes, and what its upload may do to the folder.
Goes(c, q) ==
    /\ calls[c] # None /\ ~Ended(calls[c])
    /\ q \in Call /\ calls' = [calls EXCEPT ![c] = q]
    /\ q.work = calls[c].work /\ q.name = calls[c].name
    /\ CallFits(q) /\ ListingFits(q)
    /\ q.at = "failed" => c \in excused'
    /\ excused \subseteq excused' /\ excused' \subseteq Calls
    /\ \/ UNCHANGED library
       \/ /\ q.work \in {"small", "large"} /\ library[q.name] = None
          /\ library' = [library EXCEPT ![q.name] = c]
    /\ q.at = "done" /\ q.work \in {"small", "large"} => library'[q.name] = c
    /\ made' \in made .. Levels
    /\ cached' \in 0 .. Lifetime \cup {None}

----------------------------------------------------------------------------
(* Calls of Graph: lemmas *)

LEMMA TurnsSay ==
    ASSUME NEW r \in Call, NEW need \in Needs, NEW n \in 1 .. (Levels + Pieces + 2)
    PROVE  LET t == Turns(r, need, n)
           IN  /\ t \in Call /\ t.need = need /\ t.n = n /\ t.at = "start" /\ t.token = None
               /\ t.attempt = 0 /\ t.unanswered = 0 /\ t.work = r.work /\ t.name = r.name
               /\ t.refused = r.refused /\ t.found = r.found /\ t.there = r.there
<1>1. 0 \in 0 .. MaxRetries /\ 0 \in 0 .. (MaxRetries + 1)
  BY GraphTransportAssumption
<1> QED BY <1>1 DEF Turns, Call

LEMMA EndsSay ==
    ASSUME NEW r \in Call, NEW how \in {"done", "failed"}
    PROVE  LET e == Ends(r, how)
           IN  /\ e \in Call /\ e.at = how /\ e.n = 1 /\ e.attempt = 0 /\ e.unanswered = 0 /\ e.token = None
               /\ e.work = r.work /\ e.name = r.name /\ e.need = r.need
               /\ e.found = r.found /\ e.there = r.there
<1>1. /\ 0 \in 0 .. MaxRetries /\ 0 \in 0 .. (MaxRetries + 1) /\ 0 \in 0 .. Pieces /\ 0 \in 0 .. 3
      /\ 1 \in 1 .. (Levels + Pieces + 2)
  BY GraphTransportAssumption
<1> QED BY <1>1 DEF Ends, Call

LEMMA TransportInvInit == TransportInit /\ NothingSpent => TransportInv
BY GraphTransportAssumption DEF TransportInit, TransportInv, TransportTypeOK, Present

\* What a request that fails for good leaves: the next source or folder, or a
\* call that failed with cause.
LEMMA FailsFit ==
    ASSUME NEW c \in Calls, excused \subseteq Calls, NEW r \in Call, r.at \in {"token", "sent"},
           CallShape(r), ListingFits(r), Fails(c, r, TRUE)
    PROVE  \E q : Carries(c, r, q)
<1> DEFINE s == [r EXCEPT !.refused = IF r.need \in SiteSources THEN r.refused + 1 ELSE r.refused]
<1>0. Levels \in Nat \ {0} /\ Pieces \in Nat \ {0}
  BY GraphTransportAssumption
<1>1. r.work \in Works /\ r.need \in Needs
  BY DEF Call
<1>2. ~Ended(r) /\ r.refused \in 0 .. 2
  BY <1>1 DEF CallShape, Ended
<1>3. /\ s \in Call /\ s.need = r.need /\ s.at = r.at /\ s.work = r.work /\ s.name = r.name /\ s.n = r.n
      /\ s.found = r.found /\ s.there = r.there
      /\ s.refused = IF r.need \in SiteSources THEN r.refused + 1 ELSE r.refused
  BY <1>2 DEF Call
<1>4. calls' = [calls EXCEPT ![c] = AfterRefusal(s)]
  BY DEF Fails, Call
<1>5. excused' = IF r.need \in SiteSources => r.refused = 2 THEN excused \cup {c} ELSE excused
  BY DEF Fails
<1> HIDE DEF s
<1>6. ASSUME NEW q \in Call, AfterRefusal(s) = q, CallFits(q), ListingFits(q), q.work = r.work, q.name = r.name,
             q.at # "done" \/ q.work = "folder", q.at = "failed" => (r.need \in SiteSources => r.refused = 2)
      PROVE  \E p : Carries(c, r, p)
  BY <1>4, <1>5, <1>6 DEF Carries
<1>7. CASE \/ r.at = "token" /\ r.need \notin {"teamSite", "driveRoot"}
           \/ r.at = "sent" /\ r.need \notin {"teamSite", "driveRoot", "existing"}
  <2> DEFINE q == Ends(s, "failed")
  <2>1. AfterRefusal(s) = q
    BY <1>3, <1>7 DEF AfterRefusal
  <2>2. /\ q \in Call /\ q.at = "failed" /\ q.n = 1 /\ q.attempt = 0 /\ q.unanswered = 0
        /\ q.work = r.work /\ q.name = r.name /\ q.need = r.need /\ q.found = r.found /\ q.there = r.there
    BY <1>1, <1>3, EndsSay, GraphTransportAssumption
  <2> HIDE DEF q
  <2>3. CallFits(q) /\ ListingFits(q)
    BY <1>0, <2>2 DEF CallFits, CallShape, ListingFits, Ended
  <2>4. r.need \in SiteSources => r.refused = 2
    BY <1>2, <1>7 DEF CallShape, SiteSources
  <2> QED BY <1>6, <2>1, <2>2, <2>3, <2>4
<1>8. CASE r.at = "sent" /\ r.need = "existing"
  <2>1. r.work = "folder" /\ r.n \in 1 .. Levels /\ r.refused = 0 /\ s.refused = 0
    BY <1>1, <1>2, <1>3, <1>8 DEF CallShape, NeedsOf, Works, SiteSources
  <2>2. CASE r.n < Levels
    <3> DEFINE q == Turns(s, "create", r.n + 1)
    <3>1. AfterRefusal(s) = q
      BY <1>3, <1>8, <2>2 DEF AfterRefusal
    <3>2. r.n + 1 \in 1 .. Levels /\ r.n + 1 \in 1 .. (Levels + Pieces + 2) /\ "create" \in Needs
      BY <1>0, <2>1, <2>2 DEF Needs
    <3>3. /\ q \in Call /\ q.at = "start" /\ q.n = r.n + 1 /\ q.attempt = 0 /\ q.unanswered = 0
          /\ q.work = r.work /\ q.name = r.name /\ q.need = "create" /\ q.refused = 0
          /\ q.found = r.found /\ q.there = r.there
      BY <1>3, <2>1, <3>2, TurnsSay
    <3> HIDE DEF q
    <3>4. CallFits(q) /\ ListingFits(q)
      BY <2>1, <3>2, <3>3 DEF CallFits, CallShape, ListingFits, Ended, NeedsOf
    <3> QED BY <1>6, <3>1, <3>3, <3>4
  <2>3. CASE ~(r.n < Levels)
    <3> DEFINE q == Ends(s, "done")
    <3>1. AfterRefusal(s) = q
      BY <1>3, <1>8, <2>3 DEF AfterRefusal
    <3>2. /\ q \in Call /\ q.at = "done" /\ q.n = 1 /\ q.attempt = 0 /\ q.unanswered = 0
          /\ q.work = r.work /\ q.name = r.name /\ q.need = r.need /\ q.found = r.found /\ q.there = r.there
      BY <1>1, <1>3, EndsSay, GraphTransportAssumption
    <3> HIDE DEF q
    <3>3. CallFits(q) /\ ListingFits(q)
      BY <1>0, <2>1, <3>2 DEF CallFits, CallShape, ListingFits, Ended
    <3> QED BY <1>6, <2>1, <3>1, <3>2, <3>3
  <2> QED BY <2>2, <2>3
<1>9. CASE r.need \in {"teamSite", "driveRoot"}
  <2> DEFINE next == IF r.need = "teamSite" THEN "driveRoot" ELSE "channelFolder"
             q == Turns(s, next, 1)
  <2>1. r.work = "target" /\ s.refused = IF r.need = "teamSite" THEN 1 ELSE 2
    BY <1>1, <1>2, <1>3, <1>9 DEF CallShape, NeedsOf, Works, SiteSources
  <2>2. AfterRefusal(s) = q
    BY <1>3, <1>9 DEF AfterRefusal
  <2>3. next \in Needs /\ 1 \in 1 .. (Levels + Pieces + 2)
    BY <1>0 DEF Needs
  <2>4. /\ q \in Call /\ q.at = "start" /\ q.n = 1 /\ q.attempt = 0 /\ q.unanswered = 0
        /\ q.work = r.work /\ q.name = r.name /\ q.need = next /\ q.refused = s.refused
        /\ q.found = r.found /\ q.there = r.there
    BY <1>3, <2>3, TurnsSay
  <2> HIDE DEF q
  <2>5. CallFits(q) /\ ListingFits(q)
    BY <1>9, <2>1, <2>4 DEF CallFits, CallShape, ListingFits, Ended, NeedsOf
  <2> QED BY <1>6, <2>2, <2>4, <2>5
<1>10. \/ r.need \in {"teamSite", "driveRoot"}
       \/ r.at = "sent" /\ r.need = "existing"
       \/ r.at = "token" /\ r.need \notin {"teamSite", "driveRoot"}
       \/ r.at = "sent" /\ r.need \notin {"teamSite", "driveRoot", "existing"}
  OBVIOUS
<1> QED BY <1>7, <1>8, <1>9, <1>10

\* A try that was not answered: another one follows, or the request has failed.
LEMMA TriesAgainFits ==
    ASSUME NEW c \in Calls, excused \subseteq Calls, NEW r \in Call, r.at \in {"token", "sent"},
           CallFits(r), ListingFits(r), TriesAgain(c, r)
    PROVE  \E q : Carries(c, r, q)
<1>1. MaxRetries \in Nat /\ r.attempt \in 0 .. MaxRetries /\ r.unanswered = r.attempt
  BY GraphTransportAssumption DEF Call, CallFits
<1> DEFINE w == [r EXCEPT !.unanswered = r.unanswered + 1]
<1>2. /\ w \in Call /\ w.need = r.need /\ w.at = r.at /\ w.work = r.work /\ w.name = r.name /\ w.n = r.n
      /\ w.found = r.found /\ w.there = r.there /\ w.refused = r.refused /\ w.attempt = r.attempt
      /\ w.unanswered = r.unanswered + 1 /\ Waited(r) = w
  BY <1>1 DEF Call, Waited
<1> HIDE DEF w
<1>3. CASE MayRetry(r)
  <2> DEFINE q == [w EXCEPT !.attempt = r.attempt + 1]
  <2>1. calls' = [calls EXCEPT ![c] = q] /\ excused' = excused
    BY <1>2, <1>3 DEF TriesAgain
  <2>2. r.attempt + 1 \in 0 .. MaxRetries
    BY <1>1, <1>3 DEF MayRetry
  <2>3. /\ q \in Call /\ q.need = r.need /\ q.at = r.at /\ q.work = r.work /\ q.name = r.name /\ q.n = r.n
        /\ q.found = r.found /\ q.there = r.there /\ q.refused = r.refused /\ q.attempt = q.unanswered
    BY <1>1, <1>2, <2>2 DEF Call
  <2> HIDE DEF q
  <2>4. CallFits(q) /\ ListingFits(q)
    BY <2>3 DEF CallFits, CallShape, ListingFits, Ended
  <2> QED BY <2>1, <2>3, <2>4 DEF Carries
<1>4. CASE ~MayRetry(r)
  <2>1. Silent(r)
    BY <1>1, <1>2, <1>4 DEF Silent, MayRetry
  <2>2. CallShape(w) /\ ListingFits(w)
    BY <1>2 DEF CallFits, CallShape, ListingFits, Ended
  <2>3. Silent(r) = TRUE
    BY <2>1 DEF Silent
  <2>4. Fails(c, w, TRUE)
    BY <1>2, <1>4, <2>3 DEF TriesAgain
  <2>5. w \in Call /\ w.at \in {"token", "sent"}
    BY <1>2
  <2>6. PICK q : Carries(c, w, q)
    BY <2>2, <2>4, <2>5, FailsFit
  <2> QED BY <1>2, <2>6 DEF Carries
<1> QED BY <1>3, <1>4

\* One call's step but its start, whatever Graph answers.
OtherStep(c) == CallStep(c) \/ Throttled(c) \/ LookupThrown(c) \/ Refused(c) \/ AnswerLost(c)

LEMMA CallGoes ==
    ASSUME TransportInv, NEW c \in Calls, OtherStep(c)
    PROVE  \E q : Goes(c, q)
<1> DEFINE r == calls[c]
<1>1. /\ r # None /\ r \in Call /\ CallFits(r) /\ CallShape(r) /\ ListingFits(r) /\ excused \subseteq Calls
      /\ made \in 0 .. Levels /\ cached \in 0 .. Lifetime \cup {None}
      /\ r.work \in Works /\ r.need \in Needs /\ r.n \in 1 .. (Levels + Pieces + 2)
      /\ r.attempt \in 0 .. MaxRetries /\ r.got \in 0 .. Pieces
      /\ r.at = "start" \/ r.at = "token" \/ r.at = "sent" => ~Ended(r)
      /\ r.at \in {"start", "token", "sent"}
  <2>1. r # None /\ r.at \in {"start", "token", "sent"}
    BY DEF OtherStep, CallStep, Send, TokenIssued, TokenDies, MakesFolder, FolderRead, PutsFile, OpensSession,
           TakesPiece, ReadsPage, Looks, Throttled, LookupThrown, Refused, AnswerLost, Heard
  <2>2. r \in Call
    BY <2>1 DEF TransportInv, TransportTypeOK
  <2> QED BY <2>1, <2>2 DEF TransportInv, TransportTypeOK, Call, CallFits, Ended
<1>2. Levels \in Nat \ {0} /\ Pieces \in Nat \ {0} /\ Lifetime \in Nat
  BY GraphTransportAssumption
<1>3. made \in made .. Levels
  BY <1>1, <1>2
\* A step that goes on with or ends a call, and leaves the folder alone.
<1>4. ASSUME NEW q, Carries(c, r, q), UNCHANGED library, made' \in made .. Levels,
             cached' \in 0 .. Lifetime \cup {None}
      PROVE  \E p : Goes(c, p)
  <2>1. q.work \notin {"small", "large"} \/ q.at # "done"
    BY <1>4 DEF Carries
  <2>2. ~Ended(r)
    BY <1>1
  <2> QED BY <1>1, <1>4, <2>1, <2>2 DEF Goes, Carries
<1>5. ASSUME NEW q \in Call, calls' = [calls EXCEPT ![c] = q], UNCHANGED excused,
             q.work = r.work, q.name = r.name, CallFits(q), ListingFits(q), q.at # "failed",
             \/ UNCHANGED library
             \/ /\ q.work \in {"small", "large"} /\ library[q.name] = None
                /\ library' = [library EXCEPT ![q.name] = c],
             q.at = "done" /\ q.work \in {"small", "large"} => library'[q.name] = c,
             made' \in made .. Levels, cached' \in 0 .. Lifetime \cup {None}
      PROVE  \E p : Goes(c, p)
  BY <1>1, <1>5 DEF Goes
\* A request that fails leaves the folder alone.
<1>6. ASSUME Fails(c, r, TRUE), r.at \in {"token", "sent"}, UNCHANGED <<library, made, cached>>
      PROVE  \E p : Goes(c, p)
  <2>1. PICK q : Carries(c, r, q)
    BY <1>1, <1>6, FailsFit
  <2> QED BY <1>1, <1>3, <1>4, <1>6, <2>1
\* The next request, or the end, of a call that is not an upload.
<1>7. ASSUME NEW need \in NeedsOf(r.work), need \in Needs, NEW n \in 1 .. (Levels + Pieces + 2),
             calls' = [calls EXCEPT ![c] = Turns(r, need, n)],
             need \in {"create", "existing"} => n \in 1 .. Levels,
             need \notin {"session", "piece", "page", "driveRoot", "channelFolder"},
             r.need \notin {"driveRoot", "channelFolder"}, r.work # "listing",
             UNCHANGED <<library, cached, excused>>, made' \in made .. Levels
      PROVE  \E p : Goes(c, p)
  <2> DEFINE q == Turns(r, need, n)
  <2>1. /\ q \in Call /\ q.need = need /\ q.n = n /\ q.at = "start" /\ q.attempt = 0 /\ q.unanswered = 0
        /\ q.work = r.work /\ q.name = r.name /\ q.refused = r.refused /\ q.found = r.found /\ q.there = r.there
    BY SMTT(30), <1>1, <1>7, TurnsSay
  <2> HIDE DEF q
  <2>2. CallFits(q) /\ ListingFits(q)
    BY <1>1, <1>7, <2>1 DEF CallFits, CallShape, ListingFits, Ended
  <2>3. calls' = [calls EXCEPT ![c] = q]
    BY <1>7 DEF q
  <2> QED BY <1>1, <1>5, <1>7, <2>1, <2>2, <2>3
<1>8. ASSUME calls' = [calls EXCEPT ![c] = Ends(r, "done")], r.work \notin {"listing"},
             \/ r.work \notin {"small", "large"} /\ UNCHANGED library
             \/ /\ r.work \in {"small", "large"} /\ library[r.name] = None
                /\ library' = [library EXCEPT ![r.name] = c],
             UNCHANGED <<cached, excused>>, made' \in made .. Levels
      PROVE  \E p : Goes(c, p)
  <2> DEFINE q == Ends(r, "done")
  <2>1. /\ q \in Call /\ q.need = r.need /\ q.n = 1 /\ q.at = "done" /\ q.attempt = 0 /\ q.unanswered = 0
        /\ q.work = r.work /\ q.name = r.name /\ q.found = r.found /\ q.there = r.there
    BY <1>1, <1>2, EndsSay
  <2> HIDE DEF q
  <2>2. CallFits(q) /\ ListingFits(q)
    BY <1>1, <1>2, <1>8, <2>1 DEF CallFits, CallShape, ListingFits, Ended
  <2>3. calls' = [calls EXCEPT ![c] = q]
    BY <1>8 DEF q
  <2>4. r.work \in {"small", "large"} => library'[q.name] = c
    BY <1>1, <1>8, <2>1 DEF CallShape, TransportInv, TransportTypeOK
  <2> QED BY <1>1, <1>5, <1>8, <2>1, <2>2, <2>3, <2>4
<1>9. CASE Send(c)
  <2> DEFINE q == IF r.need = "piece" THEN [r EXCEPT !.at = "sent"]
                  ELSE IF cached # None THEN [r EXCEPT !.at = "sent", !.token = cached]
                  ELSE [r EXCEPT !.at = "token"]
  <2>1. calls' = [calls EXCEPT ![c] = q]
    BY <1>9 DEF Send
  <2>2. /\ q \in Call /\ q.need = r.need /\ q.n = r.n /\ q.at \in {"sent", "token"}
        /\ q.attempt = r.attempt /\ q.unanswered = r.unanswered /\ q.refused = r.refused
        /\ q.work = r.work /\ q.name = r.name /\ q.found = r.found /\ q.there = r.there
    <3>1. cached # None => cached \in 0 .. (Lifetime + 1)
      BY <1>1, <1>2
    <3>2. CASE r.need = "piece"
      BY <1>1, <3>2 DEF Call
    <3>3. CASE r.need # "piece" /\ cached # None
      BY <1>1, <3>1, <3>3 DEF Call
    <3>4. CASE r.need # "piece" /\ cached = None
      BY <1>1, <3>4 DEF Call
    <3> QED BY <3>2, <3>3, <3>4
  <2> HIDE DEF q
  <2>3. CallFits(q) /\ ListingFits(q)
    BY <1>1, <2>2 DEF CallFits, CallShape, ListingFits, Ended
  <2> QED BY <1>1, <1>3, <1>5, <1>9, <2>1, <2>2, <2>3 DEF Send
<1>10. CASE TokenIssued(c)
  <2> DEFINE q == [r EXCEPT !.at = "sent", !.token = 0, !.attempt = 0, !.unanswered = 0]
  <2>1. calls' = [calls EXCEPT ![c] = q] /\ cached' = 0
    BY <1>1, <1>10 DEF TokenIssued, TransportInv, TransportTypeOK, Call
  <2>2. /\ q \in Call /\ q.need = r.need /\ q.n = r.n /\ q.at = "sent"
        /\ q.attempt = 0 /\ q.unanswered = 0 /\ q.refused = r.refused
        /\ q.work = r.work /\ q.name = r.name /\ q.found = r.found /\ q.there = r.there
    <3>1. 0 \in 0 .. MaxRetries /\ 0 \in 0 .. (MaxRetries + 1) /\ 0 \in 0 .. (Lifetime + 1)
      BY <1>2, GraphTransportAssumption
    <3> QED BY <1>1, <3>1 DEF Call
  <2> HIDE DEF q
  <2>3. CallFits(q) /\ ListingFits(q)
    BY <1>1, <2>2 DEF CallFits, CallShape, ListingFits, Ended
  <2>4. cached' \in 0 .. Lifetime \cup {None} /\ UNCHANGED <<library, made, excused>>
    BY <1>2, <1>10, <2>1 DEF TokenIssued
  <2> QED BY <1>3, <1>5, <2>1, <2>2, <2>3, <2>4
<1>11. CASE TokenDies(c)
  BY <1>6, <1>11 DEF TokenDies
<1>12. CASE MakesFolder(c)
  <2>1. /\ r.need = "create" /\ r.work = "folder" /\ r.n \in 1 .. Levels
        /\ UNCHANGED <<library, cached, excused>>
    BY <1>1, <1>12 DEF MakesFolder, CallShape, NeedsOf, Works
  <2>2. "create" \in NeedsOf(r.work) /\ "existing" \in NeedsOf(r.work)
    BY <2>1 DEF NeedsOf
  <2>3. CASE made >= r.n
    <3>1. calls' = [calls EXCEPT ![c] = Turns(r, "existing", r.n)] /\ made' \in made .. Levels
      BY <1>3, <1>12, <2>3 DEF MakesFolder
    <3> QED BY <1>1, <1>7, <2>1, <2>2, <3>1 DEF Needs
  <2>4. CASE ~(made >= r.n)
    <3>1. made' \in made .. Levels
      BY <1>1, <1>2, <1>12, <2>1, <2>4 DEF MakesFolder
    <3>2. CASE r.n < Levels
      <4>1. calls' = [calls EXCEPT ![c] = Turns(r, "create", r.n + 1)]
        BY <1>12, <2>4, <3>2 DEF MakesFolder
      <4>2. r.n + 1 \in 1 .. Levels /\ r.n + 1 \in 1 .. (Levels + Pieces + 2)
        BY <1>2, <2>1, <3>2
      <4> QED BY <1>1, <1>7, <2>1, <2>2, <3>1, <4>1, <4>2 DEF Needs
    <3>3. CASE ~(r.n < Levels)
      <4>1. calls' = [calls EXCEPT ![c] = Ends(r, "done")]
        BY <1>12, <2>4, <3>3 DEF MakesFolder
      <4> QED BY <1>8, <2>1, <3>1, <4>1
    <3> QED BY <3>2, <3>3
  <2> QED BY <2>3, <2>4
<1>13. CASE FolderRead(c)
  <2>1. /\ r.need = "existing" /\ r.work = "folder" /\ r.n \in 1 .. Levels
        /\ UNCHANGED <<library, made, cached, excused>> /\ "create" \in NeedsOf(r.work)
    BY <1>1, <1>13 DEF FolderRead, CallShape, NeedsOf, Works
  <2>2. CASE r.n < Levels
    <3>1. calls' = [calls EXCEPT ![c] = Turns(r, "create", r.n + 1)]
      BY <1>13, <2>2 DEF FolderRead
    <3>2. r.n + 1 \in 1 .. Levels /\ r.n + 1 \in 1 .. (Levels + Pieces + 2)
      BY <1>2, <2>1, <2>2
    <3> QED BY <1>1, <1>3, <1>7, <2>1, <3>1, <3>2 DEF Needs
  <2>3. CASE ~(r.n < Levels)
    <3>1. calls' = [calls EXCEPT ![c] = Ends(r, "done")]
      BY <1>13, <2>3 DEF FolderRead
    <3> QED BY <1>3, <1>8, <2>1, <3>1
  <2> QED BY <2>2, <2>3
<1>14. CASE PutsFile(c)
  <2>1. r.need = "put" /\ r.work = "small" /\ r.at = "sent" /\ UNCHANGED <<made, cached>>
    BY <1>1, <1>14 DEF PutsFile, CallShape, NeedsOf, Works, Heard
  <2>2. CASE NameFree(c, r.name)
    <3>1. /\ calls' = [calls EXCEPT ![c] = Ends(r, "done")] /\ UNCHANGED excused
          /\ library[r.name] = None /\ library' = [library EXCEPT ![r.name] = c]
      BY <1>14, <2>2 DEF PutsFile, TakesName, NameFree
    <3> QED BY <1>3, <1>8, <2>1, <3>1
  <2>3. CASE ~NameFree(c, r.name)
    BY <1>6, <1>14, <2>1, <2>3 DEF PutsFile
  <2> QED BY <2>2, <2>3
\* The next piece of a large file.
<1>15. ASSUME r.work = "large", NEW n \in 1 .. Pieces, NEW got \in 0 .. Pieces,
              calls' = [calls EXCEPT ![c] = [Turns(r, "piece", n) EXCEPT !.got = got]],
              UNCHANGED <<library, made, cached, excused>>
       PROVE  \E p : Goes(c, p)
  <2> DEFINE t == Turns(r, "piece", n)
             q == [t EXCEPT !.got = got]
  <2>1. n \in 1 .. (Levels + Pieces + 2) /\ "piece" \in Needs /\ r.refused = 0
    BY <1>1, <1>2, <1>15 DEF Needs, CallShape, NeedsOf
  <2>2. /\ t \in Call /\ t.need = "piece" /\ t.n = n /\ t.at = "start" /\ t.attempt = 0 /\ t.unanswered = 0
        /\ t.work = r.work /\ t.name = r.name /\ t.refused = r.refused /\ t.found = r.found /\ t.there = r.there
    <3>1. r \in Call
      BY <1>1
    <3> QED BY <2>1, <3>1, TurnsSay
  <2> HIDE DEF t
  <2>3. /\ q \in Call /\ q.need = "piece" /\ q.n = n /\ q.at = "start" /\ q.attempt = 0 /\ q.unanswered = 0
        /\ q.work = r.work /\ q.name = r.name /\ q.refused = 0 /\ q.found = r.found /\ q.there = r.there
    BY <1>15, <2>1, <2>2 DEF Call
  <2>4. calls' = [calls EXCEPT ![c] = q]
    BY <1>15 DEF t
  <2> HIDE DEF q
  <2>5. CallFits(q) /\ ListingFits(q)
    BY <1>1, <1>15, <2>3 DEF CallFits, CallShape, ListingFits, Ended, NeedsOf
  <2> QED BY <1>1, <1>3, <1>5, <1>15, <2>3, <2>4, <2>5
<1>16. CASE OpensSession(c)
  <2>1. r.need = "session" /\ r.work = "large" /\ r.at = "sent" /\ UNCHANGED <<library, made, cached>>
    BY <1>1, <1>16 DEF OpensSession, CallShape, NeedsOf, Works, Heard
  <2>2. CASE NameFree(c, r.name)
    <3>1. /\ calls' = [calls EXCEPT ![c] = [Turns(r, "piece", 1) EXCEPT !.got = 0]] /\ UNCHANGED excused
      BY <1>16, <2>2 DEF OpensSession
    <3>2. 1 \in 1 .. Pieces /\ 0 \in 0 .. Pieces
      BY <1>2
    <3> QED BY <1>15, <2>1, <3>1, <3>2
  <2>3. CASE ~NameFree(c, r.name)
    BY <1>6, <1>16, <2>1, <2>3 DEF OpensSession
  <2> QED BY <2>2, <2>3
<1>17. CASE TakesPiece(c)
  <2>1. /\ r.need = "piece" /\ r.work = "large" /\ r.at = "sent" /\ UNCHANGED <<made, cached>>
        /\ r.n \in 1 .. Pieces
    BY <1>1, <1>17 DEF TakesPiece, CallShape, NeedsOf, Works, Heard
  <2>2. CASE r.n # r.got + 1 \/ (r.n = Pieces /\ ~NameFree(c, r.name))
    BY <1>6, <1>17, <2>1, <2>2 DEF TakesPiece
  <2>3. CASE /\ ~(r.n # r.got + 1 \/ (r.n = Pieces /\ ~NameFree(c, r.name)))
             /\ r.n = Pieces
    <3>1. /\ calls' = [calls EXCEPT ![c] = Ends(r, "done")] /\ UNCHANGED excused
          /\ library[r.name] = None /\ library' = [library EXCEPT ![r.name] = c]
      BY <1>17, <2>3 DEF TakesPiece, TakesName, NameFree
    <3> QED BY <1>3, <1>8, <2>1, <3>1
  <2>4. CASE /\ ~(r.n # r.got + 1 \/ (r.n = Pieces /\ ~NameFree(c, r.name)))
             /\ r.n # Pieces
    <3>1. /\ calls' = [calls EXCEPT ![c] = [Turns(r, "piece", r.n + 1) EXCEPT !.got = r.n]]
          /\ UNCHANGED <<library, excused>>
      BY <1>17, <2>4 DEF TakesPiece
    <3>2. r.n + 1 \in 1 .. Pieces /\ r.n \in 0 .. Pieces
      BY <1>2, <2>1, <2>4
    <3> QED BY <1>15, <2>1, <3>1, <3>2
  <2> QED BY <2>2, <2>3, <2>4
<1>18. CASE ReadsPage(c)
  <2> DEFINE shown == {f \in Present : f \in LateNames <=> r.n = 2}
             t == IF MorePages(r) THEN Turns(r, "page", 2) ELSE Ends(r, "done")
  <2>1. r.need = "page" /\ r.work = "listing" /\ UNCHANGED <<library, made, cached, excused>> /\ r.refused = 0
    BY <1>1, <1>18 DEF ReadsPage, CallShape, NeedsOf, Works
  <2>2. \A q : q \in Call /\ q.at = "done" /\ q.need = "page" /\ q.work = r.work /\ q.name = r.name
               /\ q.attempt = 0 /\ q.unanswered = 0 /\ q.there = r.there /\ r.there \subseteq q.found
               => CallFits(q) /\ ListingFits(q)
    BY <1>1, <2>1 DEF CallFits, CallShape, ListingFits, Ended
  <2>3. CASE made < Levels
    <3> DEFINE e == Ends(r, "done")
               q == [e EXCEPT !.found = {}]
    <3>1. /\ e \in Call /\ e.at = "done" /\ e.need = r.need /\ e.work = r.work /\ e.name = r.name
          /\ e.attempt = 0 /\ e.unanswered = 0 /\ e.there = r.there
      BY <1>1, EndsSay
    <3>2. calls' = [calls EXCEPT ![c] = q]
      BY <1>18, <2>3 DEF ReadsPage
    <3> HIDE DEF e
    <3>3. /\ q \in Call /\ q.at = "done" /\ q.need = r.need /\ q.work = r.work /\ q.name = r.name
          /\ q.attempt = 0 /\ q.unanswered = 0 /\ q.there = r.there
      BY <3>1 DEF Call
    <3>4. r.there = {}
      BY <1>1, <2>3 DEF TransportInv, ListingFits
    <3> HIDE DEF q
    <3>5. CallFits(q) /\ ListingFits(q)
      BY <2>1, <2>2, <3>3, <3>4
    <3> QED BY <1>1, <1>3, <1>5, <2>1, <3>2, <3>3, <3>5
  <2>4. CASE ~(made < Levels)
    <3> DEFINE q == [t EXCEPT !.found = t.found \cup shown]
    <3>1. calls' = [calls EXCEPT ![c] = q]
      BY <1>18, <2>4 DEF ReadsPage
    <3>2. shown \subseteq FileNames /\ r.there \subseteq Present /\ (r.n = 1 \/ (r.n = 2 /\ r.there \ LateNames \subseteq r.found))
      BY <1>1, <2>1 DEF Present, ListingFits
    <3>3. CASE MorePages(r)
      <4>1. "page" \in Needs /\ 2 \in 1 .. (Levels + Pieces + 2)
        BY <1>2 DEF Needs
      <4>2. /\ t \in Call /\ t.at = "start" /\ t.need = "page" /\ t.work = r.work /\ t.name = r.name /\ t.n = 2
            /\ t.attempt = 0 /\ t.unanswered = 0 /\ t.there = r.there /\ t.found = r.found /\ t.refused = r.refused
        BY SMTT(30), <1>1, <3>3, <4>1, TurnsSay
      <4>3. r.n = 1 /\ r.there \ LateNames \subseteq shown
        BY <3>2, <3>3 DEF MorePages
      <4> HIDE DEF t, shown
      <4>4. /\ q \in Call /\ q.at = "start" /\ q.need = "page" /\ q.work = r.work /\ q.name = r.name /\ q.n = 2
            /\ q.attempt = 0 /\ q.unanswered = 0 /\ q.there = r.there /\ q.found = r.found \cup shown
            /\ q.refused = 0
        BY <2>1, <3>2, <4>2 DEF Call
      <4> HIDE DEF q
      <4>5. CallFits(q) /\ ListingFits(q)
        BY <1>1, <2>1, <3>2, <4>3, <4>4 DEF CallFits, CallShape, ListingFits, Ended, NeedsOf
      <4> QED BY <1>1, <1>3, <1>5, <2>1, <3>1, <4>4, <4>5
    <3>4. CASE ~MorePages(r)
      <4>1. /\ t \in Call /\ t.at = "done" /\ t.need = r.need /\ t.work = r.work /\ t.name = r.name
            /\ t.attempt = 0 /\ t.unanswered = 0 /\ t.there = r.there /\ t.found = r.found
        BY <1>1, <3>4, EndsSay
      <4>2. r.there \subseteq r.found \cup shown
        BY <3>2, <3>4 DEF MorePages
      <4> HIDE DEF t, shown
      <4>3. /\ q \in Call /\ q.at = "done" /\ q.need = r.need /\ q.work = r.work /\ q.name = r.name
            /\ q.attempt = 0 /\ q.unanswered = 0 /\ q.there = r.there /\ q.found = r.found \cup shown
        BY <1>1, <3>2, <4>1 DEF Call
      <4> HIDE DEF q
      <4>4. CallFits(q) /\ ListingFits(q)
        BY <2>1, <2>2, <4>2, <4>3
      <4> QED BY <1>1, <1>3, <1>5, <2>1, <3>1, <4>3, <4>4
    <3> QED BY <3>3, <3>4
  <2> QED BY <2>3, <2>4
<1>19. CASE Looks(c)
  <2>1. UNCHANGED <<library, made, cached, excused>>
    BY <1>19 DEF Looks
  <2>2. r.need \in {"teams", "channels", "filesFolder", "teamSite", "driveRoot", "channelFolder"} => r.work = "target"
    BY <1>1 DEF CallShape, NeedsOf, Works
  <2>3. ASSUME NEW need \in {"channels", "filesFolder", "teamSite"}, r.need \in {"teams", "channels", "filesFolder"},
               calls' = [calls EXCEPT ![c] = Turns(r, need, 1)]
        PROVE  \E p : Goes(c, p)
    <3>1. need \in NeedsOf(r.work) /\ need \in Needs /\ 1 \in 1 .. (Levels + Pieces + 2)
      BY <1>2, <2>2, <2>3 DEF NeedsOf, Needs
    <3>2. need \notin {"create", "existing"} /\ r.work # "listing"
      BY <2>2, <2>3
    <3> QED BY <1>3, <1>7, <2>1, <2>3, <3>1, <3>2
  <2>4. CASE /\ r.need \in {"teamSite", "driveRoot", "channelFolder"}
             /\ calls' = [calls EXCEPT ![c] = Ends(r, "done")]
    BY <1>3, <1>8, <2>1, <2>2, <2>4
  <2> QED BY <1>19, <2>3, <2>4 DEF Looks
<1>20. CASE Throttled(c)
  <2>1. r.at \in {"token", "sent"} /\ TriesAgain(c, r) /\ UNCHANGED <<library, made, cached>>
    BY <1>20 DEF Throttled
  <2>2. PICK q : Carries(c, r, q)
    BY <1>1, <2>1, TriesAgainFits
  <2> QED BY <1>1, <1>3, <1>4, <2>1, <2>2
<1>21. CASE LookupThrown(c)
  <2> DEFINE q == Ends(r, "failed")
  <2>1. /\ q \in Call /\ q.at = "failed" /\ q.need = r.need /\ q.n = 1 /\ q.attempt = 0 /\ q.unanswered = 0
        /\ q.work = r.work /\ q.name = r.name /\ q.found = r.found /\ q.there = r.there
    BY <1>1, EndsSay
  <2>2. calls' = [calls EXCEPT ![c] = q] /\ UNCHANGED <<library, made, cached>>
    BY <1>21 DEF LookupThrown
  <2> HIDE DEF q
  <2>3. r.unanswered + 1 > MaxRetries /\ Waited(r).unanswered = r.unanswered + 1
    BY <1>1, <1>21, GraphTransportAssumption DEF LookupThrown, MayRetry, CallFits, Waited, Call
  <2>4. excused' = excused \cup {c}
    BY <1>21, <2>3 DEF LookupThrown, Silent
  <2>5. CallFits(q) /\ ListingFits(q)
    BY <1>1, <1>2, <2>1 DEF CallFits, CallShape, ListingFits, Ended
  <2>6. Carries(c, r, q)
    BY <1>1, <2>1, <2>2, <2>4, <2>5 DEF Carries
  <2> QED BY <1>1, <1>3, <1>4, <2>2, <2>6
<1>22. CASE Refused(c)
  BY <1>6, <1>22 DEF Refused
<1>23. CASE AnswerLost(c)
  <2> DEFINE s == IF r.need = "piece" THEN [r EXCEPT !.got = r.n] ELSE r
  <2>1. /\ r.at = "sent" /\ r.need \in {"create", "put", "piece"} /\ TriesAgain(c, s) /\ UNCHANGED cached
        /\ r.need = "create" => made < r.n
    BY <1>23 DEF AnswerLost, Heard
  <2>2. /\ r.need = "create" => r.work = "folder" /\ r.n \in 1 .. Levels
        /\ r.need = "put" => r.work = "small"
        /\ r.need = "piece" => r.work = "large" /\ r.n \in 1 .. Pieces
    BY <1>1 DEF CallShape, NeedsOf, Works
  <2>3. made' \in made .. Levels
    BY <1>1, <1>2, <1>3, <1>23, <2>1, <2>2 DEF AnswerLost
  <2>4. \/ UNCHANGED library
        \/ /\ r.work \in {"small", "large"} /\ library[r.name] = None
           /\ library' = [library EXCEPT ![r.name] = c]
    BY <1>23, <2>1, <2>2 DEF AnswerLost, TakesName, NameFree
  <2>5. /\ s \in Call /\ s.need = r.need /\ s.at = r.at /\ s.work = r.work /\ s.name = r.name /\ s.n = r.n
        /\ s.found = r.found /\ s.there = r.there /\ s.refused = r.refused
        /\ s.attempt = r.attempt /\ s.unanswered = r.unanswered
    BY <1>1, <1>2, <2>2 DEF Call
  <2> HIDE DEF s
  <2>6. CallFits(s) /\ ListingFits(s) /\ s.at \in {"token", "sent"}
    BY <1>1, <2>1, <2>5 DEF CallFits, CallShape, ListingFits, Ended
  <2>7. PICK q : Carries(c, s, q)
    BY <1>1, <2>1, <2>5, <2>6, TriesAgainFits
  <2>8. ~Ended(r) /\ (q.at # "done" \/ q.work \notin {"small", "large"})
    BY <1>1, <2>1, <2>7 DEF Carries
  <2>9. Goes(c, q)
    BY <1>1, <2>1, <2>3, <2>4, <2>5, <2>7, <2>8 DEF Goes, Carries
  <2> QED BY <2>9
<1> QED BY <1>9, <1>10, <1>11, <1>12, <1>13, <1>14, <1>16, <1>17, <1>18, <1>19, <1>20, <1>21, <1>22, <1>23
        DEF OtherStep, CallStep

\* A call that begins has its first request before it and nothing behind it.
Begins(c, w, f, q) ==
    /\ q \in Call /\ calls' = [calls EXCEPT ![c] = q]
    /\ q.work = w /\ q.name = f /\ q.need = FirstNeed(w) /\ q.at = "start" /\ q.n = 1
    /\ q.attempt = 0 /\ q.unanswered = 0 /\ q.refused = 0 /\ q.there \subseteq Present

LEMMA StartSays ==
    ASSUME NEW c \in Calls, NEW w \in Works, NEW f \in FileNames \cup {None}, StartCall(c, w, f)
    PROVE  \E q : Begins(c, w, f, q)
<1> DEFINE q == [ work |-> w, name |-> f, need |-> FirstNeed(w), at |-> "start", n |-> 1,
                  token |-> None, attempt |-> 0, unanswered |-> 0, refused |-> 0,
                  got |-> 0, found |-> {}, there |-> IF w = "listing" THEN Present ELSE {} ]
<1>1. FirstNeed(w) \in Needs
  BY DEF FirstNeed, Needs, Works
<1>2. /\ 0 \in 0 .. MaxRetries /\ 0 \in 0 .. (MaxRetries + 1) /\ 0 \in 0 .. Pieces /\ 0 \in 0 .. 3
      /\ 1 \in 1 .. (Levels + Pieces + 2)
  BY GraphTransportAssumption
<1>3. q \in Call
  BY <1>1, <1>2 DEF Call, Present
<1>4. Begins(c, w, f, q)
  BY <1>3 DEF Begins, StartCall
<1> QED BY <1>4

\* Files in the folder stay where they are, and so does what a listing knows.
LEMMA FilesStay ==
    ASSUME library \in [FileNames -> Calls \cup {None, "hand"}], NEW f, NEW v \in Calls \cup {"hand"},
           UNCHANGED library \/ library' = [library EXCEPT ![f] = v]
    PROVE  /\ library' \in [FileNames -> Calls \cup {None, "hand"}]
           /\ Present \subseteq Present'
           /\ \A r : ListingFits(r) => ListingFits(r)'
<1>1. v # None
  BY CallsAssumption
<1>2. library' \in [FileNames -> Calls \cup {None, "hand"}] /\ Present \subseteq Present'
  BY <1>1 DEF Present
<1> QED BY <1>2 DEF ListingFits, Ended

LEMMA TransportInvStep ==
    TransportInv /\ [TransportNext]_<<transportVars, spent>> => TransportInv'
<1> SUFFICES ASSUME TransportInv, [TransportNext]_<<transportVars, spent>> PROVE TransportInv'
  OBVIOUS
<1>1. /\ library \in [FileNames -> Calls \cup {None, "hand"}] /\ made \in 0 .. Levels
      /\ cached \in 0 .. Lifetime \cup {None} /\ calls \in [Calls -> Call \cup {None}] /\ excused \subseteq Calls
  BY DEF TransportInv, TransportTypeOK
<1>2. /\ Levels \in Nat \ {0} /\ Pieces \in Nat \ {0} /\ MaxRetries \in Nat /\ Lifetime \in Nat
      /\ None \notin Call \cup FileNames /\ "hand" \notin Calls
  BY GraphTransportAssumption, CallsAssumption
<1> DEFINE Fits(c, r) ==
             /\ CallFits(r) /\ ListingFits(r)
             /\ r.work \in {"small", "large"} => made = Levels
             /\ r.at = "failed" => c \in excused
<1>3. \A c \in Calls : calls[c] # None => Fits(c, calls[c])
  BY DEF TransportInv
<1>4. ASSUME NEW c \in Calls, NEW w \in Works, NEW f \in FileNames \cup {None}, StartCall(c, w, f)
      PROVE  TransportInv'
  <2>0. PICK q : Begins(c, w, f, q)
    BY <1>4, StartSays
  <2>1. /\ calls' = [calls EXCEPT ![c] = q] /\ (w \in {"small", "large"} <=> f # None)
        /\ f # None => made = Levels
        /\ UNCHANGED <<library, made, cached, excused>>
    BY <1>4, <2>0 DEF StartCall, Begins
  <2>2. FirstNeed(w) \in NeedsOf(w) /\ FirstNeed(w) \notin {"driveRoot", "channelFolder"}
    BY DEF FirstNeed, NeedsOf, Works
  <2>3. 1 \in 1 .. Levels /\ 1 \in 1 .. Pieces
    BY <1>2
  <2>4. q \in Call
    BY <2>0 DEF Begins
  <2>5. /\ q.work = w /\ q.name = f /\ q.need = FirstNeed(w) /\ q.at = "start" /\ q.n = 1 /\ q.attempt = 0
        /\ q.unanswered = 0 /\ q.refused = 0 /\ q.there \subseteq Present
    BY <2>0 DEF Begins
  <2>6. Fits(c, q)
    BY <1>2, <2>1, <2>2, <2>3, <2>5 DEF CallFits, CallShape, ListingFits, Ended
  <2>7. \A d \in Calls : calls'[d] = IF d = c THEN q ELSE calls[d]
    BY <1>1, <2>1
  <2>8. TransportTypeOK'
    BY <1>1, <2>1, <2>4 DEF TransportTypeOK
  <2> QED BY <1>3, <2>1, <2>6, <2>7, <2>8 DEF TransportInv, ListingFits, Present
<1>5. ASSUME NEW c \in Calls, NEW q, Goes(c, q) PROVE TransportInv'
  <2>1. q.work \in {"small", "large"} => made = Levels
    BY <1>3, <1>5 DEF Goes
  <2>2. /\ library' \in [FileNames -> Calls \cup {None, "hand"}]
        /\ Present \subseteq Present'
        /\ \A r : ListingFits(r) => ListingFits(r)'
    BY <1>1, <1>5, FilesStay DEF Goes
  <2>3. made' \in 0 .. Levels /\ made <= made' /\ (made' < Levels => Present' = {})
    <3>1. made' \in made .. Levels
      BY <1>5 DEF Goes
    <3>2. made' \in 0 .. Levels /\ made <= made'
      BY <1>1, <1>2, <3>1
    <3>3. made' < Levels => Present = {} /\ q.work \notin {"small", "large"}
      BY <1>1, <1>2, <2>1, <3>2 DEF TransportInv
    <3> QED BY <1>5, <3>2, <3>3 DEF Goes, Present
  <2>4. TransportTypeOK'
    BY <1>1, <1>5, <2>2, <2>3 DEF TransportTypeOK, Goes
  <2>5. \A d \in Calls : calls'[d] = IF d = c THEN q ELSE calls[d]
    BY <1>1, <1>5 DEF Goes
  <2>6. made = Levels => made' = Levels
    BY <1>1, <1>2, <2>3
  <2>7. ASSUME NEW d \in Calls, calls'[d] # None
        PROVE  /\ CallFits(calls'[d]) /\ ListingFits(calls'[d])
               /\ calls'[d].work \in {"small", "large"} => made' = Levels
               /\ calls'[d].at = "failed" => d \in excused'
    BY <1>3, <1>5, <2>1, <2>5, <2>6, <2>7 DEF Goes
  <2> QED BY <2>2, <2>3, <2>4, <2>7 DEF TransportInv, CallFits, CallShape, Ended
<1>6. CASE TimePasses
  <2> DEFINE q(c) == IF calls[c] # None /\ calls[c].token # None /\ calls[c].token <= Lifetime
                     THEN [calls[c] EXCEPT !.token = calls[c].token + 1] ELSE calls[c]
  <2>1. /\ calls' = [c \in Calls |-> q(c)] /\ UNCHANGED <<library, made, excused>>
        /\ cached' = IF cached # None /\ cached + 1 < Lifetime THEN cached + 1 ELSE None
    BY <1>6 DEF TimePasses
  <2>2. cached' \in 0 .. Lifetime \cup {None}
    BY <1>1, <1>2, <2>1
  <2>3. ASSUME NEW c \in Calls
        PROVE  /\ q(c) \in Call \cup {None} /\ (q(c) # None => calls[c] # None)
               /\ q(c) # None => /\ q(c).work = calls[c].work /\ q(c).name = calls[c].name
                                 /\ q(c).need = calls[c].need /\ q(c).at = calls[c].at /\ q(c).n = calls[c].n
                                 /\ q(c).attempt = calls[c].attempt /\ q(c).unanswered = calls[c].unanswered
                                 /\ q(c).refused = calls[c].refused
                                 /\ q(c).found = calls[c].found /\ q(c).there = calls[c].there
    <3>1. CASE calls[c] # None /\ calls[c].token # None /\ calls[c].token <= Lifetime
      <4>1. calls[c] \in Call
        BY <1>1, <3>1
      <4>2. calls[c].token + 1 \in 0 .. (Lifetime + 1)
        BY <1>2, <3>1, <4>1 DEF Call
      <4> QED BY <3>1, <4>1, <4>2 DEF Call
    <3>2. CASE ~(calls[c] # None /\ calls[c].token # None /\ calls[c].token <= Lifetime)
      BY <1>1, <3>2
    <3> QED BY <3>1, <3>2
  <2>4. \A c \in Calls : calls'[c] = q(c)
    BY <2>1
  <2> HIDE DEF q
  <2>5. TransportTypeOK'
    BY <1>1, <2>1, <2>2, <2>3 DEF TransportTypeOK
  <2>6. ASSUME NEW c \in Calls, calls'[c] # None PROVE Fits(c, calls'[c])
    BY <1>3, <2>3, <2>4, <2>6 DEF CallFits, CallShape, ListingFits, Ended
  <2> QED BY <2>1, <2>5, <2>6 DEF TransportInv, ListingFits, Present
<1>7. ASSUME NEW f \in FileNames, HandPuts(f) PROVE TransportInv'
  <2>1. made = Levels /\ library' = [library EXCEPT ![f] = "hand"] /\ UNCHANGED <<made, cached, calls, excused>>
    BY <1>7 DEF HandPuts
  <2>2. /\ library' \in [FileNames -> Calls \cup {None, "hand"}]
        /\ \A r : ListingFits(r) => ListingFits(r)'
    BY <1>1, <2>1, FilesStay
  <2>3. TransportTypeOK' /\ ~(made' < Levels)
    BY <1>1, <1>2, <2>1, <2>2 DEF TransportTypeOK
  <2>4. \A c \in Calls : calls[c] # None => ListingFits(calls[c])'
    BY <1>3, <2>1, <2>2
  <2> QED BY <1>3, <2>1, <2>3, <2>4 DEF TransportInv
<1>8. CASE UNCHANGED <<transportVars, spent>>
  BY <1>8 DEF transportVars, TransportInv, TransportTypeOK, ListingFits, Present
<1>9. ASSUME NEW c \in Calls, OtherStep(c) PROVE TransportInv'
  BY <1>5, <1>9, CallGoes
<1> QED BY <1>4, <1>6, <1>7, <1>8, <1>9 DEF TransportNext, OtherStep

LEMMA TransportInvAlways == TransportSpec => []TransportInv
BY TransportInvInit, TransportInvStep, PTL DEF TransportSpec

----------------------------------------------------------------------------
(* Calls of Graph: the theorems *)

\* The folder, the token and every call keep to their types.
THEOREM TransportTypeCorrect == TransportSpec => []TransportTypeOK
<1>1. TransportInv => TransportTypeOK
  BY DEF TransportInv
<1> QED BY <1>1, TransportInvAlways, PTL

\* A call that fails met something more tries would not have mended, and a
\* listing has all that was there when it began, for any number of calls,
\* folders, pieces, retries and names, and whatever answers come or are lost.
THEOREM AnswersAreHonestAlways == TransportSpec => []AnswersAreHonest
<1>1. TransportInv => AnswersAreHonest
  BY DEF TransportInv, AnswersAreHonest, FailuresHaveACause, ListingsAreComplete, ListingFits
<1> QED BY <1>1, TransportInvAlways, PTL

\* What UploadPromise sees of the library and of the calls.
Filed  == [f \in FileNames |-> IF library[f] = "hand" THEN "others" ELSE library[f]]
Wanted == [c \in Calls |-> IF calls[c] # None /\ calls[c].work \in {"small", "large"}
                           THEN calls[c].name ELSE None]
Told   == [c \in Calls |-> IF calls[c] = None \/ calls[c].work \notin {"small", "large"} THEN "open"
                           ELSE CASE calls[c].at = "done"   -> "stored"
                                  [] calls[c].at = "failed" -> "failed"
                                  [] OTHER -> "open"]

LEMMA UploadStep ==
    ASSUME TransportInv, TransportInv', [TransportNext]_<<transportVars, spent>>
    PROVE  Promise!UploadNext \/ UNCHANGED <<Filed, Wanted, Told>>
<1> DEFINE Goal == Promise!UploadNext \/ UNCHANGED <<Filed, Wanted, Told>>
<1>1. /\ library \in [FileNames -> Calls \cup {None, "hand"}] /\ calls \in [Calls -> Call \cup {None}]
      /\ None \notin Call \cup FileNames \cup Calls /\ "hand" \notin Calls \cup {None} /\ None # "others"
  BY CallsAssumption DEF TransportInv, TransportTypeOK
<1>4. ASSUME UNCHANGED <<library, Wanted, Told>> PROVE Goal
  BY <1>4 DEF Filed
<1>5. ASSUME NEW c \in Calls, NEW w \in Works, NEW f \in FileNames \cup {None}, StartCall(c, w, f) PROVE Goal
  <2>1. /\ calls[c] = None /\ calls'[c] # None /\ calls'[c].work = w /\ calls'[c].name = f /\ calls'[c].at = "start"
        /\ \A d \in Calls \ {c} : calls'[d] = calls[d]
        /\ UNCHANGED library /\ (w \in {"small", "large"} <=> f # None)
    <3>1. PICK q : Begins(c, w, f, q)
      BY <1>5, StartSays
    <3> QED BY SMTT(30), <1>1, <1>5, <3>1 DEF StartCall, Begins
  <2>2. Told' = Told
    BY <2>1 DEF Told
  <2>3. Wanted' = [Wanted EXCEPT ![c] = f] /\ Wanted[c] = None
    BY <2>1 DEF Wanted
  <2>4. CASE f \in FileNames
    <3>1. Promise!Starts(c, f)
      BY <2>1, <2>2, <2>3 DEF Promise!Starts, Filed, Wanted, Told
    <3> QED BY <2>4, <3>1 DEF Promise!UploadNext
  <2>5. CASE f \notin FileNames
    <3>1. Wanted' = Wanted
      BY <2>3, <2>5 DEF Wanted
    <3> QED BY <1>4, <2>1, <2>2, <3>1
  <2> QED BY <2>4, <2>5

<1>6. ASSUME NEW c \in Calls, NEW q, Goes(c, q) PROVE Goal
  <2>1. /\ calls[c] # None /\ calls[c] \in Call /\ q # None /\ q \in Call /\ calls'[c] = q /\ q.work = calls[c].work
        /\ q.name = calls[c].name /\ ~Ended(calls[c])
        /\ \A d \in Calls \ {c} : calls'[d] = calls[d]
    BY <1>1, <1>6 DEF Goes
  <2>2. Wanted' = Wanted
    BY <2>1 DEF Wanted
  <2>3. CASE q.work \notin {"small", "large"}
    <3>1. Told' = Told
      BY <2>1, <2>3 DEF Told
    <3>2. UNCHANGED library
      BY <1>6, <2>3 DEF Goes
    <3> QED BY <1>4, <2>2, <3>1, <3>2
  <2>4. CASE q.work \in {"small", "large"}
    <3> DEFINE f == q.name
    <3>1. f \in FileNames /\ f # None
      BY <1>1, <1>6, <2>4 DEF Goes, CallFits, CallShape
    <3>2. Wanted[c] = f /\ Told[c] = "open"
      BY <2>1, <2>4 DEF Wanted, Told, Ended
    <3>3. \/ Filed' = Filed
          \/ Filed[f] = None /\ Filed' = [Filed EXCEPT ![f] = c]
      <4>1. CASE UNCHANGED library
        BY <4>1 DEF Filed
      <4>2. CASE library[f] = None /\ library' = [library EXCEPT ![f] = c]
        BY <1>1, <3>1, <4>2 DEF Filed
      <4> QED BY <1>6, <4>1, <4>2 DEF Goes
    <3>4. \/ Told' = Told
          \/ Filed'[f] = c /\ Told' = [Told EXCEPT ![c] = "stored"]
          \/ Told' = [Told EXCEPT ![c] = "failed"]
      <4>1. CASE q.at = "done"
        <5>1. Told' = [Told EXCEPT ![c] = "stored"]
          BY <2>1, <2>4, <4>1 DEF Told
        <5>2. Filed'[f] = c
          BY <1>1, <1>6, <2>4, <3>1, <4>1 DEF Goes, Filed
        <5> QED BY <5>1, <5>2
      <4>2. CASE q.at = "failed"
        BY <2>1, <2>4, <4>2 DEF Told
      <4>3. CASE q.at \notin {"done", "failed"}
        BY <2>1, <2>4, <4>3 DEF Told, Ended
      <4> QED BY <4>1, <4>2, <4>3
    <3>5. Promise!Moves(c)
      <4> HIDE DEF f
      <4> QED BY <2>2, <3>1, <3>2, <3>3, <3>4 DEF Promise!Moves, Filed, Wanted, Told
    <3> QED BY <3>5 DEF Promise!UploadNext
  <2> QED BY <2>3, <2>4
<1>7. ASSUME NEW c \in Calls, OtherStep(c) PROVE Goal
  BY <1>6, <1>7, CallGoes
<1>8. CASE TimePasses
  <2>1. ASSUME NEW c \in Calls
        PROVE  /\ calls'[c] = None <=> calls[c] = None
               /\ calls[c] # None => /\ calls'[c].work = calls[c].work /\ calls'[c].name = calls[c].name
                                     /\ calls'[c].at = calls[c].at
    <3>1. CASE calls[c] # None /\ calls[c].token # None /\ calls[c].token <= Lifetime
      <4>1. calls[c] \in Call /\ calls'[c] = [calls[c] EXCEPT !.token = calls[c].token + 1]
        BY <1>1, <1>8, <3>1 DEF TimePasses
      <4>2. calls'[c] \in Call \cup {None}
        BY DEF TransportInv, TransportTypeOK
      <4>3. calls'[c].work = calls[c].work /\ calls'[c].name = calls[c].name /\ calls'[c].at = calls[c].at
        BY <4>1 DEF Call
      <4>4. calls[c].token + 1 \in 0 .. (Lifetime + 1)
        BY <3>1, <4>1, GraphTransportAssumption DEF Call
      <4>5. [calls[c] EXCEPT !.token = calls[c].token + 1] \in Call
        BY <4>1, <4>4 DEF Call
      <4> QED BY <1>1, <3>1, <4>1, <4>3, <4>5
    <3>2. CASE ~(calls[c] # None /\ calls[c].token # None /\ calls[c].token <= Lifetime)
      BY <1>8, <3>2 DEF TimePasses
    <3> QED BY <3>1, <3>2
  <2>2. Wanted' = Wanted /\ Told' = Told
    BY <2>1 DEF Wanted, Told
  <2> QED BY <1>4, <1>8, <2>2 DEF TimePasses
<1>9. ASSUME NEW f \in FileNames, HandPuts(f) PROVE Goal
  <2>1. Filed[f] = None /\ Filed' = [Filed EXCEPT ![f] = "others"]
    BY <1>1, <1>9 DEF HandPuts, Filed
  <2>2. Wanted' = Wanted /\ Told' = Told
    BY <1>9 DEF HandPuts, Wanted, Told
  <2>3. Promise!Others(f)
    BY <2>1, <2>2 DEF Promise!Others, Filed, Wanted, Told
  <2> QED BY <2>3 DEF Promise!UploadNext
<1>10. CASE UNCHANGED <<transportVars, spent>>
  BY <1>10 DEF transportVars, Filed, Wanted, Told
<1> QED BY <1>5, <1>7, <1>8, <1>9, <1>10 DEF TransportNext, OtherStep

\* Requests, tokens, retries, sessions and pieces together are an upload as
\* UploadPromise states it: whole, at most once, under a free name, and said to
\* be stored only when it is there.
THEOREM PromiseIsKeptByTransport == TransportSpec => UploadsKeepTheirPromise
<1>1. TransportInit => Promise!Promised
  BY CallsAssumption DEF TransportInit, Promise!Promised
<1>2. TransportInv /\ TransportInv' /\ [TransportNext]_<<transportVars, spent>>
      => [Promise!UploadNext]_<<Filed, Wanted, Told>>
  BY UploadStep
<1>3. TransportSpec => [][Promise!UploadNext]_<<Filed, Wanted, Told>>
  BY <1>2, TransportInvAlways, PTL DEF TransportSpec
<1> QED BY <1>1, <1>3, PTL DEF TransportSpec, UploadsKeepTheirPromise, Promise!KeepsUploadPromise, Filed, Wanted, Told

----------------------------------------------------------------------------
(* The least number of a set *)

LEMMA LeastNat == ASSUME NEW T, T \subseteq Nat, T # {} PROVE \E x \in T : \A y \in T : x <= y
<1> DEFINE R == OpToRel(<, Nat)
<1>1. IsWellFoundedOn(R, Nat)
  BY NatLessThanWellFounded
<1>2. \A x, y \in Nat : x < y => <<x, y>> \in R
  BY DEF OpToRel
<1> HIDE DEF R
<1>3. \E x \in T : \A y \in T : ~ (<<y, x>> \in R)
  BY <1>1, WFMin
<1>4. PICK x \in T : \A y \in T : ~ (<<y, x>> \in R)
  BY <1>3
<1>5. ASSUME NEW y \in T PROVE x <= y
  <2>1. x \in Nat /\ y \in Nat /\ ~(y < x)
    BY <1>2, <1>4
  <2> QED BY <2>1
<1> QED BY <1>5

----------------------------------------------------------------------------
(* What is written atom by atom *)

\* What is written when x follows p.
One(p, x) == IF x = Separator /\ (p = << >> \/ p[Len(p)] = Separator) THEN p ELSE Append(p, x)

\* What is written after each atom of s.
Puts(f, done, s, n) == f = [k \in 0 .. n |-> IF k = 0 THEN done
    ELSE IF s[k] = Separator /\ (f[k - 1] = << >> \/ f[k - 1][Len(f[k - 1])] = Separator) THEN f[k - 1]
    ELSE Append(f[k - 1], s[k])]

LEMMA PutsExist == ASSUME NEW done, NEW s, NEW n \in Nat PROVE \E f : Puts(f, done, s, n)
<1> DEFINE Bad == {k \in Nat : ~ \E f : Puts(f, done, s, k)}
<1> SUFFICES ASSUME Bad # {} PROVE FALSE
  OBVIOUS
<1>1. PICK k \in Bad : \A j \in Bad : k <= j
  BY LeastNat
<1>2. k # 0
  <2>1. Puts([j \in 0 .. 0 |-> done], done, s, 0)
    BY DEF Puts
  <2> QED BY <2>1
<1>3. k - 1 \in Nat /\ ~(k <= k - 1)
  BY <1>2
<1>4. PICK f : Puts(f, done, s, k - 1)
  BY <1>1, <1>3
<1> DEFINE next(j) == IF s[j] = Separator /\ (f[j - 1] = << >> \/ f[j - 1][Len(f[j - 1])] = Separator) THEN f[j - 1]
                      ELSE Append(f[j - 1], s[j])
           h == [j \in 0 .. k |-> IF j = 0 THEN done ELSE next(j)]
<1>5. ASSUME NEW j \in 0 .. k - 1 PROVE h[j] = f[j]
  <2>1. j \in 0 .. k
    BY <1>3
  <2>2. f[j] = IF j = 0 THEN done ELSE next(j)
    BY <1>4 DEF Puts
  <2> QED BY <2>1, <2>2
<1>6. Puts(h, done, s, k)
  <2>1. \A j \in 0 .. k : j # 0 => j - 1 \in 0 .. k - 1
    BY <1>3
  <2> QED BY <1>5, <2>1 DEF Puts
<1> QED BY <1>1, <1>6

LEMMA PutIs == ASSUME NEW done, NEW s, Len(s) \in Nat
    PROVE \E f : /\ Put(done, s) = f[Len(s)] /\ f[0] = done
                 /\ \A k \in 1 .. Len(s) : f[k] = One(f[k - 1], s[k])
<1> DEFINE n == Len(s)
           Is(g) == g = [k \in 0 .. Len(s) |-> IF k = 0 THEN done
             ELSE IF s[k] = Separator /\ (g[k - 1] = << >> \/ g[k - 1][Len(g[k - 1])] = Separator) THEN g[k - 1]
             ELSE Append(g[k - 1], s[k])]
           f == CHOOSE g : Is(g)
<1>1. \E g : Is(g)
  <2>1. PICK g : Puts(g, done, s, Len(s))
    BY PutsExist
  <2>2. Is(g)
    BY <2>1 DEF Puts
  <2> QED BY <2>2
<1>2. Is(f)
  BY <1>1
<1>3. Put(done, s) = f[Len(s)]
  BY DEF Put
<1> HIDE DEF f
<1>4. f[0] = done
  BY <1>2
<1>5. ASSUME NEW k \in 1 .. Len(s) PROVE f[k] = One(f[k - 1], s[k])
  <2>1. k \in 0 .. Len(s) /\ k # 0
    OBVIOUS
  <2> QED BY <1>2, <2>1 DEF One
<1> QED BY <1>3, <1>4, <1>5

\* q goes on where p ends.
Longer(p, q) == /\ p \in Seq(Atoms) /\ q \in Seq(Atoms) /\ Len(p) <= Len(q)
                /\ \A i \in 1 .. Len(p) : q[i] = p[i]

\* It says more than separators there.
Speaks(p, q) == \E i \in Len(p) + 1 .. Len(q) : q[i] # Separator

LEMMA LongerIs == ASSUME NEW p, NEW q, NEW r, Longer(p, q), Longer(q, r) PROVE Longer(p, r)
<1>1. Len(p) \in Nat /\ Len(q) \in Nat /\ Len(r) \in Nat
  BY DEF Longer
<1>2. \A i \in 1 .. Len(p) : i \in 1 .. Len(q)
  BY <1>1 DEF Longer
<1>3. \A i \in 1 .. Len(p) : r[i] = p[i]
  BY <1>2 DEF Longer
<1> QED BY <1>1, <1>3 DEF Longer

LEMMA SpeaksOn == ASSUME NEW p, NEW q, NEW r, Longer(p, q), Longer(q, r), Speaks(p, q) \/ Speaks(q, r) PROVE Speaks(p, r)
<1>1. Len(p) \in Nat /\ Len(q) \in Nat /\ Len(r) \in Nat /\ Len(p) <= Len(q) /\ Len(q) <= Len(r)
  BY DEF Longer
<1>2. CASE Speaks(p, q)
  <2>1. PICK i \in Len(p) + 1 .. Len(q) : q[i] # Separator
    BY <1>2 DEF Speaks
  <2>2. i \in 1 .. Len(q) /\ i \in Len(p) + 1 .. Len(r)
    BY <1>1
  <2>3. r[i] = q[i]
    BY <2>2 DEF Longer
  <2> QED BY <2>1, <2>2, <2>3 DEF Speaks
<1>3. CASE Speaks(q, r)
  <2>1. PICK i \in Len(q) + 1 .. Len(r) : r[i] # Separator
    BY <1>3 DEF Speaks
  <2>2. i \in Len(p) + 1 .. Len(r)
    BY <1>1
  <2> QED BY <2>1, <2>2 DEF Speaks
<1> QED BY <1>2, <1>3

LEMMA OneSays == ASSUME NEW p \in Seq(Atoms), NEW x \in Atoms
    PROVE Longer(p, One(p, x)) /\ (x # Separator => Speaks(p, One(p, x)))
<1>1. Len(p) \in Nat
  OBVIOUS
<1>2. CASE One(p, x) = p /\ x = Separator
  BY <1>2 DEF Longer
<1>3. CASE One(p, x) = Append(p, x)
  <2>1. PICK q : q = Append(p, x)
    OBVIOUS
  <2>2. q \in Seq(Atoms) /\ Len(q) = Len(p) + 1 /\ (\A i \in 1 .. Len(p) : q[i] = p[i]) /\ q[Len(p) + 1] = x
    BY <2>1
  <2>3. Longer(p, q)
    BY <1>1, <2>2 DEF Longer
  <2>4. x # Separator => Speaks(p, q)
    <3>1. Len(p) + 1 \in Len(p) + 1 .. Len(q)
      BY <1>1, <2>2
    <3> QED BY <2>2, <3>1 DEF Speaks
  <2> QED BY <1>3, <2>1, <2>3, <2>4
<1> QED BY <1>2, <1>3 DEF One

LEMMA PutSays == ASSUME NEW done \in Seq(Atoms), NEW s \in Seq(Atoms)
    PROVE /\ Longer(done, Put(done, s))
          /\ (\E i \in DOMAIN s : s[i] # Separator) => Speaks(done, Put(done, s))
<1>0. Len(s) \in Nat /\ DOMAIN s = 1 .. Len(s) /\ \A k \in 1 .. Len(s) : s[k] \in Atoms
  OBVIOUS
<1>1. PICK f : /\ Put(done, s) = f[Len(s)] /\ f[0] = done
               /\ \A k \in 1 .. Len(s) : f[k] = One(f[k - 1], s[k])
  BY <1>0, PutIs
<1> DEFINE Good(n) == Longer(done, f[n]) /\ ((\E i \in 1 .. n : s[i] # Separator) => Speaks(done, f[n]))
           Bad == {n \in 0 .. Len(s) : ~Good(n)}
<1>2. Bad = {}
  <2> SUFFICES ASSUME Bad # {} PROVE FALSE
    OBVIOUS
  <2>1. Bad \subseteq Nat
    BY <1>0
  <2>2. PICK n \in Bad : \A j \in Bad : n <= j
    BY <2>1, LeastNat
  <2>3. Good(0)
    BY <1>1 DEF Longer
  <2>4. n \in 1 .. Len(s) /\ n - 1 \in 0 .. Len(s) /\ ~(n <= n - 1)
    BY <1>0, <2>2, <2>3
  <2>5. Good(n - 1)
    BY <2>2, <2>4
  <2>6. f[n] = One(f[n - 1], s[n]) /\ s[n] \in Atoms /\ f[n - 1] \in Seq(Atoms)
    BY <1>0, <1>1, <2>4, <2>5 DEF Longer
  <2>7. Longer(f[n - 1], f[n]) /\ (s[n] # Separator => Speaks(f[n - 1], f[n]))
    BY <2>6, OneSays
  <2>8. Longer(done, f[n])
    BY <2>5, <2>7, LongerIs
  <2>9. (\E i \in 1 .. n : s[i] # Separator) => Speaks(done, f[n])
    <3> SUFFICES ASSUME NEW i \in 1 .. n, s[i] # Separator PROVE Speaks(done, f[n])
      OBVIOUS
    <3>1. CASE i = n
      BY <2>5, <2>7, <3>1, SpeaksOn
    <3>2. CASE i # n
      <4>1. i \in 1 .. n - 1
        BY <2>4, <3>2
      <4> QED BY <2>5, <2>7, <4>1, SpeaksOn
    <3> QED BY <3>1, <3>2
  <2> QED BY <2>2, <2>8, <2>9
<1>3. Good(Len(s))
  BY <1>0, <1>2
<1> QED BY <1>0, <1>1, <1>3

LEMMA PutOne == ASSUME NEW done, NEW x PROVE Put(done, <<x>>) = One(done, x)
<1>1. PICK s : s = <<x>>
  OBVIOUS
<1>2. Len(s) = 1 /\ s[1] = x
  BY <1>1
<1>3. PICK f : Put(done, s) = f[Len(s)] /\ f[0] = done /\ \A k \in 1 .. Len(s) : f[k] = One(f[k - 1], s[k])
  BY <1>2, PutIs
<1>4. f[1] = One(f[0], s[1])
  BY <1>2, <1>3
<1> QED BY <1>1, <1>2, <1>3, <1>4

----------------------------------------------------------------------------
(* What is written part by part *)

\* The parts of a rule that are not open.
Said(part, kind, n) == IF part = "kind" THEN Atom(kind) ELSE IF part = "number" THEN Counted(n) ELSE Atom(part)

Open == {"value", "original"}

LEMMA SaidSays == ASSUME NEW part \in Words, NEW kind \in FileKinds, NEW n \in Nat
    PROVE /\ Said(part, kind, n) \in Atoms
          /\ Said(part, kind, n) = Separator <=> part = "sep"
          /\ PartFits(part, Said(part, kind, n))
  BY NamingAssumption DEF Said, Atom, Counted, Separator, PartFits, FileKinds, Atoms

LEMMA FilledSays == ASSUME NEW part \in Words, NEW kind \in FileKinds, NEW n \in Nat,
                           NEW base \in Seq(Atoms), NEW value \in {"value", None}
    PROVE /\ Filled(part, kind, n, base, value) \in Seq(Atoms)
          /\ part \notin Open => Filled(part, kind, n, base, value) = <<Said(part, kind, n)>>
          /\ part = "original" => Filled(part, kind, n, base, value) = base
          /\ part = "value" /\ value # None => Filled(part, kind, n, base, value) = <<Atom("value")>>
<1>0. \A x \in Atoms : <<x>> \in Seq(Atoms)
  OBVIOUS
<1>a. Said(part, kind, n) \in Atoms
  BY SaidSays
<1>1. CASE part = "kind"
  <2>1. Filled(part, kind, n, base, value) = <<Atom(kind)>> /\ Said(part, kind, n) = Atom(kind)
    BY <1>1 DEF Filled, Said
  <2> QED BY <1>0, <1>1, <1>a, <2>1
<1>2. CASE part = "number"
  <2>1. Filled(part, kind, n, base, value) = <<Counted(n)>> /\ Said(part, kind, n) = Counted(n)
    BY <1>2 DEF Filled, Said
  <2> QED BY <1>0, <1>2, <1>a, <2>1
<1>3. CASE part = "original"
  <2>1. Filled(part, kind, n, base, value) = base
    BY <1>3 DEF Filled
  <2> QED BY <1>3, <2>1 DEF Open
<1>4. CASE part = "value"
  <2>1. Atom("value") \in Atoms
    BY NamingAssumption DEF Atom, Atoms
  <2>2. Filled(part, kind, n, base, value) = IF value = None THEN << >> ELSE <<Atom(value)>>
    BY <1>4 DEF Filled
  <2>3. <<Atom("value")>> \in Seq(Atoms) /\ << >> \in Seq(Atoms)
    BY <1>0, <2>1
  <2>4. value # None => value = "value"
    OBVIOUS
  <2> HIDE DEF Atom
  <2> QED BY <1>4, <2>2, <2>3, <2>4 DEF Open
<1>5. CASE part \notin {"kind", "number", "original", "value"}
  <2>1. Filled(part, kind, n, base, value) = <<Atom(part)>> /\ Said(part, kind, n) = Atom(part)
    BY <1>5 DEF Filled, Said
  <2> QED BY <1>0, <1>5, <1>a, <2>1
<1> QED BY <1>1, <1>2, <1>3, <1>4, <1>5

\* What is written after each part of a rule.
Writes(K, t, a, n, value) ==
    /\ K[0] = << >>
    /\ \A i \in 1 .. Len(t) : K[i] = Put(K[i - 1], Filled(t[i], a.kind, n, a.base, value))

Trimmed(all) == IF all # << >> /\ all[Len(all)] = Separator THEN SubSeq(all, 1, Len(all) - 1) ELSE all

UpTos(f, t, a, n, value, m) == f = [i \in 0 .. m |-> IF i = 0 THEN << >>
    ELSE Put(f[i - 1], Filled(t[i], a.kind, n, a.base, value))]

LEMMA UpTosExist == ASSUME NEW t, NEW a, NEW n, NEW value, NEW m \in Nat PROVE \E f : UpTos(f, t, a, n, value, m)
<1> DEFINE Bad == {k \in Nat : ~ \E f : UpTos(f, t, a, n, value, k)}
<1> SUFFICES ASSUME Bad # {} PROVE FALSE
  OBVIOUS
<1>1. PICK k \in Bad : \A j \in Bad : k <= j
  BY LeastNat
<1>2. k # 0
  <2>1. UpTos([j \in 0 .. 0 |-> << >>], t, a, n, value, 0)
    BY DEF UpTos
  <2> QED BY <2>1
<1>3. k - 1 \in Nat /\ ~(k <= k - 1)
  BY <1>2
<1>4. PICK f : UpTos(f, t, a, n, value, k - 1)
  BY <1>1, <1>3
<1> DEFINE next(i) == Put(f[i - 1], Filled(t[i], a.kind, n, a.base, value))
           h == [i \in 0 .. k |-> IF i = 0 THEN << >> ELSE next(i)]
<1>5. ASSUME NEW j \in 0 .. k - 1 PROVE h[j] = f[j]
  <2>1. j \in 0 .. k
    BY <1>3
  <2>2. f[j] = IF j = 0 THEN << >> ELSE next(j)
    BY <1>4 DEF UpTos
  <2> QED BY <2>1, <2>2
<1>6. UpTos(h, t, a, n, value, k)
  <2>1. \A j \in 0 .. k : j # 0 => j - 1 \in 0 .. k - 1
    BY <1>3
  <2> QED BY <1>5, <2>1 DEF UpTos
<1> QED BY <1>1, <1>6

LEMMA RenderedIs == ASSUME NEW t, Len(t) \in Nat, NEW a, NEW n, NEW value
    PROVE \E K : Writes(K, t, a, n, value) /\ Rendered(t, a, n, value) = Trimmed(K[Len(t)])
<1> DEFINE Is(f) == f = [i \in 0 .. Len(t) |-> IF i = 0 THEN << >>
                          ELSE Put(f[i - 1], Filled(t[i], a.kind, n, a.base, value))]
           f == CHOOSE g : Is(g)
<1>1. \E g : Is(g)
  <2>1. PICK g : UpTos(g, t, a, n, value, Len(t))
    BY UpTosExist
  <2>2. Is(g)
    BY <2>1 DEF UpTos
  <2> QED BY <2>2
<1>2. Is(f)
  BY <1>1
<1>3. Rendered(t, a, n, value) = Trimmed(f[Len(t)])
  BY DEF Rendered, Trimmed
<1> HIDE DEF f
<1>4. f[0] = << >>
  BY <1>2
<1>5. ASSUME NEW i \in 1 .. Len(t) PROVE f[i] = Put(f[i - 1], Filled(t[i], a.kind, n, a.base, value))
  <2>1. i \in 0 .. Len(t) /\ i # 0
    OBVIOUS
  <2> QED BY <1>2, <2>1
<1>6. Writes(f, t, a, n, value)
  BY <1>4, <1>5 DEF Writes
<1> QED BY <1>3, <1>6

\* What is planned under a rule: every token has a value.
GivenWhole(t, a, n, value) ==
    /\ t \in Seq(Words) /\ a.kind \in FileKinds /\ a.base \in Seq(Atoms) /\ n \in Nat /\ value \in {"value", None}
    /\ Whole(t, a, value)

LEMMA PartsSay == ASSUME NEW t, NEW a, NEW n, NEW value, GivenWhole(t, a, n, value), NEW K, Writes(K, t, a, n, value), NEW i \in 1 .. Len(t)
    PROVE /\ K[i] \in Seq(Atoms) /\ K[i - 1] \in Seq(Atoms) /\ Longer(K[i - 1], K[i])
          /\ i \in Wild(t) => Speaks(K[i - 1], K[i])
          /\ i \notin Wild(t) => K[i] = One(K[i - 1], Said(t[i], a.kind, n))
<1>0. Len(t) \in Nat /\ DOMAIN t = 1 .. Len(t) /\ \A j \in 1 .. Len(t) : t[j] \in Words
  BY DEF GivenWhole
<1> DEFINE s(j) == Filled(t[j], a.kind, n, a.base, value)
<1>1. ASSUME NEW j \in 1 .. Len(t)
      PROVE /\ s(j) \in Seq(Atoms)
            /\ j \notin Wild(t) => s(j) = <<Said(t[j], a.kind, n)>>
            /\ j \in Wild(t) => \E k \in DOMAIN s(j) : s(j)[k] # Separator
  <2>1. t[j] \in Words /\ a.kind \in FileKinds /\ n \in Nat /\ a.base \in Seq(Atoms) /\ value \in {"value", None}
    BY <1>0 DEF GivenWhole
  <2>2. s(j) \in Seq(Atoms) /\ (t[j] \notin Open => s(j) = <<Said(t[j], a.kind, n)>>)
        /\ (t[j] = "original" => s(j) = a.base) /\ (t[j] = "value" /\ value # None => s(j) = <<Atom("value")>>)
    BY <2>1, FilledSays
  <2>3. j \in Wild(t) <=> t[j] \in Open
    BY <1>0 DEF Wild, Open
  <2>4. CASE t[j] = "original"
    <3>1. \E k \in DOMAIN a.base : a.base[k] # Separator
      BY <1>0, <2>4 DEF GivenWhole, Whole, HasPart
    <3> QED BY <2>2, <2>3, <2>4, <3>1 DEF Open
  <2>5. CASE t[j] = "value"
    <3>1. value # None
      BY <1>0, <2>5 DEF GivenWhole, Whole, HasPart
    <3>2. s(j) = <<Atom("value")>> /\ Atom("value") # Separator
      BY <2>2, <2>5, <3>1 DEF Atom, Separator
    <3>3. 1 \in DOMAIN s(j) /\ s(j)[1] # Separator
      BY <3>2
    <3> QED BY <2>2, <2>3, <2>5, <3>3 DEF Open
  <2> HIDE DEF s
  <2> QED BY <2>2, <2>3, <2>4, <2>5 DEF Open
<1>2. \A j \in 1 .. Len(t) : K[j] = Put(K[j - 1], s(j))
  BY DEF Writes
<1> HIDE DEF s
<1> DEFINE Bad == {j \in 0 .. Len(t) : K[j] \notin Seq(Atoms)}
<1>3. Bad = {}
  <2> SUFFICES ASSUME Bad # {} PROVE FALSE
    OBVIOUS
  <2>1. Bad \subseteq Nat
    BY <1>0
  <2>2. PICK j \in Bad : \A k \in Bad : j <= k
    BY <2>1, LeastNat
  <2>3. j # 0
    <3>1. K[0] \in Seq(Atoms)
      BY DEF Writes
    <3> QED BY <2>2, <3>1
  <2>4. j \in 1 .. Len(t) /\ j - 1 \in 0 .. Len(t) /\ ~(j <= j - 1)
    BY <1>0, <2>2, <2>3
  <2>5. K[j - 1] \in Seq(Atoms)
    BY <2>2, <2>4
  <2>6. Longer(K[j - 1], K[j])
    BY <1>1, <1>2, <2>4, <2>5, PutSays
  <2> QED BY <2>2, <2>6 DEF Longer
<1>4. K[i] \in Seq(Atoms) /\ K[i - 1] \in Seq(Atoms)
  <2>1. i \in 0 .. Len(t) /\ i - 1 \in 0 .. Len(t)
    BY <1>0
  <2> QED BY <1>3, <2>1
<1>5. Longer(K[i - 1], K[i]) /\ (i \in Wild(t) => Speaks(K[i - 1], K[i]))
  BY <1>1, <1>2, <1>4, PutSays
<1>6. i \notin Wild(t) => K[i] = One(K[i - 1], Said(t[i], a.kind, n))
  BY <1>1, <1>2, PutOne
<1> QED BY <1>4, <1>5, <1>6

----------------------------------------------------------------------------
(* Where the parts of a rule begin in what is written *)

\* K is what is written under t, whose names can be read back.
Laid(K, t, a, n, value) == GivenWhole(t, a, n, value) /\ ReadsBack(t) /\ Writes(K, t, a, n, value)

EndsOpen(p) == p # << >> /\ p[Len(p)] = Separator

\* An open part leaves a separator at its end to the rule's own, or to nobody.
Gives(t, K, i) == i \in Wild(t) /\ EndsOpen(K[i]) /\ (i = Len(t) \/ t[i + 1] = "sep")

\* Where part i begins.
Cut(t, K, i) == IF i = 1 THEN 1 ELSE IF Gives(t, K, i - 1) THEN Len(K[i - 1]) ELSE Len(K[i - 1]) + 1

LEMMA LaidSays == ASSUME NEW K, NEW t, NEW a, NEW n, NEW value, Laid(K, t, a, n, value)
    PROVE /\ Len(t) \in Nat /\ Len(t) >= 1 /\ DOMAIN t = 1 .. Len(t) /\ a.kind \in FileKinds /\ n \in Nat
          /\ \A i \in 1 .. Len(t) : t[i] \in Words /\ (i \in Wild(t) => t[i] # "sep")
          /\ t[1] # "sep" /\ t[Len(t)] # "sep" /\ \A i \in 1 .. Len(t) - 1 : t[i] = "sep" => t[i + 1] # "sep"
          /\ K[0] = << >>
<1>1. t \in Seq(Words) /\ a.kind \in FileKinds /\ n \in Nat
  BY DEF Laid, GivenWhole
<1>2. K[0] = << >>
  BY DEF Laid, Writes
<1>3. t # << >> /\ t[1] # "sep" /\ t[Len(t)] # "sep"
  BY DEF Laid, ReadsBack
<1>4. \A i \in 1 .. Len(t) - 1 : t[i] = "sep" => t[i + 1] # "sep"
  BY DEF Laid, ReadsBack
<1>5. Len(t) \in Nat /\ Len(t) >= 1 /\ DOMAIN t = 1 .. Len(t)
  BY <1>1, <1>3
<1>6. \A i \in 1 .. Len(t) : t[i] \in Words
  BY <1>1
<1>7. \A i \in 1 .. Len(t) : i \in Wild(t) => t[i] # "sep"
  BY DEF Wild
<1> QED BY <1>1, <1>2, <1>3, <1>4, <1>5, <1>6, <1>7

LEMMA LaidParts == ASSUME NEW K, NEW t, NEW a, NEW n, NEW value, Laid(K, t, a, n, value), NEW i \in 1 .. Len(t)
    PROVE /\ K[i] \in Seq(Atoms) /\ K[i - 1] \in Seq(Atoms) /\ Longer(K[i - 1], K[i])
          /\ i \in Wild(t) => Speaks(K[i - 1], K[i])
          /\ i \notin Wild(t) => K[i] = One(K[i - 1], Said(t[i], a.kind, n))
          /\ Said(t[i], a.kind, n) = Separator <=> t[i] = "sep"
<1>1. GivenWhole(t, a, n, value) /\ Writes(K, t, a, n, value)
  BY DEF Laid
<1>2. t[i] \in Words /\ a.kind \in FileKinds /\ n \in Nat
  BY LaidSays
<1>3. Said(t[i], a.kind, n) = Separator <=> t[i] = "sep"
  BY <1>2, SaidSays
<1> QED BY <1>1, <1>3, PartsSay

LEMMA LaidGrows == ASSUME NEW K, NEW t, NEW a, NEW n, NEW value, Laid(K, t, a, n, value),
                          NEW i \in 0 .. Len(t), NEW j \in 0 .. Len(t), i <= j
    PROVE Longer(K[i], K[j])
<1>0. Len(t) \in Nat /\ Len(t) >= 1
  BY LaidSays
<1> DEFINE Bad == {k \in 0 .. Len(t) : i <= k /\ ~Longer(K[i], K[k])}
<1> SUFFICES ASSUME Bad # {} PROVE FALSE
  OBVIOUS
<1>1. Bad \subseteq Nat
  BY <1>0
<1>2. PICK k \in Bad : \A m \in Bad : k <= m
  BY <1>1, LeastNat
<1>3. K[i] \in Seq(Atoms)
  <2>1. CASE i = 0
    <3>1. K[0] = << >>
      BY LaidSays
    <3>2. << >> \in Seq(Atoms)
      OBVIOUS
    <3> QED BY <2>1, <3>1, <3>2
  <2>2. CASE i # 0
    <3>1. i \in 1 .. Len(t)
      BY <1>0, <2>2
    <3> QED BY <3>1, LaidParts
  <2> QED BY <2>1, <2>2
<1>4. k # i
  <2>1. Longer(K[i], K[i])
    BY <1>3 DEF Longer
  <2> QED BY <1>2, <2>1
<1>5. k \in 1 .. Len(t) /\ k - 1 \in 0 .. Len(t) /\ i <= k - 1 /\ ~(k <= k - 1)
  BY <1>0, <1>2, <1>4
<1>6. Longer(K[i], K[k - 1])
  BY <1>2, <1>5
<1>7. Longer(K[k - 1], K[k])
  BY <1>5, LaidParts
<1> QED BY <1>2, <1>6, <1>7, LongerIs

LEMMA OneIs == ASSUME NEW p \in Seq(Atoms), NEW x \in Atoms
    PROVE /\ One(p, x) = (IF x = Separator /\ (p = << >> \/ EndsOpen(p)) THEN p ELSE Append(p, x))
          /\ Len(Append(p, x)) = Len(p) + 1 /\ Append(p, x)[Len(p) + 1] = x /\ Len(p) \in Nat
          /\ EndsOpen(Append(p, x)) <=> x = Separator
<1>1. PICK q : q = Append(p, x)
  OBVIOUS
<1>2. Len(q) = Len(p) + 1 /\ q[Len(p) + 1] = x /\ Len(p) \in Nat /\ q # << >>
  BY <1>1
<1>3. EndsOpen(q) <=> x = Separator
  BY <1>2 DEF EndsOpen
<1>4. One(p, x) = (IF x = Separator /\ (p = << >> \/ EndsOpen(p)) THEN p ELSE Append(p, x))
  BY DEF One, EndsOpen
<1> QED BY <1>1, <1>2, <1>3, <1>4

LEMMA SpeaksSays == ASSUME NEW p, NEW q, Longer(p, q), Speaks(p, q)
    PROVE Len(p) \in Nat /\ Len(q) \in Nat /\ Len(p) < Len(q) /\ (EndsOpen(q) => Len(p) + 1 < Len(q))
<1>1. Len(p) \in Nat /\ Len(q) \in Nat
  BY DEF Longer
<1>2. PICK i \in Len(p) + 1 .. Len(q) : q[i] # Separator
  BY DEF Speaks
<1>3. EndsOpen(q) => i # Len(q)
  BY <1>2 DEF EndsOpen
<1> QED BY <1>1, <1>2, <1>3

LEMMA LaidStarts == ASSUME NEW K, NEW t, NEW a, NEW n, NEW value, Laid(K, t, a, n, value), NEW i \in 1 .. Len(t)
    PROVE K[i] \in Seq(Atoms) /\ K[i] # << >> /\ Len(K[i]) \in Nat /\ Len(K[i]) >= 1
<1>0. Len(t) \in Nat /\ 1 \in 1 .. Len(t) /\ K[0] = << >> /\ t[1] # "sep" /\ t[1] \in Words /\ a.kind \in FileKinds /\ n \in Nat
  BY LaidSays
<1>1. /\ K[1] \in Seq(Atoms) /\ Longer(K[0], K[1]) /\ (1 \in Wild(t) => Speaks(K[0], K[1]))
      /\ 1 \notin Wild(t) => K[1] = One(K[0], Said(t[1], a.kind, n))
      /\ Said(t[1], a.kind, n) = Separator <=> t[1] = "sep"
  <2>1. 1 - 1 = 0
    OBVIOUS
  <2> QED BY <1>0, <2>1, LaidParts
<1>2. Len(K[1]) >= 1
  <2>1. CASE 1 \in Wild(t)
    BY <1>0, <1>1, <2>1, SpeaksSays
  <2>2. CASE 1 \notin Wild(t)
    <3>1. PICK x \in Atoms : x = Said(t[1], a.kind, n)
      BY <1>0, SaidSays
    <3>2. K[1] = Append(<< >>, x)
      <4>0. << >> \in Seq(Atoms)
        OBVIOUS
      <4>1. PICK p \in Seq(Atoms) : p = << >>
        BY <4>0
      <4>2. K[1] = One(p, x) /\ x # Separator
        BY <1>0, <1>1, <2>2, <3>1, <4>1
      <4> QED BY <4>1, <4>2, OneIs
    <3> QED BY <3>1, <3>2
  <2> QED BY <2>1, <2>2
<1>3. Longer(K[1], K[i])
  BY <1>0, LaidGrows
<1>4. Len(K[1]) \in Nat /\ Len(K[i]) \in Nat /\ K[i] \in Seq(Atoms) /\ Len(K[1]) <= Len(K[i])
  BY <1>3 DEF Longer
<1> QED BY <1>2, <1>4

\* A part that is not open stands where it begins.
LEMMA ShutParts ==
    ASSUME NEW K, NEW t, NEW a, NEW n, NEW value, Laid(K, t, a, n, value), NEW i \in 1 .. Len(t), i \notin Wild(t)
    PROVE /\ Cut(t, K, i) \in 1 .. Len(K[i]) /\ Cut(t, K, i + 1) = Cut(t, K, i) + 1
          /\ K[i][Cut(t, K, i)] = Said(t[i], a.kind, n)
          /\ EndsOpen(K[i]) <=> t[i] = "sep"
<1>0. /\ Len(t) \in Nat /\ i \in Nat /\ t[i] \in Words /\ a.kind \in FileKinds /\ n \in Nat /\ K[0] = << >> /\ t[1] # "sep"
      /\ DOMAIN t = 1 .. Len(t)
      /\ \A k \in 1 .. Len(t) - 1 : t[k] = "sep" => t[k + 1] # "sep"
  BY LaidSays
<1>1. PICK x \in Atoms : x = Said(t[i], a.kind, n) /\ (x = Separator <=> t[i] = "sep")
  BY <1>0, SaidSays
<1>2. PICK p \in Seq(Atoms) : p = K[i - 1]
  BY LaidParts
<1>3. K[i] = One(p, x)
  BY <1>1, <1>2, LaidParts
<1>4. Cut(t, K, i + 1) = Len(K[i]) + 1
  <2>1. i + 1 # 1 /\ (i + 1) - 1 = i
    BY <1>0
  <2> QED BY <2>1 DEF Cut, Gives
<1>5. CASE t[i] # "sep"
  <2>1. K[i] = Append(p, x)
    BY <1>1, <1>3, <1>5, OneIs
  <2>2. Cut(t, K, i) = Len(p) + 1
    <3>1. CASE i = 1
      BY <1>0, <1>2, <3>1 DEF Cut
    <3>2. CASE i # 1
      <4>1. ~Gives(t, K, i - 1)
        <5>1. i - 1 # Len(t) /\ (i - 1) + 1 = i
          BY <1>0
        <5> QED BY <1>5, <5>1 DEF Gives
      <4> QED BY <1>2, <3>2, <4>1 DEF Cut
    <3> QED BY <3>1, <3>2
  <2>3. Len(K[i]) = Len(p) + 1 /\ K[i][Len(p) + 1] = x /\ Len(p) \in Nat /\ ~EndsOpen(K[i])
    BY <1>1, <1>5, <2>1, OneIs
  <2> QED BY <1>1, <1>4, <1>5, <2>2, <2>3
<1>6. CASE t[i] = "sep"
  <2>0. i # 1 /\ i - 1 \in 1 .. Len(t) /\ (i - 1) + 1 = i /\ i - 1 # Len(t)
    BY <1>0, <1>6
  <2>1. p # << >> /\ Len(p) >= 1 /\ Len(p) \in Nat
    BY <1>2, <2>0, LaidStarts
  <2>2. CASE EndsOpen(p)
    <3>1. K[i] = p
      BY <1>1, <1>3, <1>6, <2>2, OneIs
    <3>2. i - 1 \in Wild(t)
      <4> SUFFICES ASSUME i - 1 \notin Wild(t) PROVE FALSE
        OBVIOUS
      <4>1. K[i - 1] = One(K[i - 2], Said(t[i - 1], a.kind, n)) /\ K[i - 2] \in Seq(Atoms)
        <5>1. (i - 1) - 1 = i - 2
          BY <1>0
        <5> QED BY <2>0, <5>1, LaidParts
      <4>2. t[i - 1] \in Words /\ t[i - 1] # "sep"
        <5>1. i - 1 \in 1 .. Len(t) - 1
          BY <1>0, <2>0
        <5>2. t[i - 1] = "sep" => t[i] # "sep"
          BY <1>0, <2>0, <5>1
        <5> QED BY <1>6, <2>0, <5>2, LaidSays
      <4>3. PICK y \in Atoms : y = Said(t[i - 1], a.kind, n) /\ y # Separator
        BY <1>0, <4>2, SaidSays
      <4>4. K[i - 1] = Append(K[i - 2], y)
        BY <4>1, <4>3, OneIs
      <4> QED BY <1>2, <2>2, <4>1, <4>3, <4>4, OneIs
    <3>3. Gives(t, K, i - 1)
      BY <1>2, <1>6, <2>0, <2>2, <3>2 DEF Gives
    <3>4. Cut(t, K, i) = Len(p)
      BY <1>2, <2>0, <3>3 DEF Cut
    <3>5. p[Len(p)] = Separator
      BY <2>2 DEF EndsOpen
    <3> QED BY <1>1, <1>4, <1>6, <2>1, <2>2, <3>1, <3>4, <3>5
  <2>3. CASE ~EndsOpen(p)
    <3>1. K[i] = Append(p, x)
      BY <1>1, <1>3, <2>1, <2>3, OneIs
    <3>2. ~Gives(t, K, i - 1)
      BY <1>2, <2>3 DEF Gives
    <3>3. Cut(t, K, i) = Len(p) + 1
      BY <1>2, <2>0, <3>2 DEF Cut
    <3>4. Len(K[i]) = Len(p) + 1 /\ K[i][Len(p) + 1] = x /\ EndsOpen(K[i])
      BY <1>1, <1>6, <3>1, OneIs
    <3> QED BY <1>1, <1>4, <1>6, <2>1, <3>3, <3>4
  <2> QED BY <2>2, <2>3
<1> QED BY <1>5, <1>6

\* An open part is at least one atom long.
LEMMA OpenParts ==
    ASSUME NEW K, NEW t, NEW a, NEW n, NEW value, Laid(K, t, a, n, value), NEW i \in Wild(t)
    PROVE /\ i \in 1 .. Len(t) /\ Cut(t, K, i) \in Nat /\ Cut(t, K, i) >= 1 /\ Cut(t, K, i + 1) \in Nat
          /\ Cut(t, K, i) < Cut(t, K, i + 1) /\ Cut(t, K, i + 1) <= Len(K[i]) + 1
<1>0. /\ Len(t) \in Nat /\ DOMAIN t = 1 .. Len(t) /\ K[0] = << >> /\ i \in 1 .. Len(t) /\ i \in Nat /\ t[i] # "sep"
  BY LaidSays DEF Wild
<1>1. Longer(K[i - 1], K[i]) /\ Speaks(K[i - 1], K[i])
  BY <1>0, LaidParts
<1>2. Len(K[i - 1]) \in Nat /\ Len(K[i]) \in Nat /\ Len(K[i - 1]) < Len(K[i]) /\ (EndsOpen(K[i]) => Len(K[i - 1]) + 1 < Len(K[i]))
  BY <1>1, SpeaksSays
<1>3. Cut(t, K, i) = Len(K[i - 1]) + 1
  <2>1. CASE i = 1
    <3>1. K[i - 1] = << >>
      BY <1>0, <2>1
    <3> QED BY <2>1, <3>1 DEF Cut
  <2>2. CASE i # 1
    <3>1. i - 1 # Len(t) /\ (i - 1) + 1 = i
      BY <1>0
    <3>2. ~Gives(t, K, i - 1)
      BY <1>0, <3>1 DEF Gives
    <3> QED BY <2>2, <3>2 DEF Cut
  <2> QED BY <2>1, <2>2
<1>4. Cut(t, K, i + 1) = IF Gives(t, K, i) THEN Len(K[i]) ELSE Len(K[i]) + 1
  <2>1. i + 1 # 1 /\ (i + 1) - 1 = i
    BY <1>0
  <2> QED BY <2>1 DEF Cut
<1>5. Gives(t, K, i) => EndsOpen(K[i])
  BY DEF Gives
<1>6. PICK b \in Nat : b = Len(K[i - 1])
  BY <1>2
<1>7. PICK c \in Nat : c = Len(K[i])
  BY <1>2
<1>8. b < c /\ (Gives(t, K, i) => b + 1 < c)
  BY <1>2, <1>5, <1>6, <1>7
<1>9. Cut(t, K, i) = b + 1 /\ Cut(t, K, i + 1) = IF Gives(t, K, i) THEN c ELSE c + 1
  BY <1>3, <1>4, <1>6, <1>7
<1>10. CASE Gives(t, K, i)
  <2>1. Cut(t, K, i + 1) = c /\ b + 1 < c
    BY <1>8, <1>9, <1>10
  <2> QED BY <1>0, <1>7, <1>9, <2>1
<1>11. CASE ~Gives(t, K, i)
  <2>1. Cut(t, K, i + 1) = c + 1
    BY <1>9, <1>11
  <2> QED BY <1>0, <1>7, <1>8, <1>9, <2>1
<1> QED BY <1>10, <1>11

----------------------------------------------------------------------------
(* Where a reading says they begin *)

Ats(f, t, lens, m) == f = [k \in 1 .. m |-> IF k = 1 THEN 1
    ELSE f[k - 1] + (IF k - 1 \in Wild(t) THEN lens[k - 1] ELSE 1)]

LEMMA AtsExist == ASSUME NEW t, NEW lens, NEW m \in Nat PROVE \E f : Ats(f, t, lens, m)
<1> DEFINE Bad == {k \in Nat : ~ \E f : Ats(f, t, lens, k)}
<1> SUFFICES ASSUME Bad # {} PROVE FALSE
  OBVIOUS
<1>1. PICK k \in Bad : \A j \in Bad : k <= j
  BY LeastNat
<1>2. k # 0
  <2>1. Ats([j \in 1 .. 0 |-> 1], t, lens, 0)
    BY DEF Ats
  <2> QED BY <2>1
<1>3. k - 1 \in Nat /\ ~(k <= k - 1)
  BY <1>2
<1>4. PICK f : Ats(f, t, lens, k - 1)
  BY <1>1, <1>3
<1> DEFINE next(i) == f[i - 1] + (IF i - 1 \in Wild(t) THEN lens[i - 1] ELSE 1)
           h == [i \in 1 .. k |-> IF i = 1 THEN 1 ELSE next(i)]
<1>5. ASSUME NEW j \in 1 .. k - 1 PROVE h[j] = f[j]
  <2>1. j \in 1 .. k
    BY <1>3
  <2>2. f[j] = IF j = 1 THEN 1 ELSE next(j)
    BY <1>4 DEF Ats
  <2> QED BY <2>1, <2>2
<1>6. Ats(h, t, lens, k)
  <2>1. ASSUME NEW j \in 1 .. k, j # 1 PROVE h[j - 1] = f[j - 1]
    <3>1. j - 1 \in 1 .. k - 1
      BY <1>3, <2>1
    <3> QED BY <1>5, <3>1
  <2> HIDE DEF next
  <2>2. \A j \in 1 .. k : j # 1 => next(j) = h[j - 1] + (IF j - 1 \in Wild(t) THEN lens[j - 1] ELSE 1)
    BY <2>1 DEF next
  <2>3. h = [j \in 1 .. k |-> IF j = 1 THEN 1 ELSE h[j - 1] + (IF j - 1 \in Wild(t) THEN lens[j - 1] ELSE 1)]
    BY <2>2
  <2> QED BY <2>3 DEF Ats
<1> QED BY <1>1, <1>6

LEMMA PartAtIs == ASSUME NEW t, Len(t) \in Nat, NEW lens
    PROVE /\ PartAt(t, lens, 1) = 1
          /\ \A k \in 1 .. Len(t) : PartAt(t, lens, k + 1) = PartAt(t, lens, k) + (IF k \in Wild(t) THEN lens[k] ELSE 1)
<1> DEFINE Is(f) == f = [k \in 1 .. Len(t) + 1 |-> IF k = 1 THEN 1
                          ELSE f[k - 1] + (IF k - 1 \in Wild(t) THEN lens[k - 1] ELSE 1)]
           f == CHOOSE g : Is(g)
<1>1. \E g : Is(g)
  <2>1. Len(t) + 1 \in Nat
    OBVIOUS
  <2>2. \E g : Ats(g, t, lens, Len(t) + 1)
    BY <2>1, AtsExist
  <2> QED BY <2>2 DEF Ats
<1>2. Is(f)
  BY <1>1
<1>3. \A k : PartAt(t, lens, k) = f[k]
  BY DEF PartAt
<1> HIDE DEF f
<1>4. f[1] = 1
  <2>1. 1 \in 1 .. Len(t) + 1
    OBVIOUS
  <2> QED BY <1>2, <2>1
<1>5. ASSUME NEW k \in 1 .. Len(t) PROVE f[k + 1] = f[k] + (IF k \in Wild(t) THEN lens[k] ELSE 1)
  <2>1. k + 1 \in 1 .. Len(t) + 1 /\ k + 1 # 1 /\ (k + 1) - 1 = k
    OBVIOUS
  <2> QED BY <1>2, <2>1
<1> QED BY <1>3, <1>4, <1>5

LEMMA PartAtNat == ASSUME NEW t, Len(t) \in Nat, NEW lens, \A i \in Wild(t) : lens[i] \in Nat, NEW k \in 1 .. Len(t) + 1
    PROVE PartAt(t, lens, k) \in Nat
<1> DEFINE Bad == {j \in 1 .. Len(t) + 1 : PartAt(t, lens, j) \notin Nat}
<1> SUFFICES ASSUME Bad # {} PROVE FALSE
  OBVIOUS
<1>a. \A m \in 1 .. Len(t) : PartAt(t, lens, m + 1) = PartAt(t, lens, m) + (IF m \in Wild(t) THEN lens[m] ELSE 1)
  BY PartAtIs
<1>1. Bad \subseteq Nat
  OBVIOUS
<1>2. PICK j \in Bad : \A m \in Bad : j <= m
  BY <1>1, LeastNat
<1>3. j # 1
  BY PartAtIs
<1>4. j - 1 \in 1 .. Len(t) /\ j - 1 \in 1 .. Len(t) + 1 /\ ~(j <= j - 1) /\ (j - 1) + 1 = j
  BY <1>2, <1>3
<1>5. PartAt(t, lens, j - 1) \in Nat
  BY <1>2, <1>4
<1>6. PartAt(t, lens, j) = PartAt(t, lens, j - 1) + (IF j - 1 \in Wild(t) THEN lens[j - 1] ELSE 1)
  BY <1>4, <1>a
<1>7. j - 1 \in Wild(t) => lens[j - 1] \in Nat
  OBVIOUS
<1> QED BY <1>2, <1>5, <1>6, <1>7

\* Before the first open part, part i is atom i.
LEMMA PartAtFirst == ASSUME NEW t, Len(t) \in Nat, NEW lens, NEW i \in 1 .. Len(t), \A j \in Wild(t) : i < j
    PROVE PartAt(t, lens, i) = i
<1> DEFINE Bad == {j \in 1 .. i : PartAt(t, lens, j) # j}
<1> SUFFICES ASSUME Bad # {} PROVE FALSE
  OBVIOUS
<1>a. \A m \in 1 .. Len(t) : PartAt(t, lens, m + 1) = PartAt(t, lens, m) + (IF m \in Wild(t) THEN lens[m] ELSE 1)
  BY PartAtIs
<1>1. Bad \subseteq Nat
  OBVIOUS
<1>2. PICK j \in Bad : \A m \in Bad : j <= m
  BY <1>1, LeastNat
<1>3. j # 1
  BY PartAtIs
<1>4. j - 1 \in 1 .. Len(t) /\ j - 1 \in 1 .. i /\ ~(j <= j - 1) /\ (j - 1) + 1 = j /\ ~(i < j - 1)
  BY <1>2, <1>3
<1>5. PartAt(t, lens, j - 1) = j - 1
  BY <1>2, <1>4
<1>6. j - 1 \notin Wild(t)
  BY <1>4
<1>7. PartAt(t, lens, j) = PartAt(t, lens, j - 1) + 1
  BY <1>4, <1>6, <1>a
<1> QED BY <1>2, <1>4, <1>5, <1>7

\* Behind the last open part, every part is one atom.
LEMMA PartAtLast == ASSUME NEW t, Len(t) \in Nat, NEW lens, \A j \in Wild(t) : lens[j] \in Nat,
                           NEW i \in 1 .. Len(t), \A j \in Wild(t) : j < i, NEW k \in i .. Len(t) + 1
    PROVE PartAt(t, lens, k) = PartAt(t, lens, i) + (k - i)
<1> DEFINE Bad == {j \in i .. Len(t) + 1 : PartAt(t, lens, j) # PartAt(t, lens, i) + (j - i)}
<1> SUFFICES ASSUME Bad # {} PROVE FALSE
  OBVIOUS
<1>a. \A m \in 1 .. Len(t) : PartAt(t, lens, m + 1) = PartAt(t, lens, m) + (IF m \in Wild(t) THEN lens[m] ELSE 1)
  BY PartAtIs
<1>0. i \in Nat /\ i \in 1 .. Len(t) + 1 /\ Bad \subseteq Nat
  OBVIOUS
<1>1. PartAt(t, lens, i) \in Nat
  BY <1>0, PartAtNat
<1>2. PICK j \in Bad : \A m \in Bad : j <= m
  BY <1>0, LeastNat
<1>3. j # i
  BY <1>1, <1>2
<1>4. j - 1 \in 1 .. Len(t) /\ j - 1 \in i .. Len(t) + 1 /\ ~(j <= j - 1) /\ (j - 1) + 1 = j /\ ~(j - 1 < i)
  BY <1>2, <1>3
<1>5. PartAt(t, lens, j - 1) = PartAt(t, lens, i) + ((j - 1) - i)
  BY <1>2, <1>4
<1>6. j - 1 \notin Wild(t)
  BY <1>4
<1>7. PartAt(t, lens, j) = PartAt(t, lens, j - 1) + 1
  BY <1>4, <1>6, <1>a
<1> QED BY <1>1, <1>2, <1>4, <1>5, <1>7

LEMMA CutNat == ASSUME NEW K, NEW t, NEW a, NEW n, NEW value, Laid(K, t, a, n, value), NEW i \in 1 .. Len(t) + 1
    PROVE Cut(t, K, i) \in Nat
<1>0. Len(t) \in Nat
  BY LaidSays
<1>1. CASE i = 1
  BY <1>1 DEF Cut
<1>2. CASE i # 1
  <2>1. PICK j \in 1 .. Len(t) : j = i - 1
    BY <1>0, <1>2
  <2>2. j + 1 = i
    BY <2>1
  <2>3. CASE j \in Wild(t)
    BY <2>2, <2>3, OpenParts
  <2>4. CASE j \notin Wild(t)
    <3>1. Cut(t, K, j) \in 1 .. Len(K[j]) /\ Cut(t, K, j + 1) = Cut(t, K, j) + 1
      BY <2>4, ShutParts
    <3> QED BY <2>2, <3>1
  <2> QED BY <2>3, <2>4
<1> QED BY <1>1, <1>2

LEMMA CutNext == ASSUME NEW K, NEW t, NEW a, NEW n, NEW value, Laid(K, t, a, n, value), NEW i \in 1 .. Len(t)
    PROVE Cut(t, K, i) < Cut(t, K, i + 1)
<1>0. Len(t) \in Nat /\ i \in 1 .. Len(t) + 1
  BY LaidSays
<1>1. Cut(t, K, i) \in Nat
  BY <1>0, CutNat
<1>3. CASE i \in Wild(t)
  BY <1>3, OpenParts
<1>4. CASE i \notin Wild(t)
  BY <1>1, <1>4, ShutParts
<1> QED BY <1>3, <1>4

LEMMA CutGrows == ASSUME NEW K, NEW t, NEW a, NEW n, NEW value, Laid(K, t, a, n, value), NEW i \in 1 .. Len(t)
    PROVE Cut(t, K, i) < Cut(t, K, Len(t) + 1)
<1>0. Len(t) \in Nat /\ i \in Nat
  BY LaidSays
<1> DEFINE Bad == {k \in i + 1 .. Len(t) + 1 : ~(Cut(t, K, i) < Cut(t, K, k))}
<1>1. Bad = {}
  <2> SUFFICES ASSUME Bad # {} PROVE FALSE
    OBVIOUS
  <2>1. Bad \subseteq Nat
    BY <1>0
  <2>2. PICK k \in Bad : \A m \in Bad : k <= m
    BY <2>1, LeastNat
  <2>3. k # i + 1
    BY <2>2, CutNext
  <2>4. k - 1 \in i + 1 .. Len(t) + 1 /\ k - 1 \in 1 .. Len(t) /\ ~(k <= k - 1) /\ (k - 1) + 1 = k
    BY <1>0, <2>2, <2>3
  <2>5. Cut(t, K, i) < Cut(t, K, k - 1)
    BY <2>2, <2>4
  <2>6. Cut(t, K, k - 1) < Cut(t, K, (k - 1) + 1)
    BY <2>4, CutNext
  <2>7. i \in 1 .. Len(t) + 1 /\ k - 1 \in 1 .. Len(t) + 1 /\ k \in 1 .. Len(t) + 1
    BY <1>0, <2>4
  <2>8. Cut(t, K, i) \in Nat /\ Cut(t, K, k - 1) \in Nat /\ Cut(t, K, k) \in Nat
    BY <2>7, CutNat
  <2> QED BY <2>2, <2>4, <2>5, <2>6, <2>8
<1>2. Len(t) + 1 \in i + 1 .. Len(t) + 1
  BY <1>0
<1> QED BY <1>1, <1>2

\* How long the open parts came out.
Lengths(t, K) == [i \in Wild(t) |-> Cut(t, K, i + 1) - Cut(t, K, i)]

LEMMA CutIs == ASSUME NEW K, NEW t, NEW a, NEW n, NEW value, Laid(K, t, a, n, value), NEW k \in 1 .. Len(t) + 1
    PROVE PartAt(t, Lengths(t, K), k) = Cut(t, K, k)
<1>0. Len(t) \in Nat
  BY LaidSays
<1> DEFINE lens == Lengths(t, K)
           Bad == {j \in 1 .. Len(t) + 1 : PartAt(t, lens, j) # Cut(t, K, j)}
<1> SUFFICES ASSUME Bad # {} PROVE FALSE
  OBVIOUS
<1>1. Bad \subseteq Nat
  BY <1>0
<1>2. PICK j \in Bad : \A m \in Bad : j <= m
  BY <1>1, LeastNat
<1>3. j # 1
  <2>1. PartAt(t, lens, 1) = 1
    BY <1>0, PartAtIs
  <2>2. Cut(t, K, 1) = 1
    BY DEF Cut
  <2> HIDE DEF lens
  <2> QED BY <1>2, <2>1, <2>2
<1>4. j - 1 \in 1 .. Len(t) /\ j - 1 \in 1 .. Len(t) + 1 /\ ~(j <= j - 1) /\ (j - 1) + 1 = j
  BY <1>0, <1>2, <1>3
<1>5. PartAt(t, lens, j - 1) = Cut(t, K, j - 1)
  BY <1>2, <1>4
<1>6. PartAt(t, lens, j) = PartAt(t, lens, j - 1) + (IF j - 1 \in Wild(t) THEN lens[j - 1] ELSE 1)
  <2> HIDE DEF lens
  <2>1. \A m \in 1 .. Len(t) : PartAt(t, lens, m + 1) = PartAt(t, lens, m) + (IF m \in Wild(t) THEN lens[m] ELSE 1)
    BY <1>0, PartAtIs
  <2>2. PartAt(t, lens, (j - 1) + 1) = PartAt(t, lens, j - 1) + (IF j - 1 \in Wild(t) THEN lens[j - 1] ELSE 1)
    BY <1>4, <2>1
  <2>3. PICK r : r = PartAt(t, lens, j - 1) + (IF j - 1 \in Wild(t) THEN lens[j - 1] ELSE 1)
    OBVIOUS
  <2>4. PartAt(t, lens, (j - 1) + 1) = r
    BY <2>2, <2>3
  <2>5. PartAt(t, lens, j) = r
    BY <1>4, <2>4
  <2> QED BY <2>3, <2>5
<1>7. Cut(t, K, j - 1) \in Nat /\ Cut(t, K, j) \in Nat
  BY <1>4, CutNat
<1>8. CASE j - 1 \in Wild(t)
  <2>1. lens[j - 1] = Cut(t, K, (j - 1) + 1) - Cut(t, K, j - 1)
    BY <1>8 DEF Lengths
  <2> QED BY <1>2, <1>4, <1>5, <1>6, <1>7, <1>8, <2>1
<1>9. CASE j - 1 \notin Wild(t)
  <2>1. Cut(t, K, (j - 1) + 1) = Cut(t, K, j - 1) + 1
    BY <1>4, <1>9, ShutParts
  <2> QED BY <1>2, <1>4, <1>5, <1>6, <1>9, <2>1
<1> QED BY <1>8, <1>9

----------------------------------------------------------------------------
(* A name is read as it was written *)

\* The parts of a rendered name stand where they were put.
Stands(R, t, K, a, n) ==
    /\ R \in Seq(Atoms) /\ Cut(t, K, Len(t) + 1) = Len(R) + 1
    /\ \A i \in 1 .. Len(t) : i \notin Wild(t) => Cut(t, K, i) \in 1 .. Len(R) /\ R[Cut(t, K, i)] = Said(t[i], a.kind, n)

LEMMA TrimmedIs == ASSUME NEW p \in Seq(Atoms)
    PROVE /\ Trimmed(p) \in Seq(Atoms) /\ Len(p) \in Nat
          /\ Len(Trimmed(p)) = (IF EndsOpen(p) THEN Len(p) - 1 ELSE Len(p))
          /\ \A j \in 1 .. Len(Trimmed(p)) : Trimmed(p)[j] = p[j]
<1>1. CASE EndsOpen(p)
  <2>1. PICK q : q = SubSeq(p, 1, Len(p) - 1)
    OBVIOUS
  <2>2. Trimmed(p) = q
    BY <1>1, <2>1 DEF Trimmed, EndsOpen
  <2>3. Len(p) \in Nat /\ Len(p) >= 1
    BY <1>1 DEF EndsOpen
  <2>4. q \in Seq(Atoms) /\ Len(q) = Len(p) - 1 /\ \A j \in 1 .. Len(q) : q[j] = p[j]
    <3>0. Len(p) - 1 \in Nat /\ Len(p) - 1 <= Len(p)
      BY <2>3
    <3>1. PICK m \in Nat : m = Len(p) - 1 /\ m <= Len(p)
      BY <3>0
    <3>2. q = SubSeq(p, 1, m)
      BY <2>1, <3>1
    <3>3. q \in Seq(Atoms)
      <4>1. \A j \in 1 .. m : p[j] \in Atoms
        BY <2>3, <3>1
      <4>2. q = [j \in 1 .. m |-> p[j]]
        BY <2>3, <3>1, <3>2
      <4> QED BY <3>1, <4>1, <4>2
    <3>4. Len(q) = m
      BY <2>3, <3>1, <3>2
    <3>5. \A j \in 1 .. m : q[j] = p[j]
      BY <2>3, <3>1, <3>2
    <3> QED BY <3>1, <3>3, <3>4, <3>5
  <2> QED BY <1>1, <2>2, <2>3, <2>4
<1>2. CASE ~EndsOpen(p)
  BY <1>2 DEF Trimmed, EndsOpen
<1> QED BY <1>1, <1>2

LEMMA RenderedStands ==
    ASSUME NEW K, NEW t, NEW a, NEW n, NEW value, Laid(K, t, a, n, value), NEW R, R = Trimmed(K[Len(t)])
    PROVE Stands(R, t, K, a, n)
<1>0. /\ Len(t) \in Nat /\ Len(t) \in 1 .. Len(t) /\ t[Len(t)] # "sep" /\ Len(t) + 1 # 1 /\ (Len(t) + 1) - 1 = Len(t)
      /\ Len(t) \in 0 .. Len(t)
  BY LaidSays
<1>1. PICK p \in Seq(Atoms) : p = K[Len(t)]
  BY <1>0, LaidStarts
<1>2. /\ R \in Seq(Atoms) /\ Len(p) \in Nat /\ Len(R) = (IF EndsOpen(p) THEN Len(p) - 1 ELSE Len(p))
      /\ \A j \in 1 .. Len(R) : R[j] = p[j]
  BY <1>1, TrimmedIs
<1>3. EndsOpen(p) <=> Gives(t, K, Len(t))
  <2>1. CASE Len(t) \in Wild(t)
    BY <1>1, <2>1 DEF Gives
  <2>2. CASE Len(t) \notin Wild(t)
    <3>1. ~EndsOpen(p)
      BY <1>0, <1>1, <2>2, ShutParts
    <3> QED BY <2>2, <3>1 DEF Gives
  <2> QED BY <2>1, <2>2
<1>4. Cut(t, K, Len(t) + 1) = Len(R) + 1
  <2>1. Cut(t, K, Len(t) + 1) = IF Gives(t, K, Len(t)) THEN Len(p) ELSE Len(p) + 1
    BY <1>0, <1>1 DEF Cut
  <2> QED BY <1>2, <1>3, <2>1
<1>5. ASSUME NEW i \in 1 .. Len(t), i \notin Wild(t)
      PROVE Cut(t, K, i) \in 1 .. Len(R) /\ R[Cut(t, K, i)] = Said(t[i], a.kind, n)
  <2>1. Cut(t, K, i) \in 1 .. Len(K[i]) /\ K[i][Cut(t, K, i)] = Said(t[i], a.kind, n)
    BY <1>5, ShutParts
  <2>2. Cut(t, K, i) < Cut(t, K, Len(t) + 1)
    BY CutGrows
  <2>3. Len(R) \in Nat
    BY <1>2
  <2>4. Cut(t, K, i) \in 1 .. Len(R)
    BY <1>4, <2>1, <2>2, <2>3
  <2>5. Longer(K[i], K[Len(t)])
    <3>1. i \in 0 .. Len(t) /\ i <= Len(t)
      BY <1>0
    <3> QED BY <1>0, <3>1, LaidGrows
  <2>6. p[Cut(t, K, i)] = K[i][Cut(t, K, i)]
    BY <1>1, <2>1, <2>5 DEF Longer
  <2> QED BY <1>2, <2>1, <2>4, <2>6
<1> QED BY <1>2, <1>4, <1>5 DEF Stands

\* A name is what was rendered, with an ending or not.
EndsIn(name, R) ==
    /\ name \in Seq(Atoms) /\ R \in Seq(Atoms) /\ Len(R) \in Nat /\ Len(name) \in {Len(R), Len(R) + 1}
    /\ \A j \in 1 .. Len(R) : name[j] = R[j]
    /\ Len(name) = Len(R) + 1 => name[Len(name)].a \in Endings

Exts == {<< >>} \cup {<<x>> : x \in {y \in Atoms : y.a \in Endings}}

LEMMA EndingsAre == \A e \in Endings : Atom(e) \in Atoms /\ Atom(e).a = e
  BY NamingAssumption DEF Atom, Atoms

LEMMA NameEndsIn == ASSUME NEW R \in Seq(Atoms), NEW ext \in Exts, NEW name, name = R \o ext
    PROVE EndsIn(name, R)
<1>1. CASE ext = << >>
  <2>1. name = R
    BY <1>1
  <2>2. Len(R) \in Nat
    OBVIOUS
  <2> QED BY <2>1, <2>2 DEF EndsIn
<1>2. CASE ext # << >>
  <2>2. PICK x \in Atoms : ext = <<x>> /\ x.a \in Endings
    BY <1>2 DEF Exts
  <2>3. name = R \o <<x>>
    BY <2>2
  <2>4. name \in Seq(Atoms) /\ Len(name) = Len(R) + 1 /\ Len(R) \in Nat
    BY <2>3
  <2>5. \A j \in 1 .. Len(R) : name[j] = R[j]
    BY <2>3, <2>4
  <2>6. name[Len(name)] = x
    BY <2>3, <2>4
  <2> QED BY <2>2, <2>4, <2>5, <2>6 DEF EndsIn
<1> QED BY <1>1, <1>2

LEMMA ReadsItself ==
    ASSUME NEW K, NEW t, NEW a, NEW n, NEW value, Laid(K, t, a, n, value),
           NEW R, Stands(R, t, K, a, n), NEW name, EndsIn(name, R)
    PROVE Lengths(t, K) \in Readings(t, name)
<1> DEFINE lens == Lengths(t, K)
<1>0. /\ Len(t) \in Nat /\ DOMAIN t = 1 .. Len(t) /\ Wild(t) \subseteq 1 .. Len(t) /\ Len(t) + 1 \in 1 .. Len(t) + 1
      /\ Len(R) \in Nat /\ Len(name) \in {Len(R), Len(R) + 1}
  <2>1. Len(t) \in Nat /\ DOMAIN t = 1 .. Len(t)
    BY LaidSays
  <2> QED BY <2>1 DEF Wild, EndsIn
<1>1. Cut(t, K, Len(t) + 1) = Len(R) + 1
  BY DEF Stands
<1>2. ASSUME NEW i \in Wild(t) PROVE Cut(t, K, i + 1) - Cut(t, K, i) \in 1 .. Len(name)
  <2>1. Cut(t, K, i) \in Nat /\ Cut(t, K, i) >= 1 /\ Cut(t, K, i + 1) \in Nat /\ Cut(t, K, i) < Cut(t, K, i + 1)
    BY OpenParts
  <2>2. Cut(t, K, i + 1) <= Len(R) + 1
    <3>1. CASE i = Len(t)
      BY <1>0, <1>1, <3>1
    <3>2. CASE i # Len(t)
      <4>1. i + 1 \in 1 .. Len(t)
        BY <1>0, <3>2
      <4>2. Cut(t, K, i + 1) < Cut(t, K, Len(t) + 1)
        BY <4>1, CutGrows
      <4> QED BY <1>0, <1>1, <2>1, <4>2
    <3> QED BY <3>1, <3>2
  <2> QED BY <1>0, <2>1, <2>2
<1>3. lens \in [Wild(t) -> 1 .. Len(name)]
  BY <1>2 DEF Lengths
<1>4. PartAt(t, lens, Len(t) + 1) = Len(R) + 1
  BY <1>0, <1>1, CutIs
<1>5. ASSUME NEW i \in DOMAIN t \ Wild(t) PROVE PartFits(t[i], name[PartAt(t, lens, i)])
  <2>1. i \in 1 .. Len(t) /\ i \in 1 .. Len(t) + 1 /\ i \notin Wild(t)
    BY <1>0
  <2>2. PartAt(t, lens, i) = Cut(t, K, i)
    BY <2>1, CutIs
  <2>3. Cut(t, K, i) \in 1 .. Len(R) /\ R[Cut(t, K, i)] = Said(t[i], a.kind, n)
    BY <2>1 DEF Stands
  <2>4. name[Cut(t, K, i)] = Said(t[i], a.kind, n)
    BY <2>3 DEF EndsIn
  <2>5. t[i] \in Words /\ a.kind \in FileKinds /\ n \in Nat
    BY <2>1, LaidSays
  <2> QED BY <2>2, <2>4, <2>5, SaidSays
<1>6. Len(R) + 1 = Len(name) + 1 \/ (Len(R) + 1 = Len(name) /\ name[Len(R) + 1].a \in Endings)
  BY <1>0 DEF EndsIn
<1>7. (Len(R) + 1) - 1 <= Len(name)
  BY <1>0
<1> HIDE DEF lens
<1>8. lens \in Readings(t, name)
  BY <1>3, <1>4, <1>5, <1>6, <1>7 DEF Readings
<1> QED BY <1>8 DEF lens

LEMMA ReadingIs == ASSUME NEW t, NEW name, NEW lens \in Readings(t, name)
    PROVE /\ lens \in [Wild(t) -> 1 .. Len(name)]
          /\ PartAt(t, lens, Len(t) + 1) - 1 <= Len(name)
          /\ \A i \in DOMAIN t \ Wild(t) : PartFits(t[i], name[PartAt(t, lens, i)])
          /\ \/ PartAt(t, lens, Len(t) + 1) = Len(name) + 1
             \/ PartAt(t, lens, Len(t) + 1) = Len(name) /\ name[PartAt(t, lens, Len(t) + 1)].a \in Endings
  BY DEF Readings

\* What fits the last part of a rule whose names can be read back is no ending.
LEMMA FitsNoEnding == ASSUME NEW part, part \notin Endings, NEW x, PartFits(part, x) PROVE x.a \notin Endings
<1>1. CASE part = "kind"
  BY <1>1 DEF PartFits, FileKinds, Endings
<1>2. CASE part = "number"
  BY <1>2 DEF PartFits, Endings
<1>3. CASE part \notin {"kind", "number"}
  <2>1. x = Atom(part)
    BY <1>3 DEF PartFits
  <2> QED BY <2>1 DEF Atom
<1> QED BY <1>1, <1>2, <1>3

LEMMA SaidAt ==
    ASSUME NEW K, NEW t, NEW a, NEW n, NEW value, Laid(K, t, a, n, value),
           NEW R, Stands(R, t, K, a, n), NEW name, EndsIn(name, R),
           NEW lens \in Readings(t, name), NEW i \in 1 .. Len(t), t[i] \in {"number", "kind"}
    PROVE name[PartAt(t, lens, i)] = Said(t[i], a.kind, n)
<1>0. /\ Len(t) \in Nat /\ DOMAIN t = 1 .. Len(t) /\ Len(R) \in Nat /\ Len(name) \in {Len(R), Len(R) + 1} /\ i \in 1 .. Len(t) + 1
      /\ Len(t) + 1 \in 1 .. Len(t) + 1
  <2>1. Len(t) \in Nat /\ DOMAIN t = 1 .. Len(t)
    BY LaidSays
  <2> QED BY <2>1 DEF EndsIn
<1>1. i \notin Wild(t)
  BY DEF Wild
<1>2. Cut(t, K, i) \in 1 .. Len(R) /\ name[Cut(t, K, i)] = Said(t[i], a.kind, n)
  BY <1>1 DEF Stands, EndsIn
<1> SUFFICES PartAt(t, lens, i) = Cut(t, K, i)
  BY <1>2
<1>3. PartAt(t, Lengths(t, K), i) = Cut(t, K, i)
  BY <1>0, CutIs
<1>4. (\A j \in Wild(t) : i < j) \/ (\A j \in Wild(t) : j < i)
  BY <1>0 DEF Laid, ReadsBack
<1>5. CASE \A j \in Wild(t) : i < j
  BY <1>0, <1>3, <1>5, PartAtFirst
<1>6. CASE \A j \in Wild(t) : j < i
  <2>1. Lengths(t, K) \in Readings(t, name)
    BY ReadsItself
  <2>2. ASSUME NEW ls \in Readings(t, name)
        PROVE PartAt(t, ls, Len(t) + 1) = Len(R) + 1 /\ PartAt(t, ls, i) \in Nat
                /\ PartAt(t, ls, Len(t) + 1) = PartAt(t, ls, i) + (Len(t) + 1 - i)
    <3>1. \A j \in Wild(t) : ls[j] \in Nat
      <4>1. ls \in [Wild(t) -> 1 .. Len(name)]
        BY ReadingIs
      <4> QED BY <1>0, <4>1
    <3>2. PartAt(t, ls, i) \in Nat
      BY <1>0, <3>1, PartAtNat
    <3>3. Len(t) + 1 \in i .. Len(t) + 1 /\ Len(t) \in i .. Len(t) + 1 /\ Len(t) \in 1 .. Len(t)
      BY <1>0
    <3>4. PartAt(t, ls, Len(t) + 1) = PartAt(t, ls, i) + (Len(t) + 1 - i)
      <4>1. PICK k : k = Len(t) + 1
        OBVIOUS
      <4>2. k \in i .. Len(t) + 1
        BY <3>3, <4>1
      <4>3. PartAt(t, ls, k) = PartAt(t, ls, i) + (k - i)
        BY <1>0, <1>6, <3>1, <4>2, PartAtLast
      <4> QED BY <4>1, <4>3
    <3>5. PartAt(t, ls, Len(t)) = PartAt(t, ls, i) + (Len(t) - i)
      BY <1>0, <1>6, <3>1, <3>3, PartAtLast
    <3>6. PartAt(t, ls, Len(t)) = PartAt(t, ls, Len(t) + 1) - 1
      BY <1>0, <3>2, <3>4, <3>5
    <3>7. Len(t) \in DOMAIN t \ Wild(t)
      BY <1>0, <1>1, <1>6, <3>3
    <3>8. name[PartAt(t, ls, Len(t) + 1) - 1].a \notin Endings
      <4>1. PartFits(t[Len(t)], name[PartAt(t, ls, Len(t))])
        BY <3>7, ReadingIs
      <4>2. t[Len(t)] \notin Endings
        BY DEF Laid, ReadsBack
      <4> QED BY <3>6, <4>1, <4>2, FitsNoEnding
    <3>9. R # << >> /\ Len(R) >= 1 /\ name[Len(R)].a \notin Endings
      <4>1. Cut(t, K, Len(t)) \in 1 .. Len(R) /\ R[Cut(t, K, Len(t))] = Said(t[Len(t)], a.kind, n)
        BY <1>0, <3>3, <3>7 DEF Stands
      <4>2. Cut(t, K, Len(t)) = Len(R)
        <5>1. Cut(t, K, Len(t) + 1) = Cut(t, K, Len(t)) + 1
          BY <3>3, <3>7, ShutParts
        <5>2. Cut(t, K, Len(t) + 1) = Len(R) + 1
          BY DEF Stands
        <5> QED BY <1>0, <4>1, <5>1, <5>2
      <4>3. name[Len(R)] = Said(t[Len(t)], a.kind, n)
        BY <1>0, <4>1, <4>2 DEF EndsIn
      <4>4. PartFits(t[Len(t)], name[Len(R)])
        <5>1. t[Len(t)] \in Words /\ a.kind \in FileKinds /\ n \in Nat
          BY <3>3, LaidSays
        <5> QED BY <4>3, <5>1, SaidSays
      <4>5. t[Len(t)] \notin Endings
        BY DEF Laid, ReadsBack
      <4> QED BY <1>0, <4>1, <4>2, <4>4, <4>5, FitsNoEnding
    <3>10. PartAt(t, ls, Len(t) + 1) = Len(R) + 1
      <4>1. \/ PartAt(t, ls, Len(t) + 1) = Len(name) + 1
            \/ PartAt(t, ls, Len(t) + 1) = Len(name) /\ name[PartAt(t, ls, Len(t) + 1)].a \in Endings
        BY ReadingIs
      <4>2. CASE Len(name) = Len(R)
        BY <1>0, <3>9, <4>1, <4>2
      <4>3. CASE Len(name) = Len(R) + 1
        <5>1. name[Len(name)].a \in Endings
          BY <4>3 DEF EndsIn
        <5>2. PartAt(t, ls, Len(t) + 1) # Len(name) + 1
          <6> SUFFICES ASSUME PartAt(t, ls, Len(t) + 1) = Len(name) + 1 PROVE FALSE
            OBVIOUS
          <6>1. PartAt(t, ls, Len(t) + 1) - 1 = Len(name)
            BY <1>0
          <6> QED BY <3>8, <5>1, <6>1
        <5> QED BY <4>1, <4>3, <5>2
      <4> QED BY <1>0, <4>2, <4>3
    <3> QED BY <3>2, <3>4, <3>10
  <2>3. PartAt(t, lens, i) \in Nat /\ PartAt(t, lens, i) + (Len(t) + 1 - i) = Len(R) + 1
    BY <2>2
  <2>4. PartAt(t, Lengths(t, K), i) \in Nat /\ PartAt(t, Lengths(t, K), i) + (Len(t) + 1 - i) = Len(R) + 1
    BY <2>1, <2>2
  <2> QED BY <1>0, <1>3, <2>3, <2>4
<1> QED BY <1>4, <1>5, <1>6

----------------------------------------------------------------------------
(* The reading a regular expression finds *)

\* The readings agree up to part k, or the first that differs is shorter in l.
Alike(t, l, o, k) == \A i \in Wild(t) : i < k => l[i] = o[i]
Lazier(t, l, o, k) == \E i \in Wild(t) : i < k /\ l[i] < o[i] /\ Alike(t, l, o, i)
LaziestSoFar(t, S, l, k) == l \in S /\ \A o \in S : Alike(t, l, o, k) \/ Lazier(t, l, o, k)

LEMMA LazierStep ==
    ASSUME NEW t, Wild(t) \subseteq Nat, NEW S, \A o \in S : \A i \in Wild(t) : o[i] \in Nat,
           NEW k \in Nat, NEW l, LaziestSoFar(t, S, l, k)
    PROVE \E m : LaziestSoFar(t, S, m, k + 1)
<1>1. CASE k \notin Wild(t)
  <2>1. ASSUME NEW o \in S PROVE Alike(t, l, o, k + 1) \/ Lazier(t, l, o, k + 1)
    <3>1. \A i \in Wild(t) : i < k + 1 => i < k
      BY <1>1
    <3>2. CASE Alike(t, l, o, k)
      BY <3>1, <3>2 DEF Alike
    <3>3. CASE Lazier(t, l, o, k)
      <4>1. PICK i \in Wild(t) : i < k /\ l[i] < o[i] /\ Alike(t, l, o, i)
        BY <3>3 DEF Lazier
      <4>2. i < k + 1
        BY <4>1
      <4> QED BY <4>1, <4>2 DEF Lazier
    <3> QED BY <3>2, <3>3 DEF LaziestSoFar
  <2> QED BY <2>1 DEF LaziestSoFar
<1>2. CASE k \in Wild(t)
  <2> DEFINE T == {o[k] : o \in {x \in S : Alike(t, l, x, k)}}
  <2>1. l \in S /\ Alike(t, l, l, k)
    BY DEF LaziestSoFar, Alike
  <2>2. T \subseteq Nat /\ T # {}
    BY <1>2, <2>1
  <2>3. PICK v \in T : \A w \in T : v <= w
    BY <2>2, LeastNat
  <2>4. PICK m \in S : Alike(t, l, m, k) /\ m[k] = v
    BY <2>3
  <2>5. ASSUME NEW o \in S PROVE Alike(t, m, o, k + 1) \/ Lazier(t, m, o, k + 1)
    <3>1. CASE Alike(t, l, o, k)
      <4>1. m[k] <= o[k] /\ m[k] \in Nat /\ o[k] \in Nat
        BY <1>2, <2>3, <2>4, <3>1
      <4>2. Alike(t, m, o, k)
        BY <2>4, <3>1 DEF Alike
      <4>3. CASE m[k] = o[k]
        <5>1. \A i \in Wild(t) : i < k + 1 => i < k \/ i = k
          OBVIOUS
        <5> QED BY <4>2, <4>3, <5>1 DEF Alike
      <4>4. CASE m[k] < o[k]
        <5>1. k < k + 1
          OBVIOUS
        <5> QED BY <1>2, <4>2, <4>4, <5>1 DEF Lazier
      <4> QED BY <4>1, <4>3, <4>4
    <3>2. CASE Lazier(t, l, o, k)
      <4>1. PICK i \in Wild(t) : i < k /\ l[i] < o[i] /\ Alike(t, l, o, i)
        BY <3>2 DEF Lazier
      <4>2. m[i] = l[i]
        BY <2>4, <4>1 DEF Alike
      <4>3. \A j \in Wild(t) : j < i => j < k
        BY <4>1
      <4>4. Alike(t, m, o, i)
        BY <2>4, <4>1, <4>3 DEF Alike
      <4>5. i < k + 1
        BY <4>1
      <4> QED BY <4>1, <4>2, <4>4, <4>5 DEF Lazier
    <3> QED BY <3>1, <3>2 DEF LaziestSoFar
  <2> QED BY <2>4, <2>5 DEF LaziestSoFar
<1> QED BY <1>1, <1>2

LEMMA LaziestExists ==
    ASSUME NEW t, Wild(t) \subseteq Nat, NEW S, S # {}, \A o \in S : \A i \in Wild(t) : o[i] \in Nat, NEW k \in Nat
    PROVE \E l : LaziestSoFar(t, S, l, k)
<1> DEFINE Bad == {j \in Nat : ~ \E l : LaziestSoFar(t, S, l, j)}
<1> SUFFICES ASSUME Bad # {} PROVE FALSE
  OBVIOUS
<1>1. PICK j \in Bad : \A m \in Bad : j <= m
  BY LeastNat
<1>2. j # 0
  <2>1. PICK l : l \in S
    OBVIOUS
  <2>2. \A i \in Wild(t) : ~(i < 0)
    OBVIOUS
  <2>3. \A o \in S : Alike(t, l, o, 0)
    BY <2>2 DEF Alike
  <2>4. LaziestSoFar(t, S, l, 0)
    BY <2>1, <2>3 DEF LaziestSoFar
  <2> QED BY <2>4
<1>3. PICK i \in Nat : j = i + 1
  <2>1. j - 1 \in Nat /\ j = (j - 1) + 1
    BY <1>2
  <2> QED BY <2>1
<1>4. i \notin Bad
  BY <1>1, <1>3
<1>5. PICK l : LaziestSoFar(t, S, l, i)
  BY <1>4
<1>6. \E m : LaziestSoFar(t, S, m, i + 1)
  BY <1>5, LazierStep
<1> QED BY <1>1, <1>3, <1>6

LEMMA LaziestIs == ASSUME NEW t, Len(t) \in Nat, DOMAIN t = 1 .. Len(t), NEW name, Len(name) \in Nat, Readings(t, name) # {}
    PROVE Laziest(t, name) \in Readings(t, name)
<1> DEFINE S == Readings(t, name)
           Min(lens) == \A other \in S :
             \/ lens = other
             \/ \E i \in Wild(t) : /\ lens[i] < other[i]
                                   /\ \A j \in Wild(t) : j < i => lens[j] = other[j]
<1>1. Wild(t) \subseteq Nat /\ \A i \in Wild(t) : i < Len(t) + 1
  BY DEF Wild
<1>2. \A o \in S : o \in [Wild(t) -> 1 .. Len(name)]
  BY ReadingIs
<1>3. \A o \in S : \A i \in Wild(t) : o[i] \in Nat
  BY <1>2
<1>4. PICK k \in Nat : k = Len(t) + 1
  OBVIOUS
<1> HIDE DEF S
<1>5. S # {}
  BY DEF S
<1>6. PICK l : LaziestSoFar(t, S, l, k)
  BY <1>1, <1>3, <1>5, LaziestExists
<1>7. ASSUME NEW o \in S
      PROVE l = o \/ \E i \in Wild(t) : l[i] < o[i] /\ \A j \in Wild(t) : j < i => l[j] = o[j]
  <2>1. CASE Alike(t, l, o, k)
    <3>1. \A i \in Wild(t) : l[i] = o[i]
      BY <1>1, <1>4, <2>1 DEF Alike
    <3>2. l \in [Wild(t) -> 1 .. Len(name)] /\ o \in [Wild(t) -> 1 .. Len(name)]
      BY <1>2, <1>6 DEF LaziestSoFar
    <3> QED BY <3>1, <3>2
  <2>2. CASE Lazier(t, l, o, k)
    BY <2>2 DEF Lazier, Alike
  <2> QED BY <1>6, <2>1, <2>2 DEF LaziestSoFar
<1>8. l \in S /\ Min(l)
  BY <1>6, <1>7 DEF LaziestSoFar
<1>9. Laziest(t, name) = CHOOSE lens \in S : Min(lens)
  BY DEF Laziest, S
<1> HIDE DEF Min
<1>10. Laziest(t, name) \in S
  BY <1>8, <1>9
<1> QED BY <1>10 DEF S

\* What number and kind read back as.
LEMMA CapturedIs ==
    ASSUME NEW K, NEW t, NEW a, NEW n, NEW value, Laid(K, t, a, n, value),
           NEW R, Stands(R, t, K, a, n), NEW name, EndsIn(name, R),
           NEW part \in {"number", "kind"}, HasPart(t, part)
    PROVE Captured(t, name, part) = Said(part, a.kind, n)
<1>0. Len(t) \in Nat /\ DOMAIN t = 1 .. Len(t) /\ Len(name) \in Nat
  <2>1. Len(t) \in Nat /\ DOMAIN t = 1 .. Len(t)
    BY LaidSays
  <2> QED BY <2>1 DEF EndsIn
<1>1. Readings(t, name) # {}
  BY ReadsItself
<1>2. PICK lens \in Readings(t, name) : lens = Laziest(t, name)
  BY <1>0, <1>1, LaziestIs
<1>3. PICK i \in 1 .. Len(t) : i = (CHOOSE j \in DOMAIN t : t[j] = part) /\ t[i] = part
  <2>1. \E j \in DOMAIN t : t[j] = part
    BY DEF HasPart
  <2> QED BY <1>0, <2>1
<1>4. name[PartAt(t, lens, i)] = Said(t[i], a.kind, n)
  BY <1>3, SaidAt
<1> QED BY <1>2, <1>3, <1>4 DEF Captured

----------------------------------------------------------------------------
(* Names that are given, and what is read from any name *)

\* What a name is made from.
Source(a) == a.kind \in FileKinds /\ a.base \in Seq(Atoms) /\ a.ext \in Exts

LEMMA RenderedType ==
    ASSUME NEW t \in Seq(Words), NEW a, Source(a), NEW n \in Nat, NEW value \in {"value", None}
    PROVE Rendered(t, a, n, value) \in Seq(Atoms)
<1>0. Len(t) \in Nat /\ \A j \in 1 .. Len(t) : t[j] \in Words
  OBVIOUS
<1>1. PICK K : Writes(K, t, a, n, value) /\ Rendered(t, a, n, value) = Trimmed(K[Len(t)])
  BY <1>0, RenderedIs
<1>2. a.kind \in FileKinds /\ a.base \in Seq(Atoms)
  BY DEF Source
<1> DEFINE Bad == {j \in 0 .. Len(t) : K[j] \notin Seq(Atoms)}
<1>3. Bad = {}
  <2> SUFFICES ASSUME Bad # {} PROVE FALSE
    OBVIOUS
  <2>1. Bad \subseteq Nat
    BY <1>0
  <2>2. PICK j \in Bad : \A m \in Bad : j <= m
    BY <2>1, LeastNat
  <2>3. j # 0
    <3>1. K[0] = << >>
      BY <1>1 DEF Writes
    <3>2. << >> \in Seq(Atoms)
      OBVIOUS
    <3> QED BY <2>2, <3>1, <3>2
  <2>4. j \in 1 .. Len(t) /\ j - 1 \in 0 .. Len(t) /\ ~(j <= j - 1)
    BY <1>0, <2>2, <2>3
  <2>5. K[j - 1] \in Seq(Atoms)
    BY <2>2, <2>4
  <2>6. Filled(t[j], a.kind, n, a.base, value) \in Seq(Atoms)
    BY <1>0, <1>2, <2>4, FilledSays
  <2>7. PICK s \in Seq(Atoms) : s = Filled(t[j], a.kind, n, a.base, value)
    BY <2>6
  <2>8. K[j] = Put(K[j - 1], s)
    BY <1>1, <2>4, <2>7 DEF Writes
  <2>9. Longer(K[j - 1], Put(K[j - 1], s))
    BY <2>5, PutSays
  <2> QED BY <2>2, <2>8, <2>9 DEF Longer
<1>4. Len(t) \in 0 .. Len(t)
  BY <1>0
<1>5. K[Len(t)] \in Seq(Atoms)
  BY <1>3, <1>4
<1> QED BY <1>1, <1>5, TrimmedIs

LEMMA AtomsAre == Separator \in Atoms /\ \A n \in Nat : Counted(n) \in Atoms /\ Counted(n).n = n
  BY NamingAssumption DEF Separator, Counted, Atom, Atoms

LEMMA StoredNameType ==
    ASSUME NEW t \in Seq(Words), NEW a, Source(a), NEW n \in Nat, NEW value \in {"value", None}
    PROVE StoredName(t, a, n, value) \in Seq(Atoms)
<1>1. PICK r \in Seq(Atoms) : r = Rendered(t, a, n, value)
  BY RenderedType
<1>2. a.ext \in Seq(Atoms)
  <2>1. << >> \in Seq(Atoms) /\ \A x \in Atoms : <<x>> \in Seq(Atoms)
    OBVIOUS
  <2> QED BY <2>1 DEF Source, Exts
<1>3. PICK u : u = IF HasPart(t, "number") THEN << >> ELSE <<Separator, Counted(n)>>
  OBVIOUS
<1>4. u \in Seq(Atoms)
  <2>1. << >> \in Seq(Atoms) /\ \A x, y \in Atoms : <<x, y>> \in Seq(Atoms)
    OBVIOUS
  <2> QED BY <1>3, <2>1, AtomsAre
<1>5. StoredName(t, a, n, value) = (r \o u) \o a.ext
  BY <1>1, <1>3 DEF StoredName
<1>6. r \o u \in Seq(Atoms)
  BY <1>4
<1> QED BY <1>2, <1>5, <1>6

\* A name given under a rule whose names can be read back is read back.
Reads(t, a, n, name) ==
    /\ HasPart(t, "number") /\ FollowsFileNameRule(t, name) /\ Captured(t, name, "number") = Counted(n)
    /\ HasPart(t, "kind") => Captured(t, name, "kind") = Atom(a.kind)

LEMMA StoredNameReads ==
    ASSUME NEW t \in Seq(Words), NEW a, Source(a), NEW n \in Nat, NEW value \in {"value", None},
           Whole(t, a, value), ReadsBack(t)
    PROVE Reads(t, a, n, StoredName(t, a, n, value))
<1>0. Len(t) \in Nat
  OBVIOUS
<1>1. PICK K : Writes(K, t, a, n, value) /\ Rendered(t, a, n, value) = Trimmed(K[Len(t)])
  BY <1>0, RenderedIs
<1>2. Laid(K, t, a, n, value)
  BY <1>1 DEF Laid, GivenWhole, Source
<1>3. PICK R \in Seq(Atoms) : R = Rendered(t, a, n, value)
  BY RenderedType
<1>4. Stands(R, t, K, a, n)
  BY <1>1, <1>2, <1>3, RenderedStands
<1>5. HasPart(t, "number")
  BY DEF Whole
<1>6. PICK ext \in Exts : ext = a.ext
  BY DEF Source
<1>7. PICK name : name = StoredName(t, a, n, value)
  OBVIOUS
<1>8. name = R \o ext
  <2>1. name = (R \o << >>) \o ext
    BY <1>3, <1>5, <1>6, <1>7 DEF StoredName
  <2>2. R \o << >> = R
    OBVIOUS
  <2> QED BY <2>1, <2>2
<1>9. EndsIn(name, R)
  BY <1>8, NameEndsIn
<1>10. FollowsFileNameRule(t, name)
  BY <1>2, <1>4, <1>9, ReadsItself DEF FollowsFileNameRule
<1>11. \A part \in {"number", "kind"} : HasPart(t, part) => Captured(t, name, part) = Said(part, a.kind, n)
  BY <1>2, <1>4, <1>9, CapturedIs
<1>12. Captured(t, name, "number") = Counted(n)
  BY <1>5, <1>11 DEF Said
<1>13. HasPart(t, "kind") => Captured(t, name, "kind") = Atom(a.kind)
  BY <1>11 DEF Said
<1> QED BY <1>5, <1>7, <1>10, <1>12, <1>13 DEF Reads

LEMMA ReadsTaken == ASSUME NEW t, NEW a, NEW n \in Nat, NEW name, Reads(t, a, n, name)
    PROVE Taken(t, a.kind, name) = n
<1>1. HasPart(t, "number") /\ FollowsFileNameRule(t, name) /\ Captured(t, name, "number") = Counted(n)
  BY DEF Reads
<1>2. HasPart(t, "kind") => Captured(t, name, "kind") = Atom(a.kind)
  BY DEF Reads
<1>3. Counted(n).n = n
  BY AtomsAre
<1> QED BY <1>1, <1>2, <1>3 DEF Taken

LEMMA PartAtGrows == ASSUME NEW t, Len(t) \in Nat, NEW lens, \A j \in Wild(t) : lens[j] \in Nat /\ lens[j] >= 1,
                            NEW i \in 1 .. Len(t)
    PROVE PartAt(t, lens, i) \in Nat /\ PartAt(t, lens, i) >= 1 /\ PartAt(t, lens, i) < PartAt(t, lens, Len(t) + 1)
<1>a. \A m \in 1 .. Len(t) : PartAt(t, lens, m + 1) = PartAt(t, lens, m) + (IF m \in Wild(t) THEN lens[m] ELSE 1)
  BY PartAtIs
<1>b. \A k \in 1 .. Len(t) + 1 : PartAt(t, lens, k) \in Nat
  BY PartAtNat
<1>c. ASSUME NEW m \in 1 .. Len(t) PROVE PartAt(t, lens, m + 1) >= PartAt(t, lens, m) + 1
  <2>1. m + 1 \in 1 .. Len(t) + 1 /\ m \in 1 .. Len(t) + 1
    OBVIOUS
  <2>2. PartAt(t, lens, m + 1) = PartAt(t, lens, m) + (IF m \in Wild(t) THEN lens[m] ELSE 1)
    BY <1>a
  <2>3. PartAt(t, lens, m) \in Nat /\ (m \in Wild(t) => lens[m] \in Nat /\ lens[m] >= 1)
    BY <1>b, <2>1
  <2> QED BY <2>2, <2>3
<1>1. PartAt(t, lens, i) >= 1
  <2> DEFINE Bad == {k \in 1 .. Len(t) : ~(PartAt(t, lens, k) >= 1)}
  <2> SUFFICES ASSUME Bad # {} PROVE FALSE
    OBVIOUS
  <2>0. Bad \subseteq Nat
    OBVIOUS
  <2>1. PICK k \in Bad : \A m \in Bad : k <= m
    BY <2>0, LeastNat
  <2>2. k # 1
    BY PartAtIs
  <2>3. k - 1 \in 1 .. Len(t) /\ k - 1 \in 1 .. Len(t) + 1 /\ ~(k <= k - 1) /\ (k - 1) + 1 = k /\ k \in 1 .. Len(t) + 1
    BY <2>1, <2>2
  <2>4. PartAt(t, lens, k - 1) >= 1
    BY <2>1, <2>3
  <2>5. PartAt(t, lens, (k - 1) + 1) >= PartAt(t, lens, k - 1) + 1
    BY <1>c, <2>3
  <2>6. PartAt(t, lens, k - 1) \in Nat /\ PartAt(t, lens, k) \in Nat
    BY <1>b, <2>3
  <2> QED BY <2>1, <2>3, <2>4, <2>5, <2>6
<1>2. PartAt(t, lens, i) < PartAt(t, lens, Len(t) + 1)
  <2> DEFINE Bad == {k \in i + 1 .. Len(t) + 1 : ~(PartAt(t, lens, i) < PartAt(t, lens, k))}
  <2>1. Bad = {}
    <3> SUFFICES ASSUME Bad # {} PROVE FALSE
      OBVIOUS
    <3>0. Bad \subseteq Nat
      OBVIOUS
    <3>1. PICK k \in Bad : \A m \in Bad : k <= m
      BY <3>0, LeastNat
    <3>2. i \in 1 .. Len(t) + 1 /\ k \in 1 .. Len(t) + 1 /\ k - 1 \in 1 .. Len(t) /\ k - 1 \in 1 .. Len(t) + 1 /\ (k - 1) + 1 = k
      BY <3>1
    <3>3. PartAt(t, lens, i) \in Nat /\ PartAt(t, lens, k) \in Nat /\ PartAt(t, lens, k - 1) \in Nat
      BY <1>b, <3>2
    <3>4. PartAt(t, lens, (k - 1) + 1) >= PartAt(t, lens, k - 1) + 1
      BY <1>c, <3>2
    <3>5. CASE k = i + 1
      <4>1. k - 1 = i
        BY <3>5
      <4> QED BY <3>1, <3>2, <3>3, <3>4, <4>1
    <3>6. CASE k # i + 1
      <4>1. k - 1 \in i + 1 .. Len(t) + 1 /\ ~(k <= k - 1)
        BY <3>1, <3>6
      <4>2. PartAt(t, lens, i) < PartAt(t, lens, k - 1)
        BY <3>1, <4>1
      <4> QED BY <3>1, <3>2, <3>3, <3>4, <4>2
    <3> QED BY <3>5, <3>6
  <2>2. Len(t) + 1 \in i + 1 .. Len(t) + 1
    OBVIOUS
  <2> QED BY <2>1, <2>2
<1>3. i \in 1 .. Len(t) + 1
  OBVIOUS
<1> QED BY <1>1, <1>2, <1>3, <1>b

LEMMA StemType == ASSUME NEW name \in Seq(Atoms)
    PROVE /\ Stem(name) \in Seq(Atoms)
          /\ HasEnding(name) => <<name[Len(name)]>> \in Exts
<1>1. CASE ~HasEnding(name)
  BY <1>1 DEF Stem
<1>2. CASE HasEnding(name)
  <2>1. Len(name) \in Nat /\ Len(name) >= 1 /\ name[Len(name)].a \in Endings
    BY <1>2 DEF HasEnding
  <2>2. PICK m \in Nat : m = Len(name) - 1
    <3>1. Len(name) - 1 \in Nat
      BY <2>1
    <3> QED BY <3>1
  <2>3. Stem(name) = SubSeq(name, 1, m)
    BY <1>2, <2>2 DEF Stem
  <2>4. SubSeq(name, 1, m) = [j \in 1 .. m |-> name[j]]
    BY <2>1, <2>2
  <2>5. \A j \in 1 .. m : name[j] \in Atoms
    BY <2>1, <2>2
  <2>6. Stem(name) \in Seq(Atoms)
    BY <2>3, <2>4, <2>5
  <2>7. PICK x \in Atoms : x = name[Len(name)] /\ x.a \in Endings
    BY <2>1
  <2>8. <<x>> \in Exts
    BY <2>7 DEF Exts
  <2> QED BY <1>2, <2>6, <2>7, <2>8
<1> QED BY <1>1, <1>2

----------------------------------------------------------------------------
(* The numbers of files named together *)

LEMMA CapturedNat == ASSUME NEW t \in Seq(Words), NEW name \in Seq(Atoms), HasPart(t, "number"), FollowsFileNameRule(t, name)
    PROVE Captured(t, name, "number").n \in Nat
<1>0. Len(t) \in Nat /\ DOMAIN t = 1 .. Len(t) /\ Len(name) \in Nat
  OBVIOUS
<1>1. PICK lens \in Readings(t, name) : lens = Laziest(t, name)
  BY <1>0, LaziestIs DEF FollowsFileNameRule
<1>2. PICK i \in 1 .. Len(t) : i = CHOOSE j \in DOMAIN t : t[j] = "number"
  <2>1. \E j \in DOMAIN t : t[j] = "number"
    BY DEF HasPart
  <2> QED BY <1>0, <2>1
<1>3. \A j \in Wild(t) : lens[j] \in Nat /\ lens[j] >= 1
  <2>1. lens \in [Wild(t) -> 1 .. Len(name)]
    BY ReadingIs
  <2> QED BY <1>0, <2>1
<1>4. PartAt(t, lens, i) \in Nat /\ PartAt(t, lens, i) >= 1 /\ PartAt(t, lens, i) < PartAt(t, lens, Len(t) + 1)
  BY <1>0, <1>3, PartAtGrows
<1>5. PartAt(t, lens, Len(t) + 1) - 1 <= Len(name) /\ PartAt(t, lens, Len(t) + 1) \in Nat
  <2>1. Len(t) + 1 \in 1 .. Len(t) + 1
    BY <1>0
  <2> QED BY <1>0, <1>3, <2>1, ReadingIs, PartAtNat
<1>6. PartAt(t, lens, i) \in 1 .. Len(name)
  BY <1>0, <1>4, <1>5
<1>7. name[PartAt(t, lens, i)] \in Atoms
  BY <1>6
<1>8. Captured(t, name, "number") = name[PartAt(t, lens, i)]
  BY <1>1, <1>2 DEF Captured
<1> QED BY <1>7, <1>8 DEF Atoms

LEMMA TakenNat == ASSUME NEW t \in Seq(Words), NEW k, NEW name \in Seq(Atoms) PROVE Taken(t, k, name) \in Nat
<1>1. LegacyNumber(k, name) \in Nat
  <2>1. PICK bare \in Seq(Atoms) : bare = Stem(name)
    BY StemType
  <2>2. Len(bare) >= 3 => bare[Len(bare)].n \in Nat
    <3>1. Len(bare) \in Nat
      OBVIOUS
    <3>2. Len(bare) >= 3 => bare[Len(bare)] \in Atoms
      BY <3>1
    <3> QED BY <3>2 DEF Atoms
  <2> QED BY <2>1, <2>2 DEF LegacyNumber
<1> QED BY <1>1, CapturedNat DEF Taken

LEMMA HighestExists == ASSUME NEW S, S \subseteq Nat, IsFiniteSet(S), S # {} PROVE \E m \in S : \A x \in S : x <= m
<1> DEFINE Tops(U) == \E m \in U : \A x \in U : x <= m
           Bad == {c \in Nat : \E U \in SUBSET S : IsFiniteSet(U) /\ U # {} /\ Cardinality(U) = c /\ ~Tops(U)}
<1>1. Bad = {}
  <2> SUFFICES ASSUME Bad # {} PROVE FALSE
    OBVIOUS
  <2>1. PICK c \in Bad : \A d \in Bad : c <= d
    BY LeastNat
  <2>2. PICK U \in SUBSET S : IsFiniteSet(U) /\ U # {} /\ Cardinality(U) = c /\ ~Tops(U)
    BY <2>1
  <2>3. PICK u : u \in U
    BY <2>2
  <2>4. PICK V : V = U \ {u}
    OBVIOUS
  <2>5. IsFiniteSet(V) /\ Cardinality(V) = Cardinality(U) - 1
    BY <2>2, <2>3, <2>4, FS_RemoveElement
  <2>6. Cardinality(V) \in Nat /\ Cardinality(U) \in Nat
    BY <2>2, <2>5, FS_CardinalityType
  <2>7. ~(c <= Cardinality(V))
    BY <2>2, <2>5, <2>6
  <2>8. V # {}
    <3> SUFFICES ASSUME V = {} PROVE FALSE
      OBVIOUS
    <3>1. \A x \in U : x = u
      BY <2>4
    <3>2. u <= u
      BY <2>2, <2>3
    <3> QED BY <2>2, <2>3, <3>1, <3>2
  <2>9. Tops(V)
    <3>1. V \in SUBSET S
      BY <2>2, <2>4
    <3>2. Cardinality(V) \notin Bad
      BY <2>1, <2>7
    <3> QED BY <2>5, <2>6, <2>8, <3>1, <3>2
  <2>10. PICK m \in V : \A x \in V : x <= m
    BY <2>9
  <2>11. m \in Nat /\ u \in Nat /\ m \in U /\ \A x \in U : x \in V \/ x = u
    BY <2>2, <2>3, <2>4, <2>10
  <2>12. CASE u <= m
    BY <2>2, <2>10, <2>11, <2>12
  <2>13. CASE ~(u <= m)
    <3>1. ASSUME NEW x \in U PROVE x <= u
      <4>1. CASE x = u
        BY <2>11, <4>1
      <4>2. CASE x \in V
        <5>1. x <= m /\ x \in Nat
          BY <2>2, <2>10, <4>2
        <5> QED BY <2>11, <2>13, <5>1
      <4> QED BY <2>11, <4>1, <4>2
    <3> QED BY <2>2, <2>3, <3>1
  <2> QED BY <2>12, <2>13
<1>2. Cardinality(S) \in Nat
  BY FS_CardinalityType
<1>3. Cardinality(S) \notin Bad
  BY <1>1
<1>4. Tops(S)
  BY <1>2, <1>3
<1> QED BY <1>4

LEMMA HighestIs == ASSUME NEW S, S \subseteq Nat, IsFiniteSet(S), S # {}
    PROVE Highest(S) \in Nat /\ \A x \in S : x <= Highest(S)
<1>1. \E m \in S : \A x \in S : x <= m
  BY HighestExists
<1> QED BY <1>1 DEF Highest

\* What the folder may hold.
Files == [kind : FileKinds, under : Templates \cup {None}, whole : BOOLEAN, fresh : BOOLEAN, name : Seq(Atoms)]

Shelf(here) == IsFiniteSet(here) /\ here \subseteq Files

LEMMA NextIs == ASSUME Shelf(present), NEW t \in Seq(Words), NEW k, NEW listed \in BOOLEAN
    PROVE /\ NextSequence(t, k, Seen(listed)) \in Nat
          /\ \A name \in Seen(listed) : Taken(t, k, name) <= NextSequence(t, k, Seen(listed))
<1>1. IsFiniteSet(present) /\ \A f \in present : f.name \in Seq(Atoms)
  BY DEF Shelf, Files
<1>2. PICK T : T = {Taken(t, k, name) : name \in Seen(listed)}
  OBVIOUS
<1>3. T = {Taken(t, k, f.name) : f \in IF listed THEN present ELSE {}}
  BY <1>2 DEF Seen, NamesInUse
<1>4. IsFiniteSet(T)
  <2>0. PICK here : here = IF listed THEN present ELSE {}
    OBVIOUS
  <2>1. PICK h : h = [f \in here |-> Taken(t, k, f.name)]
    OBVIOUS
  <2>2. h \in Surjection(here, T)
    BY <1>3, <2>0, <2>1 DEF Surjection
  <2>3. IsFiniteSet(here)
    BY <1>1, <2>0, FS_EmptySet
  <2> QED BY <2>2, <2>3, FS_Surjection
<1>5. T \subseteq Nat
  BY <1>1, <1>3, TakenNat
<1>6. PICK S : S = T \cup {0}
  OBVIOUS
<1>7. IsFiniteSet(S) /\ S \subseteq Nat /\ S # {}
  BY <1>4, <1>5, <1>6, FS_AddElement
<1>8. Highest(S) \in Nat /\ \A x \in S : x <= Highest(S)
  BY <1>7, HighestIs
<1>9. NextSequence(t, k, Seen(listed)) = Highest(S)
  <2>1. S = {0} \cup {Taken(t, k, name) : name \in Seen(listed)}
    BY <1>2, <1>6
  <2> QED BY <2>1 DEF NextSequence
<1> QED BY <1>2, <1>6, <1>8, <1>9

Alikes(files, i) == {j \in 1 .. i : files[j].kind = files[i].kind}
NumberOf(t, files, i, listed) == NextSequence(t, files[i].kind, Seen(listed)) + Cardinality(Alikes(files, i))

LEMMA AlikesIs == ASSUME NEW files, NEW i \in Nat, i >= 1
    PROVE IsFiniteSet(Alikes(files, i)) /\ Cardinality(Alikes(files, i)) \in Nat /\ Cardinality(Alikes(files, i)) >= 1
<1>1. IsFiniteSet(1 .. i)
  BY FS_Interval
<1>2. Alikes(files, i) \in SUBSET (1 .. i)
  BY DEF Alikes
<1>3. IsFiniteSet(Alikes(files, i))
  BY <1>1, <1>2, FS_Subset
<1>4. i \in Alikes(files, i)
  BY DEF Alikes
<1>5. Cardinality(Alikes(files, i)) \in Nat /\ Cardinality(Alikes(files, i)) # 0
  BY <1>3, <1>4, FS_CardinalityType, FS_EmptySet
<1> QED BY <1>3, <1>5

LEMMA AlikesGrow == ASSUME NEW files, NEW i \in Nat, i >= 1, NEW j \in Nat, i < j, files[i].kind = files[j].kind
    PROVE Cardinality(Alikes(files, i)) < Cardinality(Alikes(files, j))
<1>1. /\ IsFiniteSet(Alikes(files, i)) /\ Cardinality(Alikes(files, i)) \in Nat
      /\ IsFiniteSet(Alikes(files, j)) /\ Cardinality(Alikes(files, j)) \in Nat
  BY AlikesIs
<1>2. Alikes(files, i) \in SUBSET Alikes(files, j)
  BY DEF Alikes
<1>3. j \in Alikes(files, j) /\ j \notin Alikes(files, i)
  BY DEF Alikes
<1>4. Cardinality(Alikes(files, i)) <= Cardinality(Alikes(files, j))
  BY <1>1, <1>2, FS_Subset
<1>5. Cardinality(Alikes(files, i)) # Cardinality(Alikes(files, j))
  BY <1>1, <1>2, <1>3, FS_Subset
<1> QED BY <1>1, <1>4, <1>5

LEMMA NumbersGrow ==
    ASSUME Shelf(present), NEW t \in Seq(Words), NEW files, NEW i \in Nat, i >= 1, NEW listed \in BOOLEAN
    PROVE /\ NumberOf(t, files, i, listed) \in Nat /\ NextSequence(t, files[i].kind, Seen(listed)) < NumberOf(t, files, i, listed)
          /\ \A j \in Nat : j >= 1 /\ i < j /\ files[i].kind = files[j].kind => NumberOf(t, files, i, listed) < NumberOf(t, files, j, listed)
<1>1. NextSequence(t, files[i].kind, Seen(listed)) \in Nat
  BY NextIs
<1>2. Cardinality(Alikes(files, i)) \in Nat /\ Cardinality(Alikes(files, i)) >= 1
  BY AlikesIs
<1>3. NumberOf(t, files, i, listed) \in Nat /\ NextSequence(t, files[i].kind, Seen(listed)) < NumberOf(t, files, i, listed)
  BY <1>1, <1>2 DEF NumberOf
<1>4. ASSUME NEW j \in Nat, j >= 1, i < j, files[i].kind = files[j].kind PROVE NumberOf(t, files, i, listed) < NumberOf(t, files, j, listed)
  <2>1. Cardinality(Alikes(files, i)) < Cardinality(Alikes(files, j)) /\ Cardinality(Alikes(files, j)) \in Nat
    BY <1>4, AlikesGrow, AlikesIs
  <2>2. NumberOf(t, files, j, listed) = NextSequence(t, files[i].kind, Seen(listed)) + Cardinality(Alikes(files, j))
    BY <1>4 DEF NumberOf
  <2> QED BY <1>1, <1>2, <2>1, <2>2 DEF NumberOf
<1> QED BY <1>3, <1>4

LEMMA GivenIs == ASSUME NEW t, NEW files, NEW value, NEW listed
    PROVE /\ DOMAIN Given(t, files, value, Seen(listed)) = DOMAIN files
          /\ \A i \in DOMAIN files : Given(t, files, value, Seen(listed))[i] =
                [ kind |-> files[i].kind, under |-> t, whole |-> Whole(t, files[i], value), fresh |-> TRUE,
                  name |-> StoredName(t, files[i], NumberOf(t, files, i, listed), value) ]
  BY DEF Given, NumberOf, Alikes

LEMMA GivenKinds == ASSUME NEW t, NEW files, NEW value, NEW listed, NEW i \in DOMAIN files
    PROVE Given(t, files, value, Seen(listed))[i].kind = files[i].kind
BY DEF Given

----------------------------------------------------------------------------
(* Names that are planned *)

Kept(f) == f.whole /\ ReadsBack(f.under) => FollowsFileNameRule(f.under, f.name)

Sources(files) == \E m \in Nat : DOMAIN files = 1 .. m /\ \A i \in 1 .. m : Source(files[i])

Free(given, i, listed) ==
    given[i].whole /\ ReadsBack(given[i].under) =>
      /\ listed => given[i].name \notin NamesInUse
      /\ \A j \in DOMAIN given \ {i} :
           given[j].whole /\ given[j].name = given[i].name => ~HasPart(given[i].under, "kind") /\ given[j].kind # given[i].kind

LEMMA GivenKept ==
    ASSUME Shelf(present), NEW t \in Templates, NEW files, Sources(files), NEW value \in {"value", None},
           NEW listed \in BOOLEAN, NEW i \in DOMAIN files
    PROVE /\ Given(t, files, value, Seen(listed))[i] \in Files /\ Kept(Given(t, files, value, Seen(listed))[i])
          /\ Given(t, files, value, Seen(listed))[i].under = t
          /\ Given(t, files, value, Seen(listed))[i].whole /\ ReadsBack(t) =>
                Reads(t, files[i], NumberOf(t, files, i, listed), Given(t, files, value, Seen(listed))[i].name)
<1>0. t \in Seq(Words) /\ i \in Nat /\ i >= 1 /\ Source(files[i])
  BY NamingAssumption DEF Sources
<1>1. PICK n \in Nat : n = NumberOf(t, files, i, listed)
  BY <1>0, NumbersGrow
<1>2. PICK name \in Seq(Atoms) : name = StoredName(t, files[i], n, value)
  BY <1>0, StoredNameType
<1>3. PICK b \in BOOLEAN : b = Whole(t, files[i], value)
  <2>1. Whole(t, files[i], value) \in BOOLEAN
    BY DEF Whole
  <2> QED BY <2>1
<1>4. PICK f : f = Given(t, files, value, Seen(listed))[i]
  OBVIOUS
<1>5. f = [kind |-> files[i].kind, under |-> t, whole |-> b, fresh |-> TRUE, name |-> name]
  BY <1>1, <1>2, <1>3, <1>4, GivenIs
<1>6. f.under = t /\ f.whole = b /\ f.name = name
  BY <1>5
<1>7. f \in Files
  <2>1. files[i].kind \in FileKinds
    BY <1>0 DEF Source
  <2> QED BY <1>5, <2>1 DEF Files
<1>8. b /\ ReadsBack(t) => Reads(t, files[i], n, name)
  BY <1>0, <1>2, <1>3, StoredNameReads
<1>9. Kept(f)
  BY <1>6, <1>8 DEF Kept, Reads
<1> QED BY <1>1, <1>4, <1>6, <1>7, <1>8, <1>9

LEMMA GivenFree ==
    ASSUME Shelf(present), NEW t \in Templates, NEW files, Sources(files), NEW value \in {"value", None},
           NEW listed \in BOOLEAN, NEW given, given = Given(t, files, value, Seen(listed)), NEW i \in DOMAIN files
    PROVE Free(given, i, listed)
<1>0. t \in Seq(Words) /\ i \in Nat /\ i >= 1 /\ Source(files[i]) /\ DOMAIN given = DOMAIN files
  BY NamingAssumption, GivenIs DEF Sources
<1>1. given[i].under = t
  BY GivenKept
<1> SUFFICES ASSUME given[i].whole, ReadsBack(t)
             PROVE /\ listed => given[i].name \notin NamesInUse
                   /\ \A j \in DOMAIN given \ {i} :
                        given[j].whole /\ given[j].name = given[i].name => ~HasPart(t, "kind") /\ given[j].kind # given[i].kind
  BY <1>1 DEF Free
<1>2. PICK n \in Nat : n = NumberOf(t, files, i, listed) /\ NextSequence(t, files[i].kind, Seen(listed)) < n
  BY <1>0, NumbersGrow
<1>3. PICK name : name = given[i].name
  OBVIOUS
<1>4. Reads(t, files[i], n, name)
  BY <1>2, <1>3, GivenKept
<1>5. listed => name \notin NamesInUse
  <2> SUFFICES ASSUME listed, name \in Seen(listed) PROVE FALSE
    BY DEF Seen
  <2>1. Taken(t, files[i].kind, name) <= NextSequence(t, files[i].kind, Seen(listed)) /\ NextSequence(t, files[i].kind, Seen(listed)) \in Nat
    BY <1>0, NextIs
  <2>2. Taken(t, files[i].kind, name) = n
    BY <1>4, ReadsTaken
  <2>3. PICK last : last = NextSequence(t, files[i].kind, Seen(listed))
    OBVIOUS
  <2>4. last < n
    BY <1>2, <2>3
  <2>5. n <= last
    BY <2>1, <2>2, <2>3
  <2>6. last \in Nat
    BY <2>1, <2>3
  <2> QED BY <2>4, <2>5, <2>6
<1>6. ASSUME NEW j \in DOMAIN given \ {i}, given[j].whole, given[j].name = name
      PROVE ~HasPart(t, "kind") /\ given[j].kind # given[i].kind
  <2>0. j \in DOMAIN files /\ j \in Nat /\ j >= 1 /\ j # i
    BY <1>0 DEF Sources
  <2>1. PICK m \in Nat : m = NumberOf(t, files, j, listed)
    BY <1>0, <2>0, NumbersGrow
  <2>2. Reads(t, files[j], m, name)
    BY <1>6, <2>0, <2>1, GivenKept
  <2>3. given[j].kind = files[j].kind /\ given[i].kind = files[i].kind
    BY <2>0, GivenKinds
  <2>4. files[j].kind # files[i].kind
    <3> SUFFICES ASSUME files[j].kind = files[i].kind PROVE FALSE
      OBVIOUS
    <3>1. Counted(n) = Counted(m)
      BY <1>4, <2>2 DEF Reads
    <3>2. n = m
      BY <3>1, AtomsAre
    <3>3. CASE i < j
      <4>1. n < m
        BY <1>0, <1>2, <2>0, <2>1, <3>3, NumbersGrow
      <4> QED BY <3>2, <4>1
    <3>4. CASE j < i
      <4>1. m < n
        BY <1>0, <1>2, <2>0, <2>1, <3>4, NumbersGrow
      <4> QED BY <3>2, <4>1
    <3> QED BY <1>0, <2>0, <3>3, <3>4
  <2>5. ~HasPart(t, "kind")
    <3> SUFFICES ASSUME HasPart(t, "kind") PROVE FALSE
      OBVIOUS
    <3>1. Atom(files[i].kind) = Atom(files[j].kind)
      BY <1>4, <2>2 DEF Reads
    <3>2. files[i].kind = files[j].kind
      BY <3>1 DEF Atom
    <3> QED BY <2>4, <3>2
  <2> QED BY <2>3, <2>4, <2>5
<1> QED BY <1>3, <1>5, <1>6

Plans == [of : Files \cup {None}, file : Files, rule : Templates, listed : BOOLEAN]

LeavesNamed(p) == p.of # None => ~(p.of.whole /\ ReadsBack(p.of.under) /\ p.of.under \in {p.rule, DefaultTemplate})

\* What is planned keeps its promises, about files that are there.
Planned(p, here) == p \in Plans /\ p.of \in here \cup {None} /\ Kept(p.file) /\ LeavesNamed(p)

\* No file is to be renamed twice.
OnceEach(plans) == \A i, j \in DOMAIN plans : plans[i].of = plans[j].of /\ plans[i].of # None => i = j

Wellkept(here) == \A f \in here : Kept(f)

PlansFit(plans, here) == plans \in Seq(Plans) /\ (\A i \in DOMAIN plans : Planned(plans[i], here)) /\ OnceEach(plans)

NamingInv == template \in Templates /\ Shelf(present) /\ Wellkept(present) /\ PlansFit(naming, present)

NamingSpec == NamingInit /\ [][NamingNext]_<<namingVars, spent>>

LEMMA NamingStart == NamingInit => NamingInv
<1> SUFFICES ASSUME NamingInit PROVE NamingInv
  OBVIOUS
<1>1. template \in Templates /\ present = {} /\ naming = << >>
  BY DEF NamingInit
<1>2. Shelf(present) /\ Wellkept(present)
  BY <1>1, FS_EmptySet DEF Shelf, Wellkept
<1>3. PlansFit(naming, present)
  BY <1>1 DEF PlansFit, OnceEach
<1> QED BY <1>1, <1>2, <1>3 DEF NamingInv

LEMMA NamingTypes == NamingInv => NamingTypeOK
<1> SUFFICES ASSUME NamingInv PROVE NamingTypeOK
  OBVIOUS
<1>1. \A f \in Files : StoredFile(f)
  BY DEF Files, StoredFile
<1>2. template \in Templates /\ present \subseteq Files
  BY DEF NamingInv, Shelf
<1>3. ASSUME NEW i \in DOMAIN naming
      PROVE /\ StoredFile(naming[i].file) /\ naming[i].rule \in Templates
            /\ naming[i].of \in present \cup {None} /\ naming[i].listed \in BOOLEAN
  <2>1. Planned(naming[i], present)
    BY DEF NamingInv, PlansFit
  <2> QED BY <1>1, <2>1 DEF Planned, Plans
<1> QED BY <1>1, <1>2, <1>3 DEF NamingTypeOK

LEMMA NamingLeaves == NamingInv => PassesLeaveNamed
<1> SUFFICES ASSUME NamingInv, NEW i \in DOMAIN naming PROVE LeavesNamed(naming[i])
  BY DEF PassesLeaveNamed, LeavesNamed
<1> QED BY DEF NamingInv, PlansFit, Planned

\* ofs says which file each of files is, if it is there already.
Renames(ofs, files, here) ==
    /\ DOMAIN ofs = DOMAIN files
    /\ \A i, j \in DOMAIN files : ofs[i] = ofs[j] /\ ofs[i] # None => i = j
    /\ \A i \in DOMAIN files : ofs[i] \in {None} \cup {f \in here \cap Files : ~FollowsManagedName(f.name) /\ Kept(f)}

PlansAre(plans, ofs, t, files, value, listed) ==
    plans = [i \in DOMAIN files |->
               [of |-> ofs[i], file |-> Given(t, files, value, Seen(listed))[i], rule |-> template, listed |-> listed]]

FreeOf(plans) == \A i \in DOMAIN plans : Free([j \in DOMAIN plans |-> plans[j].file], i, plans[i].listed)

\* Plans for files of a list: what is renamed, if anything, is not named yet.
LEMMA NewPlans ==
    ASSUME NamingInv, NEW t \in Templates, NEW files, Sources(files), NEW value \in {"value", None},
           NEW listed \in BOOLEAN, NEW here, NEW ofs, Renames(ofs, files, here),
           NEW plans, PlansAre(plans, ofs, t, files, value, listed)
    PROVE PlansFit(plans, here) /\ FreeOf(plans)
<1>p. plans = [i \in DOMAIN files |->
                [of |-> ofs[i], file |-> Given(t, files, value, Seen(listed))[i], rule |-> template, listed |-> listed]]
  BY DEF PlansAre
<1>o. DOMAIN ofs = DOMAIN files /\ \A i \in DOMAIN files :
        ofs[i] \in {None} \cup {f \in here \cap Files : ~FollowsManagedName(f.name) /\ Kept(f)}
  BY DEF Renames
<1>0. Shelf(present) /\ template \in Templates
  BY DEF NamingInv
<1>1. PICK m \in Nat : DOMAIN files = 1 .. m
  BY DEF Sources
<1>2. ASSUME NEW i \in DOMAIN files PROVE Planned(plans[i], here)
  <2>1. PICK g \in Files : g = Given(t, files, value, Seen(listed))[i] /\ Kept(g)
    BY <1>0, GivenKept
  <2>2. PICK f : f = ofs[i]
    OBVIOUS
  <2>9. f \in {None} \cup {x \in here \cap Files : ~FollowsManagedName(x.name) /\ Kept(x)}
    BY <1>o, <2>2
  <2>3. plans[i] = [of |-> f, file |-> g, rule |-> template, listed |-> listed]
    BY <1>p, <2>1, <2>2
  <2>4. f \in here \cup {None} /\ f \in Files \cup {None}
    BY <2>9
  <2>5. ASSUME f # None PROVE ~(f.whole /\ ReadsBack(f.under) /\ f.under \in {template, DefaultTemplate})
    <3>1. ~FollowsManagedName(f.name) /\ Kept(f)
      BY <2>5, <2>9
    <3> QED BY <3>1 DEF FollowsManagedName, Kept
  <2>6. plans[i] \in Plans
    BY <1>0, <2>3, <2>4 DEF Plans
  <2>7. plans[i].of = f /\ plans[i].file = g /\ plans[i].rule = template
    BY <2>3
  <2> QED BY <2>1, <2>4, <2>5, <2>6, <2>7 DEF Planned, LeavesNamed
<1>3. plans \in Seq(Plans)
  <2>1. \A i \in 1 .. m : plans[i] \in Plans
    BY <1>1, <1>2 DEF Planned
  <2>2. plans = [i \in 1 .. m |-> plans[i]]
    BY <1>1, <1>p
  <2> QED BY <2>1, <2>2
<1>4. OnceEach(plans)
  BY <1>p DEF OnceEach, Renames
<1>5. PlansFit(plans, here)
  BY <1>2, <1>3, <1>4, <1>p DEF PlansFit
<1>6. [j \in DOMAIN plans |-> plans[j].file] = Given(t, files, value, Seen(listed))
  <2>1. DOMAIN Given(t, files, value, Seen(listed)) = DOMAIN files
    BY GivenIs
  <2>2. Given(t, files, value, Seen(listed)) = [j \in DOMAIN files |-> Given(t, files, value, Seen(listed))[j]]
    BY DEF Given
  <2> QED BY <1>p, <2>2
<1>7. \A i \in DOMAIN plans : Free(Given(t, files, value, Seen(listed)), i, plans[i].listed)
  <2>1. \A i \in DOMAIN files : Free(Given(t, files, value, Seen(listed)), i, listed)
    BY <1>0, GivenFree
  <2> QED BY <1>p, <2>1
<1> QED BY <1>5, <1>6, <1>7 DEF FreeOf

----------------------------------------------------------------------------
(* Files get their names: the steps and the theorems *)

LEMMA PlansLeft ==
    ASSUME NEW plans, NEW here, NEW there, PlansFit(plans, here), plans # << >>, here \ {Head(plans).of} \subseteq there
    PROVE PlansFit(Tail(plans), there)
<1>0. plans \in Seq(Plans) /\ Len(plans) \in Nat /\ Len(plans) >= 1 /\ DOMAIN plans = 1 .. Len(plans)
  BY DEF PlansFit
<1>a. Tail(plans) \in Seq(Plans)
  BY <1>0
<1>1. PICK rest \in Seq(Plans) : rest = Tail(plans)
  BY <1>a
<1>2. /\ Len(rest) = Len(plans) - 1 /\ DOMAIN rest = 1 .. Len(rest)
      /\ \A i \in 1 .. Len(rest) : rest[i] = plans[i + 1] /\ i + 1 \in DOMAIN plans /\ i + 1 # 1
      /\ Head(plans) = plans[1] /\ 1 \in DOMAIN plans
  BY <1>0, <1>1
<1>3. ASSUME NEW i \in DOMAIN rest PROVE Planned(rest[i], there)
  <2>1. i \in 1 .. Len(rest)
    BY <1>2
  <2>2. rest[i] = plans[i + 1] /\ i + 1 \in DOMAIN plans /\ i + 1 # 1
    BY <1>2, <2>1
  <2>3. Planned(plans[i + 1], here)
    BY <2>2 DEF PlansFit
  <2>4. plans[i + 1].of # None => plans[i + 1].of # plans[1].of
    BY <1>2, <2>2 DEF PlansFit, OnceEach
  <2>5. plans[i + 1].of \in there \cup {None}
    BY <1>2, <2>3, <2>4 DEF Planned
  <2> QED BY <2>2, <2>3, <2>5 DEF Planned
<1>4. OnceEach(rest)
  <2> SUFFICES ASSUME NEW i \in DOMAIN rest, NEW j \in DOMAIN rest, rest[i].of = rest[j].of, rest[i].of # None PROVE i = j
    BY DEF OnceEach
  <2>1. i \in 1 .. Len(rest) /\ j \in 1 .. Len(rest) /\ i \in Nat /\ j \in Nat
    BY <1>0, <1>2
  <2>2. rest[i] = plans[i + 1] /\ rest[j] = plans[j + 1] /\ i + 1 \in DOMAIN plans /\ j + 1 \in DOMAIN plans
    BY <1>2, <2>1
  <2>3. i + 1 = j + 1
    BY <2>2 DEF PlansFit, OnceEach
  <2> QED BY <2>1, <2>3
<1> QED BY <1>1, <1>3, <1>4 DEF PlansFit

LEMMA PlansStay == ASSUME NEW plans, NEW here, NEW there, PlansFit(plans, here), here \subseteq there PROVE PlansFit(plans, there)
<1>1. \A i \in DOMAIN plans : Planned(plans[i], there)
  BY DEF PlansFit, Planned
<1> QED BY <1>1 DEF PlansFit

LEMMA FreeSays == ASSUME FreeOf(naming') PROVE NamesAreFree
<1> DEFINE given == [j \in DOMAIN naming' |-> naming'[j].file]
<1>1. ASSUME NEW i \in DOMAIN naming', naming'[i].file.whole, ReadsBack(naming'[i].file.under)
      PROVE /\ naming'[i].listed => naming'[i].file.name \notin NamesInUse
            /\ \A j \in DOMAIN naming' \ {i} :
                 naming'[j].file.whole /\ naming'[j].file.name = naming'[i].file.name
                   => ~HasPart(naming'[i].file.under, "kind") /\ naming'[j].file.kind # naming'[i].file.kind
  <2>1. Free(given, i, naming'[i].listed)
    BY DEF FreeOf
  <2>2. DOMAIN given = DOMAIN naming' /\ \A j \in DOMAIN naming' : given[j] = naming'[j].file
    OBVIOUS
  <2> HIDE DEF given
  <2> QED BY <1>1, <2>1, <2>2 DEF Free
<1> QED BY <1>1 DEF NamesAreFree

LEMMA SourcesOne == ASSUME NEW a \in Attachments PROVE Source(a)
<1>1. a.kind \in FileKinds /\ a.base \in Seq(Atoms) /\ a.ext \in {<< >>} \cup {<<Atom(e)>> : e \in Endings}
  BY NamingAssumption
<1>2. \A e \in Endings : <<Atom(e)>> \in Exts
  <2> SUFFICES ASSUME NEW e \in Endings PROVE <<Atom(e)>> \in Exts
    OBVIOUS
  <2>1. PICK x \in Atoms : x = Atom(e) /\ x.a \in Endings
    BY EndingsAre
  <2> QED BY <2>1 DEF Exts
<1>3. << >> \in Exts
  BY DEF Exts
<1> QED BY <1>1, <1>2, <1>3 DEF Source

LEMMA UploadsFit ==
    ASSUME NamingInv, NEW files, Sources(files), NEW value \in {"value", None}, NEW listed \in BOOLEAN,
           Uploads(files, value, listed)
    PROVE NamingInv' /\ NamesAreFree
<1> DEFINE ofs == [i \in DOMAIN files |-> None]
           plans == [i \in DOMAIN files |->
                       [of |-> ofs[i], file |-> Given(template, files, value, Seen(listed))[i],
                        rule |-> template, listed |-> listed]]
<1>1. naming' = plans /\ present' = present /\ template' = template
  BY DEF Uploads
<1>2. template \in Templates
  BY DEF NamingInv
<1>5. PICK p : p = plans
  OBVIOUS
<1>3. PlansAre(p, ofs, template, files, value, listed)
  BY <1>5 DEF PlansAre
<1>4. Renames(ofs, files, present)
  BY DEF Renames
<1> HIDE DEF ofs
<1>6. PlansFit(p, present) /\ FreeOf(p)
  BY <1>2, <1>3, <1>4, NewPlans
<1> HIDE DEF plans
<1>7. FreeOf(naming') /\ PlansFit(naming', present')
  BY <1>1, <1>5, <1>6
<1>8. NamingInv'
  BY <1>1, <1>7 DEF NamingInv, Shelf, Wellkept, Kept
<1> QED BY <1>7, <1>8, FreeSays

LEMMA LandsFit == ASSUME NamingInv, Lands PROVE NamingInv' /\ NamesAreFree
<1>0. naming # << >> /\ naming' = Tail(naming) /\ template' = template
  BY DEF Lands
<1>1. PICK next : next = Head(naming)
  OBVIOUS
<1>2. Planned(next, present)
  <2>1. 1 \in DOMAIN naming /\ Head(naming) = naming[1]
    BY <1>0 DEF NamingInv, PlansFit
  <2> QED BY <1>1, <2>1 DEF NamingInv, PlansFit
<1>3. present' = present \/ present' = (present \ {next.of}) \cup {next.file}
  BY <1>1 DEF Lands
<1>4. Shelf(present') /\ Wellkept(present')
  <2>1. next.file \in Files /\ Kept(next.file)
    BY <1>2 DEF Planned, Plans
  <2>2. IsFiniteSet((present \ {next.of}) \cup {next.file})
    <3>1. IsFiniteSet(present \ {next.of})
      BY FS_RemoveElement DEF NamingInv, Shelf
    <3> QED BY <3>1, FS_AddElement
  <2> QED BY <1>3, <2>1, <2>2 DEF NamingInv, Shelf, Wellkept
<1>5. PlansFit(naming', present')
  <2>1. present \ {Head(naming).of} \subseteq present'
    BY <1>1, <1>3
  <2> QED BY <1>0, <2>1, PlansLeft DEF NamingInv
<1>6. NamingInv'
  BY <1>0, <1>4, <1>5 DEF NamingInv
<1>7. NamesAreFree
  BY <1>0 DEF NamesAreFree
<1> QED BY <1>6, <1>7

LEMMA PersonFits == ASSUME NamingInv, NEW a \in Attachments, PersonAdds(a) PROVE NamingInv' /\ NamesAreFree
<1>0. naming' = naming /\ template' = template
  BY DEF PersonAdds
<1>1. PICK f : f = [kind |-> a.kind, under |-> None, whole |-> FALSE, fresh |-> TRUE, name |-> a.base \o a.ext]
  OBVIOUS
<1>2. present' = present \cup {f}
  BY <1>1 DEF PersonAdds
<1>3. a.kind \in FileKinds /\ a.base \in Seq(Atoms) /\ a.ext \in Seq(Atoms)
  <2>1. << >> \in Seq(Atoms) /\ \A x \in Atoms : <<x>> \in Seq(Atoms)
    OBVIOUS
  <2> QED BY <2>1, SourcesOne DEF Source, Exts
<1>b. a.base \o a.ext \in Seq(Atoms)
  BY <1>3
<1>4. PICK name \in Seq(Atoms) : name = a.base \o a.ext
  BY <1>b
<1>5. f \in Files
  <2>1. f = [kind |-> a.kind, under |-> None, whole |-> FALSE, fresh |-> TRUE, name |-> name]
    BY <1>1, <1>4
  <2> QED BY <1>3, <2>1 DEF Files
<1>6. Kept(f)
  BY <1>1 DEF Kept
<1>7. Shelf(present') /\ Wellkept(present')
  BY <1>2, <1>5, <1>6, FS_AddElement DEF NamingInv, Shelf, Wellkept
<1>8. PlansFit(naming', present')
  <2>1. present \subseteq present'
    BY <1>2
  <2> QED BY <1>0, <2>1, PlansStay DEF NamingInv
<1>9. NamingInv'
  BY <1>0, <1>7, <1>8 DEF NamingInv
<1>10. NamesAreFree
  BY <1>0 DEF NamesAreFree
<1> QED BY <1>9, <1>10

LEMMA RuleFits == ASSUME NamingInv, NEW t \in Templates, RuleChanges(t) PROVE NamingInv' /\ NamesAreFree
<1>1. naming' = naming /\ present' = present /\ template' = t
  BY DEF RuleChanges
<1>2. NamingInv'
  BY <1>1 DEF NamingInv
<1> QED BY <1>1, <1>2 DEF NamesAreFree

LEMMA PassNames ==
    ASSUME NamingInv, PassRenames PROVE NamingInv' /\ NamesAreFree
<1>0. template' = template /\ Shelf(present) /\ Wellkept(present) /\ template \in Templates
  BY DEF PassRenames, NamingInv
<1>1. PICK odd : odd = {f \in present : f.fresh /\ ~FollowsManagedName(f.name)}
  OBVIOUS
<1>2. present' = {IF f \in odd THEN f ELSE [f EXCEPT !.fresh = FALSE] : f \in present}
  BY <1>1 DEF PassRenames
<1>3. PICK todo \in Lineups(odd) :
        naming' = [i \in DOMAIN todo |->
                     [of |-> todo[i],
                      file |-> Given(ManualTemplate(template), [j \in DOMAIN todo |-> Original(todo[j])], None,
                                     NamesInUse)[i],
                      rule |-> template, listed |-> TRUE]]
  BY <1>1 DEF PassRenames
<1>4. PICK m \in Nat : m = Cardinality(odd) /\ IsFiniteSet(odd)
  <2>1. odd \in SUBSET present
    BY <1>1
  <2>2. IsFiniteSet(odd)
    BY <1>0, <2>1, FS_Subset DEF Shelf
  <2> QED BY <2>2, FS_CardinalityType
<1>5. /\ todo \in [1 .. m -> odd] /\ DOMAIN todo = 1 .. m
      /\ \A i, j \in DOMAIN todo : todo[i] = todo[j] => i = j
  BY <1>4 DEF Lineups
<1>6. PICK files : files = [j \in DOMAIN todo |-> Original(todo[j])]
  OBVIOUS
<1>7. Sources(files)
  <2>1. ASSUME NEW j \in 1 .. m PROVE Source(files[j])
    <3>1. PICK f \in Files : f = todo[j]
      BY <1>0, <1>1, <1>5 DEF Shelf
    <3>2. files[j] = Original(f)
      BY <1>5, <1>6, <3>1
    <3>3. f.kind \in FileKinds /\ f.name \in Seq(Atoms)
      BY DEF Files
    <3>4. Stem(f.name) \in Seq(Atoms) /\ (HasEnding(f.name) => <<f.name[Len(f.name)]>> \in Exts)
      BY <3>3, StemType
    <3>5. << >> \in Exts
      BY DEF Exts
    <3> QED BY <3>2, <3>3, <3>4, <3>5 DEF Original, Source
  <2>2. DOMAIN files = 1 .. m
    BY <1>5, <1>6
  <2> QED BY <2>1, <2>2 DEF Sources
<1>8. PICK t \in Templates : t = ManualTemplate(template)
  BY <1>0, NamingAssumption DEF ManualTemplate
<1>9. PICK value \in {"value", None} : value = None
  OBVIOUS
<1>10. DOMAIN todo = DOMAIN files
  BY <1>6
<1>l. PICK listed \in BOOLEAN : listed = TRUE
  OBVIOUS
<1>s. Seen(listed) = NamesInUse
  BY <1>l DEF Seen
<1>11. PICK p : p = [i \in DOMAIN files |->
                       [of |-> todo[i], file |-> Given(t, files, value, Seen(listed))[i],
                        rule |-> template, listed |-> listed]]
  OBVIOUS
<1>12. naming' = p
  BY <1>3, <1>6, <1>8, <1>9, <1>10, <1>11, <1>l, <1>s
<1>14. odd \subseteq present'
  BY <1>1, <1>2
<1>13. PICK here : here = present'
  OBVIOUS
<1>15. Renames(todo, files, here)
  <2>1. ASSUME NEW i \in DOMAIN files
        PROVE todo[i] \in {None} \cup {f \in here \cap Files : ~FollowsManagedName(f.name) /\ Kept(f)}
    <3>1. PICK f \in odd : f = todo[i]
      BY <1>5, <1>10
    <3>2. f \in here /\ f \in Files /\ ~FollowsManagedName(f.name) /\ Kept(f)
      BY <1>0, <1>1, <1>13, <1>14 DEF Shelf, Wellkept
    <3> QED BY <3>1, <3>2
  <2> QED BY <1>5, <1>10, <2>1 DEF Renames
<1>16. PlansFit(p, present') /\ FreeOf(p)
  <2>1. PlansAre(p, todo, t, files, value, listed)
    BY <1>11 DEF PlansAre
  <2>2. PlansFit(p, here) /\ FreeOf(p)
    BY <1>7, <1>15, <2>1, NewPlans
  <2> QED BY <1>13, <2>2
<1>17. Shelf(present') /\ Wellkept(present')
  <2> DEFINE seen(f) == IF f \in odd THEN f ELSE [f EXCEPT !.fresh = FALSE]
  <2>1. PICK h : h = [f \in present |-> seen(f)]
    OBVIOUS
  <2>2. h \in Surjection(present, present')
    BY <1>2, <2>1 DEF Surjection
  <2>3. IsFiniteSet(present')
    BY <1>0, <2>2, FS_Surjection DEF Shelf
  <2>4. ASSUME NEW f \in present PROVE seen(f) \in Files /\ Kept(seen(f))
    <3>1. f \in Files /\ Kept(f)
      BY <1>0 DEF Shelf, Wellkept
    <3>2. PICK g : g = [f EXCEPT !.fresh = FALSE]
      OBVIOUS
    <3>3. g \in Files /\ g.whole = f.whole /\ g.under = f.under /\ g.name = f.name
      BY <3>1, <3>2 DEF Files
    <3>4. Kept(g)
      BY <3>1, <3>3 DEF Kept
    <3> QED BY <3>1, <3>2, <3>3, <3>4
  <2>5. present' = {seen(f) : f \in present}
    BY <1>2
  <2> HIDE DEF seen
  <2>6. \A g \in present' : g \in Files /\ Kept(g)
    BY <2>4, <2>5
  <2> QED BY <2>3, <2>6 DEF Shelf, Wellkept
<1>18. PlansFit(naming', present') /\ FreeOf(naming')
  BY <1>12, <1>16
<1>19. NamingInv'
  BY <1>0, <1>17, <1>18 DEF NamingInv
<1> QED BY <1>18, <1>19, FreeSays

LEMMA NamingStep == NamingInv /\ [NamingNext]_<<namingVars, spent>> => NamingInv' /\ [NamesAreFree]_namingVars
<1> SUFFICES ASSUME NamingInv, [NamingNext]_<<namingVars, spent>> PROVE NamingInv' /\ [NamesAreFree]_namingVars
  OBVIOUS
<1>1. CASE Lands
  BY <1>1, LandsFit
<1>2. CASE PassRenames
  BY <1>2, PassNames
<1>3. ASSUME NEW t \in Templates, RuleChanges(t) PROVE NamingInv' /\ NamesAreFree
  BY <1>3, RuleFits
<1>4. ASSUME NEW a \in Attachments, PersonAdds(a) PROVE NamingInv' /\ NamesAreFree
  BY <1>4, PersonFits
<1>5. ASSUME NEW value \in {"value", None}, NEW listed \in BOOLEAN, NEW files, Sources(files),
             Uploads(files, value, listed)
      PROVE NamingInv' /\ NamesAreFree
  BY <1>5, UploadsFit
<1>6. ASSUME NEW a \in Attachments PROVE Sources(<<a>>) /\ \A b \in Attachments : Sources(<<a, b>>)
  <2>1. Source(a) /\ \A b \in Attachments : Source(b)
    BY SourcesOne
  <2>2. DOMAIN <<a>> = 1 .. 1 /\ \A i \in 1 .. 1 : Source(<<a>>[i])
    BY <2>1
  <2>3. ASSUME NEW b \in Attachments PROVE DOMAIN <<a, b>> = 1 .. 2 /\ \A i \in 1 .. 2 : Source(<<a, b>>[i])
    BY <2>1
  <2> QED BY <2>2, <2>3 DEF Sources
<1>7. CASE UNCHANGED <<namingVars, spent>>
  <2>1. naming' = naming /\ present' = present /\ template' = template
    BY <1>7 DEF namingVars
  <2> QED BY <1>7, <2>1 DEF NamingInv, namingVars
<1>8. CASE \E value \in {"value", None}, a \in Attachments, listed \in BOOLEAN :
         \/ Uploads(<<a>>, value, listed)
         \/ \E b \in Attachments \ {a} : Uploads(<<a, b>>, value, listed)
  <2>1. PICK value \in {"value", None}, a \in Attachments, listed \in BOOLEAN :
         \/ Uploads(<<a>>, value, listed)
         \/ \E b \in Attachments \ {a} : Uploads(<<a, b>>, value, listed)
    BY <1>8
  <2> QED BY <1>5, <1>6, <2>1
<1> QED BY <1>1, <1>2, <1>3, <1>4, <1>7, <1>8 DEF NamingNext

LEMMA NamingHolds == NamingSpec => []NamingInv
BY NamingStart, NamingStep, PTL DEF NamingSpec

\* The rule in force, the folder and what is still to be named keep to their types.
THEOREM NamingTypeCorrect == NamingSpec => []NamingTypeOK
BY NamingHolds, NamingTypes, PTL

\* A pass renames nothing that the app named under the rule it goes by or the
\* default one, or that a pass before it named, and a file is planned under a
\* name no file has and no other file is planned under, for any rules, set in
\* any order, any files put there by people, and files that land late or not at
\* all: but for the rules and files that the property names as exceptions, and
\* what an upload plans whose listing of the folder failed.
THEOREM NamesAreSoundAlways == NamingSpec => NamesAreSound
<1>1. NamingInv /\ NamingInv' /\ [NamingNext]_<<namingVars, spent>> => [NamesAreFree /\ PassesLeaveNamed']_namingVars
  <2>1. NamingInv' => PassesLeaveNamed'
    BY NamingLeaves, PTL
  <2>2. NamingInv /\ [NamingNext]_<<namingVars, spent>> => [NamesAreFree]_namingVars
    BY NamingStep
  <2> QED BY <2>1, <2>2
<1>2. NamingSpec => [][NamesAreFree /\ PassesLeaveNamed']_namingVars
  BY <1>1, NamingHolds, PTL DEF NamingSpec
<1> QED BY <1>2 DEF NamesAreSound
=============================================================================
