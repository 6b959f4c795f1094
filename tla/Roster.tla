------------------------------- MODULE Roster -------------------------------
(***************************************************************************)
(* The technicians' roster, which several managers keep at once.  The      *)
(* master sees everybody; the manager of a company sees who carries a tag  *)
(* of the company and decides about its own tags only.  A route decides    *)
(* what to write when the request comes in; the writing itself queues, one *)
(* at a time.  An import is checked for a preview, then again when it is   *)
(* confirmed, and again at its turn in the queue.                          *)
(*                                                                         *)
(* What is abstracted: a name and a title are one calling; telephone and   *)
(* region, which are written like the calling; and the check that nobody   *)
(* who has an account is removed, which is part of AdminAccounts.          *)
(***************************************************************************)
EXTENDS Common, Sequences

CONSTANTS
    PersonIds,   \* identities there may be
    Callings,    \* names with titles
    Companies,   \* 시공종류 a person may be tagged with
    Bosses,      \* managers, the master among them
    Master,
    CompaniesOf, \* the companies of a manager
    TagChoices,  \* the tags a form may ask for
    FilesOf,     \* per manager, the files to import: sequences of persons
    MaxPeople    \* MAX_TECHNICIANS

Person  == [call : Callings, tags : SUBSET Companies]
Rosters == [PersonIds -> Person \cup {None}]

ASSUME RosterAssumption ==
    /\ IsFiniteSet(PersonIds) /\ MaxPeople \in Nat /\ Master \in Bosses
    /\ CompaniesOf \in [Bosses -> SUBSET Companies] /\ CompaniesOf[Master] = Companies
    /\ TagChoices \subseteq SUBSET Companies
    /\ \A b \in Bosses : FilesOf[b] \subseteq Seq(Person) /\ None \notin FilesOf[b]
    /\ None \notin PersonIds \cup Callings /\ \A tags \in SUBSET Companies : tags # None
    /\ None \notin Person /\ None \notin Rosters

VARIABLES
    people,      \* the roster in memory: a person per identity, or None
    keptPeople,  \* the roster in the repository
    tasks,       \* the writes that wait or are under way, in turn
    previews,    \* per manager, the file of which a preview without errors is shown
    known,       \* the 시공종류 there are
    rosterDoubt  \* ghost: the last write was rejected, memory is ahead

rosterVars == <<people, keptPeople, tasks, previews, known, rosterDoubt>>

\* A write: who asked, what for, the values, whether an edit of the same person
\* was waiting before it, and the roster it writes once it has begun.
Task(b, op, t, call, tags, rows) ==
    [by |-> b, op |-> op, id |-> t, call |-> call, tags |-> tags, rows |-> rows,
     behind |-> \E i \in DOMAIN tasks : tasks[i].copy = None /\ tasks[i].op = "edit" /\ tasks[i].id = t,
     copy |-> None]

RosterTypeOK ==
    /\ people \in Rosters /\ keptPeople \in Rosters
    /\ \A i \in DOMAIN tasks : tasks[i].by \in Bosses /\ tasks[i].id \in PersonIds \cup {None}
    /\ \A b \in Bosses : previews[b] \in FilesOf[b] \cup {None}
    /\ known \subseteq Companies /\ rosterDoubt \in BOOLEAN

OnRoster(p) == {t \in PersonIds : p[t] # None}

\* No two entries have one name and title, and there are not too many.
Proper(p) ==
    /\ \A s, t \in OnRoster(p) : s # t => p[s].call # p[t].call
    /\ Cardinality(OnRoster(p)) <= MaxPeople

\* A roster as earlier writes have left it.
RosterInit ==
    /\ people \in Rosters /\ Proper(people) /\ keptPeople = people
    /\ tasks = << >> /\ previews = [b \in Bosses |-> None]
    /\ known = Companies /\ rosterDoubt = FALSE

----------------------------------------------------------------------------
(* What a route makes of a request *)

VisibleTo(b) == {t \in OnRoster(people) : b = Master \/ people[t].tags \cap CompaniesOf[b] # {}}

\* Tags that are not the manager's to decide stay.
ResolveTypes(b, requested, existing) ==
    IF b = Master THEN requested
    ELSE (existing \ CompaniesOf[b]) \cup (requested \cap CompaniesOf[b])

TypesOfNew(b, requested) ==
    IF b # Master /\ ResolveTypes(b, requested, {}) = {} THEN CompaniesOf[b]
    ELSE ResolveTypes(b, requested, {})

MayTag(b) == IF b = Master THEN known ELSE CompaniesOf[b]

ImportFits(rows, allowed) ==
    /\ \A i \in DOMAIN rows :
         /\ rows[i].tags # {} /\ rows[i].tags \subseteq allowed
         /\ rows[i].call \notin {people[t].call : t \in OnRoster(people)} \cup {rows[j].call : j \in 1 .. i - 1}
    /\ Cardinality(OnRoster(people)) + Len(rows) <= MaxPeople

\* The loop is idle, or the write at its head is under way.
Steady == tasks = << >> \/ \E i \in DOMAIN tasks : tasks[i].copy # None

Enqueued(task) ==
    /\ Steady /\ Spend("ask")
    /\ tasks' = Append(tasks, task)
    /\ UNCHANGED <<people, keptPeople, known, rosterDoubt>>

AsksAdd(b, call, requested) ==
    Enqueued(Task(b, "add", None, call, TypesOfNew(b, requested), << >>)) /\ UNCHANGED previews

\* What is None is left as it is.
AsksEdit(b, t, call, requested) ==
    /\ t \in VisibleTo(b)
    /\ Enqueued(Task(b, "edit", t, call,
                   IF requested = None THEN None ELSE ResolveTypes(b, requested, people[t].tags), << >>))
    /\ UNCHANGED previews

AsksRemove(t) == Enqueued(Task(Master, "remove", t, None, {}, << >>)) /\ UNCHANGED previews

AsksPreview(b, file) ==
    /\ Steady /\ previews[b] # file
    /\ previews' = [previews EXCEPT ![b] = IF ImportFits(file, MayTag(b)) THEN file ELSE None]
    /\ UNCHANGED <<people, keptPeople, tasks, known, rosterDoubt, spent>>

\* A file that does not fit any more is refused.
AsksImport(b) ==
    /\ previews[b] # None /\ ImportFits(previews[b], MayTag(b))
    /\ Enqueued(Task(b, "import", None, None, MayTag(b), previews[b]))
    /\ UNCHANGED previews

----------------------------------------------------------------------------
(* The queue *)

\* Mutant: writes do not wait for each other.
MayBegin_Any(i) == TRUE

\* writeRoster: a write begins when those before it have ended, well or badly.
MayBegin(i) == i = 1

Configured(tags) == tags \cap known

\* The writes that are left when write i has ended.
Rest(i) == [n \in 1 .. Len(tasks) - 1 |-> tasks[IF n < i THEN n ELSE n + 1]]

\* Identities nobody has or asks for: new ones are random in the code.
Unused == PersonIds \ (OnRoster(people) \cup OnRoster(keptPeople) \cup {tasks[i].id : i \in DOMAIN tasks})

\* One choice of new identities, as good as another; none if there are too few.
Fresh(n) ==
    LET choices == {ids \in [1 .. n -> Unused] : \A i, j \in 1 .. n : i # j => ids[i] # ids[j]}
    IN  {ids \in choices : ids = CHOOSE any \in choices : TRUE}

Placed(p, rows, ids) ==
    [t \in PersonIds |-> IF \E i \in DOMAIN rows : ids[i] = t
                         THEN rows[CHOOSE i \in DOMAIN rows : ids[i] = t] ELSE p[t]]

With(p, rows) == {Placed(p, rows, ids) : ids \in Fresh(Len(rows))}

IsTwin(t, call) == \E o \in OnRoster(people) \ {t} : people[o].call = call

\* What task a makes of the roster; nothing, if it is refused.
Made(a) ==
    CASE a.op = "add" ->
           IF IsTwin(None, a.call) \/ Cardinality(OnRoster(people)) >= MaxPeople THEN {}
           ELSE With(people, <<[call |-> a.call, tags |-> Configured(a.tags)]>>)
      [] a.op = "edit" ->
           IF people[a.id] = None \/ (a.call # None /\ IsTwin(a.id, a.call)) THEN {}
           ELSE {[people EXCEPT ![a.id] = [call |-> IF a.call = None THEN @.call ELSE a.call,
                                           tags |-> IF a.tags = None THEN @.tags ELSE Configured(a.tags)]]}
      [] a.op = "remove" -> IF people[a.id] = None THEN {} ELSE {[people EXCEPT ![a.id] = None]}
      [] a.op = "import" -> IF ImportFits(a.rows, Configured(a.tags)) THEN With(people, a.rows) ELSE {}

\* An import is not shown before it is kept.
TaskBegins(i) ==
    LET a == tasks[i] IN
    /\ MayBegin(i) /\ a.copy = None
    /\ \/ \E made \in Made(a) :
            /\ people' = IF a.op = "import" THEN people ELSE made
            /\ tasks' = [tasks EXCEPT ![i].copy = made]
       \/ Made(a) = {} /\ tasks' = Rest(i) /\ UNCHANGED people
    /\ UNCHANGED <<keptPeople, previews, known, rosterDoubt, spent>>

\* The screen that asked takes the preview away when its import is done.
TaskLands(i) ==
    LET a == tasks[i] IN
    /\ a.copy # None
    /\ keptPeople' = a.copy
    /\ people' = IF a.op = "import" THEN a.copy ELSE people
    /\ previews' = IF a.op = "import" THEN [previews EXCEPT ![a.by] = None] ELSE previews
    /\ tasks' = Rest(i) /\ rosterDoubt' = FALSE
    /\ UNCHANGED <<known, spent>>

TaskFails(i) ==
    /\ tasks[i].copy # None /\ Spend("call")
    /\ rosterDoubt' = (rosterDoubt \/ tasks[i].op # "import")
    /\ tasks' = Rest(i)
    /\ UNCHANGED <<people, keptPeople, previews, known>>

CompanyGoes(co) ==
    /\ co \in known /\ known # {co} /\ Steady /\ Spend("office")
    /\ known' = known \ {co}
    /\ UNCHANGED <<people, keptPeople, tasks, previews, rosterDoubt>>

RosterCrash ==
    /\ Spend("crash")
    /\ people' = keptPeople /\ tasks' = << >> /\ rosterDoubt' = FALSE
    /\ UNCHANGED <<keptPeople, previews, known>>

RosterNext ==
    \/ \E b \in Bosses :
         \/ \E call \in Callings, tags \in TagChoices : AsksAdd(b, call, tags)
         \/ \E t \in PersonIds, call \in Callings : AsksEdit(b, t, call, None)
         \/ \E t \in PersonIds, tags \in TagChoices : AsksEdit(b, t, None, tags)
         \/ \E f \in FilesOf[b] : AsksPreview(b, f)
         \/ AsksImport(b)
    \/ \E t \in PersonIds : AsksRemove(t)
    \/ \E i \in DOMAIN tasks : TaskBegins(i) \/ TaskLands(i) \/ TaskFails(i)
    \/ \E co \in Companies : CompanyGoes(co)
    \/ RosterCrash

RosterSpec == RosterInit /\ NothingSpent /\ [][RosterNext]_<<rosterVars, spent>>

----------------------------------------------------------------------------
(* Properties *)

\* Whatever managers ask for at the same time, no two entries of the roster
\* have one name and title, and the roster does not grow beyond its limit, in
\* memory or in the repository.
NobodyTwice == Proper(people) /\ Proper(keptPeople)

\* Memory and repository agree on the roster when no write is under way or
\* waiting, unless the last one was rejected.
RosterIsKept == tasks = << >> /\ ~rosterDoubt => people = keptPeople

\* Nobody leaves the roster but by a removal of that person or with a restart:
\* two managers at work do not undo each other's additions.
EveryoneStays ==
    [][\A t \in OnRoster(people) \ OnRoster(people') :
          \/ \E i \in DOMAIN tasks : tasks[i].op = "remove" /\ tasks[i].id = t
          \/ Happened("crash")' # Happened("crash")]_rosterVars

\* A manager's edit leaves the tags of other companies as they are, unless it
\* came in while another edit of the same person was waiting.
TagsOutsideScopeStay ==
    [][\A i \in DOMAIN tasks, t \in OnRoster(people) \cap OnRoster(people') :
          /\ tasks[i].op = "edit" /\ tasks[i].id = t /\ tasks[i].copy = None
          /\ Len(tasks') = Len(tasks) /\ ~tasks[i].behind
          => people[t].tags \cap (known \ CompaniesOf[tasks[i].by])
             = people'[t].tags \cap (known \ CompaniesOf[tasks[i].by])]_rosterVars

\* The roster stays whole, free of doubles and in the scope of who edits it.
RosterStaysRight == [](NobodyTwice /\ RosterIsKept) /\ EveryoneStays /\ TagsOutsideScopeStay
=============================================================================
