--------------------------- MODULE AdminAccounts ---------------------------
(***************************************************************************)
(* The accounts of the office and of the technicians.  Every request that  *)
(* carries a session and every login looks its account up, through a cache *)
(* that a save empties and that expires by itself.  The office edits an    *)
(* account field by field, and a login stamps lastLoginAt; each of them    *)
(* reads the account, awaits, and writes all of it back.                   *)
(*                                                                         *)
(* What is abstracted: the display name and the times, lastLoginAt with    *)
(* them, so that a stamp is meant to change nothing; the cookie, which     *)
(* carries no more than a name; and the lockout after five failures.  The  *)
(* master account is configuration and never stored.                       *)
(***************************************************************************)
EXTENDS Common, Sequences

CONSTANTS
    Names,      \* user names
    Types,      \* 시공종류 a company may be given
    Techs,      \* entries of the technicians' roster
    Passwords,
    Logins,     \* logins that may be under way at once
    Requests,   \* requests with a session that may be under way at once
    Clerks,     \* managers at work at once
    Plans       \* the sequences of single edits one PATCH asks for

Accounts == [ role     : {"COMPANY", "TECH"},
              types    : SUBSET Types,
              tech     : Techs \cup {None},
              password : Passwords,
              disabled : BOOLEAN ]

Ops == {"create", "disable", "enable", "toCompany", "toTech", "setTypes", "setTech", "reset", "remove"}

ASSUME AdminAccountsAssumption ==
    /\ Plans \subseteq Seq(Ops \ {"create"})
    /\ None \notin Names \cup Techs /\ None \notin Accounts

Visitors == Logins \cup Requests

\* A visit fetches when the cache has no answer; a login that succeeded stamps.
Visit == [ stage    : {"idle", "fetching", "stamping"},
           name     : Names \cup {None},
           password : Passwords \cup {None},
           copy     : Accounts \cup {None} ]

\* A clerk's PATCH: what is left of it, and the account as read for the next edit.
Patch == [ plan    : Seq(Ops),
           name    : Names \cup {None},
           reading : BOOLEAN,
           copy    : Accounts \cup {None} ]

VARIABLES
    accounts, \* the store
    cache,    \* per name, whether an answer is cached and which
    visits,   \* logins and requests under way
    patches,  \* edits under way
    roster,   \* technicians on the roster
    leaving,  \* a technician found to be linked to nobody, about to be removed
    tangled   \* names written while another held an older answer, technicians
              \* linked when they were gone or about to go

accountsVars == <<accounts, cache, visits, patches, roster, leaving, tangled>>

IdleVisit == [stage |-> "idle", name |-> None, password |-> None, copy |-> None]
IdlePatch == [plan |-> << >>, name |-> None, reading |-> FALSE, copy |-> None]
Uncached  == [known |-> FALSE, user |-> None]

AccountsTypeOK ==
    /\ accounts \in [Names -> Accounts \cup {None}]
    /\ cache \in [Names -> [known : BOOLEAN, user : Accounts \cup {None}]]
    /\ visits \in [Visitors -> Visit]
    /\ patches \in [Clerks -> Patch]
    /\ roster \subseteq Techs
    /\ leaving \in Techs \cup {None}
    /\ tangled \subseteq Names \cup Techs

\* The accounts create makes.
Newcomers ==
    {[role |-> "TECH", types |-> {}, tech |-> t, password |-> p, disabled |-> FALSE] :
        t \in Techs, p \in Passwords}
    \cup
    {[role |-> "COMPANY", types |-> ts, tech |-> None, password |-> p, disabled |-> FALSE] :
        ts \in SUBSET Types \ {{}}, p \in Passwords}

\* Accounts as earlier requests have left them.
AccountsInit ==
    /\ accounts \in [Names -> Newcomers \cup {None}]
    /\ cache = [n \in Names |-> Uncached]
    /\ visits = [v \in Visitors |-> IdleVisit]
    /\ patches = [c \in Clerks |-> IdlePatch]
    /\ roster = Techs
    /\ leaving = None
    /\ tangled = {}

----------------------------------------------------------------------------
(* Logins and requests *)

Admitted(user, password) ==
    user # None /\ ~user.disabled /\ (password = None \/ user.password = password)

\* What becomes of visit v of account n, answered with user.
After(v, n, password, user) ==
    visits' = [visits EXCEPT ![v] =
        IF password # None /\ Admitted(user, password)
        THEN [IdleVisit EXCEPT !.stage = "stamping", !.name = n, !.copy = user]
        ELSE IdleVisit]

\* fetch, answered from the cache.
VisitCached(v, n, password) ==
    /\ visits[v].stage = "idle" /\ cache[n].known
    /\ IF password = None THEN UNCHANGED spent ELSE Spend("login")
    /\ After(v, n, password, cache[n].user)
    /\ UNCHANGED <<accounts, cache, patches, roster, leaving, tangled>>

\* fetch asks the store ...
VisitFetches(v, n, password) ==
    /\ visits[v].stage = "idle" /\ ~cache[n].known
    /\ IF password = None THEN UNCHANGED spent ELSE Spend("login")
    /\ visits' = [visits EXCEPT ![v] = [stage |-> "fetching", name |-> n,
                                        password |-> password, copy |-> accounts[n]]]
    /\ UNCHANGED <<accounts, cache, patches, roster, leaving, tangled>>

\* ... and caches the answer, whatever happened to the account since.
VisitAnswered(v) ==
    LET w == visits[v] IN
    /\ w.stage = "fetching"
    /\ cache' = [cache EXCEPT ![w.name] = [known |-> TRUE, user |-> w.copy]]
    /\ After(v, w.name, w.password, w.copy)
    /\ UNCHANGED <<accounts, patches, roster, leaving, tangled, spent>>

\* The time of the login is saved with the account the login was checked against.
Stamp(v) ==
    LET w == visits[v] IN
    /\ w.stage = "stamping"
    /\ accounts' = [accounts EXCEPT ![w.name] = w.copy]
    /\ cache' = [cache EXCEPT ![w.name] = Uncached]
    /\ visits' = [visits EXCEPT ![v] = IdleVisit]
    /\ UNCHANGED <<patches, roster, leaving, tangled, spent>>

\* A save that is rejected is logged: the login has been answered.
StampFails(v) ==
    /\ visits[v].stage = "stamping"
    /\ Spend("call")
    /\ visits' = [visits EXCEPT ![v] = IdleVisit]
    /\ UNCHANGED <<accounts, cache, patches, roster, leaving, tangled>>

\* Mutant: an answer is cached for good.
Expire_Never(n) == FALSE

\* Thirty seconds have passed.
Expire(n) ==
    /\ cache[n].known
    /\ cache' = [cache EXCEPT ![n] = Uncached]
    /\ UNCHANGED <<accounts, visits, patches, roster, leaving, tangled, spent>>

----------------------------------------------------------------------------
(* Managers *)

\* What an edit requires of the account it has read.
Allowed(op, user) ==
    CASE op = "create"   -> user = None
      [] op = "setTypes" -> user # None /\ user.role = "COMPANY"
      [] op = "setTech"  -> user # None /\ user.role = "TECH"
      [] OTHER           -> user # None

\* What an edit makes of it; create and setTech take any technician they are
\* asked for, on the roster or not.
Edited(op, user, with) ==
    CASE op = "create"    -> {with}
      [] op = "disable"   -> {[user EXCEPT !.disabled = TRUE]}
      [] op = "enable"    -> {[user EXCEPT !.disabled = FALSE]}
      [] op = "toCompany" -> {[user EXCEPT !.role = "COMPANY", !.tech = None]}
      [] op = "toTech"    -> {[user EXCEPT !.role = "TECH", !.types = {}]}
      [] op = "setTypes"  -> {[user EXCEPT !.types = ts] : ts \in SUBSET Types \ {{}}}
      [] op = "setTech"   -> {[user EXCEPT !.tech = t] : t \in Techs}
      [] op = "reset"     -> {[user EXCEPT !.password = p] : p \in Passwords \ {user.password}}
      [] op = "remove"    -> {None}

\* POST and PATCH /accounts.
Ask(c, n, plan) ==
    /\ patches[c] = IdlePatch
    /\ Spend("patch")
    /\ patches' = [patches EXCEPT ![c] = [IdlePatch EXCEPT !.plan = plan, !.name = n]]
    /\ UNCHANGED <<accounts, cache, visits, roster, leaving, tangled>>

Drop(c) == patches' = [patches EXCEPT ![c] = IdlePatch]

\* requireStored, and the checks on what it answers.
EditReads(c) ==
    LET w == patches[c] IN
    /\ w.plan # << >> /\ ~w.reading
    /\ IF Allowed(Head(w.plan), accounts[w.name])
       THEN patches' = [patches EXCEPT ![c].reading = TRUE, ![c].copy = accounts[w.name]]
       ELSE Drop(c)
    /\ UNCHANGED <<accounts, cache, visits, roster, leaving, tangled, spent>>

\* A name somebody else has an answer for, and a technician the roster no longer
\* has or is about to lose.
Entangled(c, n, user) ==
    {x \in {n} : \/ \E v \in Visitors : visits[v].name = n
                 \/ \E d \in Clerks \ {c} : patches[d].name = n /\ patches[d].reading}
    \cup {t \in Techs : user # None /\ user.tech = t /\ (leaving = t \/ t \notin roster)}

\* Mutant: the cached answer is left to expire.
Invalidated_Later(n) == cache

Invalidated(n) == [cache EXCEPT ![n] = Uncached]

EditSaves(c) ==
    LET w == patches[c] IN
    /\ w.plan # << >> /\ w.reading
    /\ \E with \in Newcomers \cup {None} :
          /\ (with = None) = (Head(w.plan) # "create")
          /\ \E user \in Edited(Head(w.plan), w.copy, with) :
                /\ accounts' = [accounts EXCEPT ![w.name] = user]
                /\ tangled' = tangled \cup Entangled(c, w.name, user)
    /\ cache' = Invalidated(w.name)
    /\ patches' = [patches EXCEPT ![c] =
                      IF Len(w.plan) = 1 THEN IdlePatch
                      ELSE [plan |-> Tail(w.plan), name |-> w.name, reading |-> FALSE, copy |-> None]]
    /\ UNCHANGED <<visits, roster, leaving, spent>>

\* The store rejects: the rest of the PATCH is not done.
EditFails(c) ==
    /\ patches[c].plan # << >>
    /\ Spend("call")
    /\ Drop(c)
    /\ UNCHANGED <<accounts, cache, visits, roster, leaving, tangled>>

LinkedTo(t) == {n \in Names : accounts[n] # None /\ accounts[n].tech = t}

\* Mutant: a technician is removed without looking at the accounts.
Unlinked_Any(t) == TRUE

Unlinked(t) == LinkedTo(t) = {}

\* DELETE /technicians/:id: isTechnicianLinked reads the accounts first.
RosterChecks(t) ==
    /\ leaving = None /\ t \in roster
    /\ Spend("roster")
    /\ leaving' = IF Unlinked(t) THEN t ELSE None
    /\ UNCHANGED <<accounts, cache, visits, patches, roster, tangled>>

RosterDrops ==
    /\ leaving # None
    /\ roster' = roster \ {leaving}
    /\ leaving' = None
    /\ UNCHANGED <<accounts, cache, visits, patches, tangled, spent>>

\* The process ends and starts again.
AccountsCrash ==
    /\ Spend("crash")
    /\ cache' = [n \in Names |-> Uncached]
    /\ visits' = [v \in Visitors |-> IdleVisit]
    /\ patches' = [c \in Clerks |-> IdlePatch]
    /\ leaving' = None
    /\ UNCHANGED <<accounts, roster, tangled>>

----------------------------------------------------------------------------
VisitStep(v) == VisitAnswered(v) \/ Stamp(v)
PatchStep(c) == EditReads(c) \/ EditSaves(c)

AccountsNext ==
    \/ \E v \in Visitors, n \in Names, p \in Passwords \cup {None} :
          (p # None <=> v \in Logins) /\ (VisitCached(v, n, p) \/ VisitFetches(v, n, p))
    \/ \E v \in Visitors : VisitStep(v) \/ StampFails(v)
    \/ \E n \in Names : Expire(n)
    \/ \E c \in Clerks, n \in Names, plan \in Plans \cup {<<"create">>} : Ask(c, n, plan)
    \/ \E c \in Clerks : PatchStep(c) \/ EditFails(c)
    \/ \E t \in Techs : RosterChecks(t)
    \/ RosterDrops
    \/ AccountsCrash

\* Awaited calls are answered, and the clock goes on.
AccountsFairness ==
    /\ \A v \in Visitors : WF_<<accountsVars, spent>>(VisitStep(v))
    /\ \A c \in Clerks : WF_<<accountsVars, spent>>(PatchStep(c))
    /\ \A n \in Names : WF_<<accountsVars, spent>>(Expire(n))
    /\ WF_<<accountsVars, spent>>(RosterDrops)

AccountsSpec ==
    AccountsInit /\ NothingSpent /\ [][AccountsNext]_<<accountsVars, spent>> /\ AccountsFairness

----------------------------------------------------------------------------
(* Properties *)

FieldsOf(op) ==
    CASE op \in {"disable", "enable"}    -> {"disabled"}
      [] op \in {"toCompany", "toTech"}  -> {"role", "types", "tech"}
      [] op = "setTypes"                 -> {"types"}
      [] op = "setTech"                  -> {"tech"}
      [] op = "reset"                    -> {"password"}
      [] op = "create"                   -> {}

Differ(old, new) == {f \in DOMAIN old : old[f] # new[f]}

\* A stored account changes by a clerk's edit, in the fields of that edit, and
\* by nothing else: no login brings back a password that was reset or lifts a
\* ban, no edit undoes another, no creation replaces an account that is there.
\* The exception is an edit that met an older answer somebody still held.
AccountsChangeByIntent ==
    [][\A n \in Names \ tangled' :
          accounts[n] # None /\ accounts'[n] # accounts[n]
          => \E c \in Clerks :
                /\ patches[c].name = n /\ patches[c].reading /\ patches'[c] # patches[c]
                /\ \/ accounts'[n] = None /\ Head(patches[c].plan) = "remove"
                   \/ /\ accounts'[n] # None
                      /\ Differ(accounts[n], accounts'[n]) \subseteq FieldsOf(Head(patches[c].plan))
      ]_<<accountsVars, spent>>

\* A 시공기사 sees no 시공종류, and a 업체 관리자 is linked to no technician.
ScopesFitRoles ==
    \A n \in Names : accounts[n] # None =>
        /\ accounts[n].role = "TECH" => accounts[n].types = {}
        /\ accounts[n].role = "COMPANY" => accounts[n].tech = None

\* An account is never linked to a technician the roster no longer has, unless
\* a save linked it when the technician was gone or being removed.
LinkedTechniciansExist ==
    \A n \in Names : accounts[n] # None /\ accounts[n].tech # None
        => accounts[n].tech \in roster \cup tangled \/ n \in tangled

\* However edits, logins, removals from the roster and crashes interleave, what
\* an account may see fits its role, and the technician it belongs to exists.
AccountsFitTheirRoles == ScopesFitRoles /\ LinkedTechniciansExist

Admits(n) == Admitted(IF cache[n].known THEN cache[n].user ELSE accounts[n], None)

\* Whatever the cache held when an account was disabled or removed, requests of
\* its sessions are turned away in the end.
RevokedLoseAccess == \A n \in Names : <>[](~Admitted(accounts[n], None) => ~Admits(n))
=============================================================================
