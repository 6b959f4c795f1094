---------------------------- MODULE Accounts_proofs ----------------------------
(***************************************************************************)
(* Theorems about the two kinds of accounts: those the server acts with    *)
(* (LinkedAccounts) and those of its users (AdminAccounts), and about the  *)
(* technicians' roster (Roster).  They hold for any number of services,    *)
(* managers, names, people, companies and requests, and for any budget of  *)
(* rare events.                                                            *)
(***************************************************************************)
EXTENDS AdminAccounts, LinkedAccounts, Roster, TLAPS, FiniteSetTheorems

----------------------------------------------------------------------------
(* The accounts the server acts with: definitions *)

Saving(a, s) == work[a].stage = "saving" /\ work[a].service = s

\* Who awaits something works on a service; a refresh works on its own.
WorkFits ==
    /\ \A a \in Actors : IF work[a].stage = "idle" THEN work[a] = IdleWork
                                                 ELSE work[a].service \in Services
    /\ \A s \in Services : work[s].service \in {s, None}

\* A service whose account nobody changed behind somebody's back: the token and
\* the fetch under way are of its account, one actor at most writes it, and
\* what is being written, or was written last, is what memory holds.
Settled(s) ==
    /\ token[s] # None => token[s] = account[s]
    /\ work[s].stage = "asking" => work[s].grant = account[s]
    /\ \A a \in Actors : Saving(a, s) => work[a].grant = account[s]
    /\ \A a, b \in Actors : Saving(a, s) /\ Saving(b, s) => a = b
    /\ (\A a \in Actors : ~Saving(a, s)) => stored[s] = account[s]

\* The inductive invariant: LinkedAccountsAgree says nothing of fetches and
\* writes under way, on which the next answer depends.
LinkedInv == LinkedTypeOK /\ WorkFits /\ \A s \in Services \ doubtful : Settled(s)

LEMMA SettledAgree == LinkedInv => LinkedAccountsAgree
BY DEF LinkedInv, Settled, Saving, LinkedAccountsAgree, TokensFitAccounts, RestartsKeepAccounts

----------------------------------------------------------------------------
(* The accounts the server acts with: types *)

LEMMA LinkedInvInit == LinkedInit => LinkedInv
<1> SUFFICES ASSUME LinkedInit PROVE LinkedInv
  OBVIOUS
<1>1. \A a \in Actors : work[a] = IdleWork
  BY DEF LinkedInit
<1>2. LinkedTypeOK
  BY DEF LinkedInit, LinkedTypeOK, Work, IdleWork
<1>3. Services \subseteq Actors
  BY DEF Actors
<1>4. WorkFits
  BY <1>1, <1>3 DEF WorkFits, IdleWork
<1>5. \A s \in Services : Settled(s)
  BY <1>1, <1>3 DEF LinkedInit, Settled, Saving, IdleWork
<1> QED BY <1>2, <1>4, <1>5 DEF LinkedInv

\* Whose call fails is idle; of the others one may ask for a token now.
LEMMA UnansweredSays ==
    ASSUME LinkedTypeOK, WorkFits, NEW a \in Actors, work' = Unanswered(a)
    PROVE  /\ work' \in [Actors -> Work] /\ WorkFits' /\ work'[a] = IdleWork
           /\ \A b \in Actors \ {a} : \/ work'[b] = work[b]
                                      \/ b \in Services /\ work[b] = IdleWork /\ work'[b] = AskingFor(b)
<1> DEFINE On == /\ a = "key" /\ "google" \in Services
                 /\ account["google"] # None /\ token["google"] = None /\ work["google"].stage = "idle"
<1>1. Services \subseteq Actors /\ None \notin Services
  BY LinkedAccountsAssumption DEF Actors
<1>2. IdleWork \in Work /\ IdleWork.stage = "idle" /\ IdleWork.service = None
  BY DEF IdleWork, Work
<1>3. CASE ~On
  <2>1. work' = [work EXCEPT ![a] = IdleWork]
    BY <1>3 DEF Unanswered
  <2> QED BY <1>1, <1>2, <2>1 DEF LinkedTypeOK, WorkFits
<1>4. CASE On
  <2>1. work' = [work EXCEPT ![a] = IdleWork, !["google"] = AskingFor("google")]
    BY <1>4 DEF Unanswered
  <2>2. AskingFor("google") \in Work /\ AskingFor("google").stage = "asking" /\ AskingFor("google").service = "google"
    BY <1>4 DEF AskingFor, Work, LinkedTypeOK
  <2>3. /\ work' \in [Actors -> Work] /\ work'[a] = IdleWork /\ work'["google"] = AskingFor("google")
        /\ \A b \in Actors : b # a /\ b # "google" => work'[b] = work[b]
    BY <1>1, <1>2, <1>4, <2>1, <2>2 DEF LinkedTypeOK
  <2>4. work["google"] = IdleWork
    BY <1>1, <1>4 DEF WorkFits
  <2>5. WorkFits'
    BY <1>1, <1>2, <1>4, <2>2, <2>3 DEF WorkFits
  <2> QED BY <1>4, <2>3, <2>4, <2>5
<1> QED BY <1>3, <1>4

LEMMA LinkedTypeStep ==
    LinkedTypeOK /\ WorkFits /\ [LinkedNext]_<<linkedVars, spent>> => LinkedTypeOK' /\ WorkFits'
<1> SUFFICES ASSUME LinkedTypeOK, WorkFits, [LinkedNext]_<<linkedVars, spent>>
             PROVE  LinkedTypeOK' /\ WorkFits'
  OBVIOUS
<1> USE DEF LinkedTypeOK, WorkFits
<1>0. Services \subseteq Actors /\ Admins \subseteq Actors /\ Admins \cap Services = {}
      /\ None \notin Services
  BY LinkedAccountsAssumption DEF Actors
<1>1. ASSUME NEW a \in Actors, NEW w \in Work, work' = [work EXCEPT ![a] = w],
             w = IdleWork \/ (w.stage # "idle" /\ w.service \in Services),
             a \in Services => w.service \in {a, None},
             account' \in [Services -> Grants \cup {None}],
             stored' \in [Services -> Grants \cup {None}],
             token' \in [Services -> Grants \cup {None}],
             revoked' \subseteq Grants, doubtful' \subseteq Services
      PROVE  LinkedTypeOK' /\ WorkFits'
  BY <1>0, <1>1 DEF IdleWork
<1>2. IdleWork \in Work /\ IdleWork.stage = "idle" /\ IdleWork.service = None
  BY DEF IdleWork, Work
<1>3. ASSUME NEW a \in Actors, NEW s \in Services, NEW g \in Grants \cup {None},
             Adopt(a, s, g), a \in Services => a = s,
             token' \in [Services -> Grants \cup {None}],
             UNCHANGED <<stored, revoked>>
      PROVE  LinkedTypeOK' /\ WorkFits'
  <2>1. account' \in [Services -> Grants \cup {None}] /\ doubtful' \subseteq Services
    BY <1>3 DEF Adopt, Doubt
  <2>2. [stage |-> "saving", service |-> s, grant |-> g] \in Work
    BY DEF Work
  <2> QED BY <1>1, <1>3, <2>1, <2>2 DEF Adopt
<1>4. ASSUME NEW a \in Admins, NEW s \in Services, NEW g \in Grants, SignInAsks(a, s, g)
      PROVE  LinkedTypeOK' /\ WorkFits'
  <2>1. [stage |-> "asking", service |-> s, grant |-> g] \in Work
    BY DEF Work
  <2> QED BY <1>0, <1>1, <1>4, <2>1 DEF SignInAsks
<1>5. ASSUME NEW a \in Admins, NEW s \in Services, SignOut(a, s) PROVE LinkedTypeOK' /\ WorkFits'
  BY <1>0, <1>3, <1>5 DEF SignOut
<1>6. ASSUME NEW a \in Admins, SignInAnswered(a) PROVE LinkedTypeOK' /\ WorkFits'
  <2>1. work[a] \in Work /\ work[a].service \in Services
    BY <1>0, <1>6 DEF SignInAnswered
  <2>2. work[a].grant \in Grants \cup {None}
    BY <2>1 DEF Work
  <2>3. token' \in [Services -> Grants \cup {None}]
    BY <1>6, <2>1, <2>2 DEF SignInAnswered, FirstToken
  <2> QED BY <1>0, <1>3, <1>6, <2>1, <2>2, <2>3 DEF SignInAnswered
<1>7. ASSUME NEW a \in Actors, SaveLands(a) PROVE LinkedTypeOK' /\ WorkFits'
  <2>1. work[a].grant \in Grants \cup {None} /\ work[a].service \in Services
    BY <1>7 DEF SaveLands, Work
  <2>2. stored' \in [Services -> Grants \cup {None}]
    BY <1>7, <2>1 DEF SaveLands, Saved
  <2> QED BY <1>1, <1>2, <1>7, <2>2 DEF SaveLands
<1>8. ASSUME NEW a \in Actors, CallFails(a) PROVE LinkedTypeOK' /\ WorkFits'
  <2>1. doubtful' \subseteq Services
    BY <1>8 DEF CallFails
  <2> QED BY <1>8, <2>1, UnansweredSays DEF CallFails
<1>9. ASSUME NEW s \in Services, RefreshAsks(s) PROVE LinkedTypeOK' /\ WorkFits'
  <2>1. AskingFor(s) \in Work /\ AskingFor(s).stage = "asking" /\ AskingFor(s).service = s
    BY DEF AskingFor, Work
  <2> QED BY <1>0, <1>1, <1>9, <2>1 DEF RefreshAsks
<1>10. ASSUME NEW s \in Services, RefreshAnswered(s) PROVE LinkedTypeOK' /\ WorkFits'
  <2>1. work[s].grant \in Grants \cup {None}
    BY <1>0 DEF Work
  <2>2. token' \in [Services -> Grants \cup {None}] /\ UNCHANGED <<stored, revoked>>
    BY <1>10, <2>1 DEF RefreshAnswered
  <2>3. CASE Adopt(s, s, work[s].grant)
    BY <1>0, <1>3, <2>1, <2>2, <2>3
  <2>4. CASE work' = [work EXCEPT ![s] = IdleWork] /\ UNCHANGED <<account, doubtful>>
    BY <1>0, <1>1, <1>2, <2>2, <2>4
  <2> QED BY <1>10, <2>3, <2>4 DEF RefreshAnswered
<1>11. ASSUME NEW s \in Services, RefreshRefused(s) PROVE LinkedTypeOK' /\ WorkFits'
  <2>1. CASE Adopt(s, s, None) /\ token' = [token EXCEPT ![s] = None]
    BY <1>0, <1>3, <1>11, <2>1 DEF RefreshRefused
  <2>2. CASE work' = Unanswered(s) /\ UNCHANGED <<account, token, doubtful>>
    BY <1>0, <1>11, <2>2, UnansweredSays DEF RefreshRefused
  <2> QED BY <1>11, <2>1, <2>2 DEF RefreshRefused
<1>12. ASSUME NEW s \in Services, TokenExpires(s) PROVE LinkedTypeOK' /\ WorkFits'
  BY <1>12 DEF TokenExpires
<1>13. ASSUME NEW g \in Grants, Revoke(g) PROVE LinkedTypeOK' /\ WorkFits'
  BY <1>13 DEF Revoke
<1>14. ASSUME LinkedCrash PROVE LinkedTypeOK' /\ WorkFits'
  BY <1>0, <1>2, <1>14 DEF LinkedCrash
<1>15. ASSUME UNCHANGED <<linkedVars, spent>> PROVE LinkedTypeOK' /\ WorkFits'
  BY <1>15 DEF linkedVars
<1> QED BY <1>4, <1>5, <1>6, <1>7, <1>8, <1>9, <1>10, <1>11, <1>12, <1>13, <1>14, <1>15
        DEF LinkedNext, RefreshEnds

----------------------------------------------------------------------------
(* The accounts the server acts with: what is settled stays settled *)

\* A service that a step does not concern.
LEMMA SettledStays ==
    ASSUME NEW s \in Services, Settled(s), Services \subseteq Actors,
           account'[s] = account[s], token'[s] \in {token[s], None}, stored'[s] = stored[s],
           \A a \in Actors : Saving(a, s)' <=> Saving(a, s),
           \A a \in Actors : Saving(a, s) => work'[a].grant = work[a].grant,
           work'[s].stage = "asking" => work'[s].grant = account[s]
    PROVE  Settled(s)'
BY DEF Settled

\* A step of actor a on service s, seen from another service.
LEMMA OtherServicesStay ==
    ASSUME LinkedTypeOK, WorkFits, WorkFits', NEW a \in Actors, NEW s \in Services,
           NEW r \in Services \ {s}, Settled(r),
           \A b \in Actors \ {a} : work'[b] = work[b],
           work[a].service \in {s, None}, work'[a].service \in {s, None},
           account'[r] = account[r], token'[r] = token[r], stored'[r] = stored[r]
    PROVE  Settled(r)'
<1>1. Services \subseteq Actors /\ None \notin Services
  BY LinkedAccountsAssumption DEF Actors
<1>2. ~Saving(a, r) /\ ~Saving(a, r)' /\ \A b \in Actors \ {a} : Saving(b, r)' <=> Saving(b, r)
  BY <1>1 DEF Saving
<1>3. work'[r].stage = "asking" => work'[r].grant = account[r]
  <2>1. CASE a = r
    BY <1>1, <2>1 DEF WorkFits
  <2>2. CASE a # r
    BY <1>1, <2>2 DEF Settled
  <2> QED BY <2>1, <2>2
<1> QED BY <1>1, <1>2, <1>3, SettledStays

\* Actor a makes g the account of s while nobody else writes or fetches it.
LEMMA AdoptSettles ==
    ASSUME LinkedTypeOK, WorkFits, NEW a \in Actors, NEW s \in Services, NEW g,
           Adopt(a, s, g), token'[s] \in {g, None}, s \notin doubtful'
    PROVE  Settled(s)' /\ s \notin doubtful
<1>1. Services \subseteq Actors
  BY DEF Actors
<1>2. /\ s \notin doubtful
      /\ \A b \in Actors \ {a} : ~(work[b].service = s /\ (work[b].stage = "saving" \/ b \in Services))
  BY DEF Adopt, Doubt
<1>3. /\ work'[a] = [stage |-> "saving", service |-> s, grant |-> g] /\ account'[s] = g
      /\ \A b \in Actors \ {a} : work'[b] = work[b]
  BY DEF Adopt, LinkedTypeOK
<1>4. Saving(a, s)' /\ \A b \in Actors \ {a} : ~Saving(b, s)'
  BY <1>2, <1>3 DEF Saving
<1>5. work'[s].stage # "asking"
  <2>1. CASE s = a
    BY <1>3, <2>1
  <2>2. CASE s # a
    <3>1. work'[s] = work[s] /\ work[s].service # s
      BY <1>1, <1>2, <1>3, <2>2
    <3>2. work[s].stage = "idle"
      BY <1>1, <3>1, LinkedAccountsAssumption DEF WorkFits
    <3> QED BY <3>1, <3>2
  <2> QED BY <2>1, <2>2
<1> QED BY <1>2, <1>3, <1>4, <1>5 DEF Settled

LEMMA SettledStep ==
    LinkedInv /\ [LinkedNext]_<<linkedVars, spent>> => \A s \in Services \ doubtful' : Settled(s)'
<1> SUFFICES ASSUME LinkedInv, [LinkedNext]_<<linkedVars, spent>>,
                    NEW r \in Services, r \notin doubtful'
             PROVE  Settled(r)'
  OBVIOUS
<1>0. /\ LinkedTypeOK /\ WorkFits /\ WorkFits' /\ Services \subseteq Actors /\ Admins \subseteq Actors
      /\ None \notin Services
      /\ r \notin doubtful => Settled(r)
  BY LinkedTypeStep, LinkedAccountsAssumption DEF LinkedInv, Actors
<1>1. ASSUME NEW a \in Actors, NEW s \in Services, NEW g, Adopt(a, s, g),
             work[a].service \in {s, None}, UNCHANGED stored,
             token' = [token EXCEPT ![s] = g] \/ token' = [token EXCEPT ![s] = None]
      PROVE  Settled(r)'
  <2>1. CASE r = s
    <3>1. token'[s] \in {g, None}
      BY <1>0, <1>1 DEF LinkedTypeOK
    <3> QED BY <1>0, <1>1, <2>1, <3>1, AdoptSettles
  <2>2. CASE r # s
    <3>1. /\ account'[r] = account[r] /\ token'[r] = token[r] /\ stored'[r] = stored[r]
          /\ work'[a].service \in {s, None} /\ \A b \in Actors \ {a} : work'[b] = work[b]
      BY <1>0, <1>1, <2>2 DEF Adopt, LinkedTypeOK
    <3>2. r \notin doubtful
      BY <1>1 DEF Adopt, Doubt
    <3> QED BY <1>0, <1>1, <2>2, <3>1, <3>2, OtherServicesStay
  <2> QED BY <2>1, <2>2
<1>2. ASSUME NEW a \in Admins, NEW s \in Services, NEW g \in Grants, SignInAsks(a, s, g)
      PROVE  Settled(r)'
  <2>1. /\ UNCHANGED <<account, stored, token, doubtful>> /\ work[a].stage = "idle"
        /\ work' = [work EXCEPT ![a] = [stage |-> "asking", service |-> s, grant |-> g]]
    BY <1>2 DEF SignInAsks
  <2>2. a # r /\ \A b \in Actors : Saving(b, r)' <=> Saving(b, r)
    BY <1>0, <2>1, LinkedAccountsAssumption DEF Saving, LinkedTypeOK
  <2>3. \A b \in Actors : Saving(b, r) => work'[b].grant = work[b].grant
    BY <1>0, <2>1 DEF Saving, LinkedTypeOK
  <2>4. work'[r] = work[r]
    BY <1>0, <2>1, <2>2 DEF LinkedTypeOK
  <2>5. Settled(r)
    BY <1>0, <2>1
  <2>6. work'[r].stage = "asking" => work'[r].grant = account[r]
    BY <2>4, <2>5 DEF Settled
  <2> QED BY <1>0, <2>1, <2>2, <2>3, <2>5, <2>6, SettledStays
<1>3. ASSUME NEW a \in Admins, NEW s \in Services, SignOut(a, s) PROVE Settled(r)'
  <2>1. work[a].service \in {s, None}
    <3>1. work[a] = IdleWork
      BY <1>0, <1>3 DEF SignOut, WorkFits
    <3> QED BY <3>1 DEF IdleWork
  <2> QED BY <1>0, <1>1, <1>3, <2>1 DEF SignOut
<1>4. ASSUME NEW a \in Admins, SignInAnswered(a) PROVE Settled(r)'
  <2>1. work[a].service \in Services
    BY <1>0, <1>4 DEF SignInAnswered, WorkFits
  <2> QED BY <1>0, <1>1, <1>4, <2>1 DEF SignInAnswered, FirstToken
<1>5. ASSUME NEW a \in Actors, SaveLands(a) PROVE Settled(r)'
  <2> DEFINE s == work[a].service
  <2>1. /\ Saving(a, s) /\ s \in Services /\ work'[a] = IdleWork /\ stored'[s] = work[a].grant
        /\ \A b \in Actors \ {a} : work'[b] = work[b]
        /\ \A q \in Services \ {s} : stored'[q] = stored[q]
        /\ UNCHANGED <<account, token, doubtful>>
    BY <1>0, <1>5 DEF SaveLands, Saving, Saved, LinkedTypeOK, WorkFits, IdleWork
  <2>2. Settled(r) /\ work'[a].service = None
    BY <1>0, <2>1 DEF IdleWork
  <2>3. CASE r = s
    <3>1. work[a].grant = account[r] /\ \A b \in Actors \ {a} : ~Saving(b, r)
      BY <2>1, <2>2, <2>3 DEF Settled
    <3>2. \A b \in Actors : ~Saving(b, r)'
      BY <2>1, <3>1 DEF Saving, IdleWork
    <3>3. work'[r].stage = "asking" => work'[r].grant = account[r]
      BY <1>0, <2>1, <2>2 DEF Settled, IdleWork
    <3> QED BY <2>1, <2>2, <2>3, <3>1, <3>2, <3>3 DEF Settled
  <2>4. CASE r # s
    BY <1>0, <2>1, <2>2, <2>4, OtherServicesStay
  <2> QED BY <2>3, <2>4
<1>6. ASSUME NEW a \in Actors, ~Saving(a, r), work' = Unanswered(a), UNCHANGED <<account, stored, token>>,
             r \notin doubtful
      PROVE  Settled(r)'
  <2>1. /\ work'[a] = IdleWork
        /\ \A b \in Actors \ {a} : \/ work'[b] = work[b]
                                   \/ b \in Services /\ work[b] = IdleWork /\ work'[b] = AskingFor(b)
    BY <1>0, <1>6, UnansweredSays
  <2>2. \A b \in Actors : /\ Saving(b, r)' <=> Saving(b, r)
                          /\ Saving(b, r) => work'[b].grant = work[b].grant
    <3>1. ASSUME NEW b \in Actors PROVE (Saving(b, r)' <=> Saving(b, r)) /\ (Saving(b, r) => work'[b] = work[b])
      <4>1. CASE b = a
        BY <1>6, <2>1, <4>1 DEF Saving, IdleWork
      <4>2. CASE b # a /\ work'[b] = work[b]
        BY <4>2 DEF Saving
      <4>3. CASE work[b] = IdleWork /\ work'[b] = AskingFor(b)
        BY <4>3 DEF Saving, IdleWork, AskingFor
      <4> QED BY <2>1, <4>1, <4>2, <4>3
    <3> QED BY <3>1
  <2>3. Settled(r)
    BY <1>0, <1>6
  <2>4. work'[r].stage = "asking" => work'[r].grant = account[r]
    <3>1. CASE r = a
      BY <2>1, <3>1 DEF IdleWork
    <3>2. CASE r # a /\ work'[r] = work[r]
      BY <2>3, <3>2 DEF Settled
    <3>3. CASE work'[r] = AskingFor(r)
      BY <3>3 DEF AskingFor
    <3> QED BY <1>0, <2>1, <3>1, <3>2, <3>3
  <2> QED BY <1>0, <1>6, <2>2, <2>3, <2>4, SettledStays
<1>14. ASSUME NEW a \in Actors, CallFails(a) PROVE Settled(r)'
  <2>1. ~Saving(a, r) /\ r \notin doubtful
    BY <1>0, <1>14 DEF CallFails, Saving
  <2> QED BY <1>6, <1>14, <2>1 DEF CallFails
<1>7. ASSUME NEW s \in Services, RefreshAsks(s) PROVE Settled(r)'
  <2>1. /\ work[s] = IdleWork /\ UNCHANGED <<account, stored, token, doubtful>>
        /\ work'[s] = [stage |-> "asking", service |-> s, grant |-> account[s]]
        /\ \A b \in Actors \ {s} : work'[b] = work[b]
    BY <1>0, <1>7 DEF RefreshAsks, AskingFor, LinkedTypeOK, WorkFits
  <2>2. \A b \in Actors : /\ Saving(b, r)' <=> Saving(b, r)
                          /\ Saving(b, r) => work'[b].grant = work[b].grant
    BY <2>1 DEF Saving, IdleWork
  <2>3. Settled(r)
    BY <1>0, <2>1
  <2>4. work'[r].stage = "asking" => work'[r].grant = account[r]
    BY <1>0, <2>1, <2>3 DEF Settled
  <2> QED BY <1>0, <2>1, <2>2, <2>3, <2>4, SettledStays
<1>8. ASSUME NEW s \in Services, RefreshAnswered(s) PROVE Settled(r)'
  <2>1. /\ work[s].stage = "asking" /\ work[s].service = s /\ UNCHANGED stored
        /\ token' = [token EXCEPT ![s] = work[s].grant]
    BY <1>0, <1>8 DEF RefreshAnswered, WorkFits, IdleWork
  <2>2. CASE Adopt(s, s, work[s].grant)
    BY <1>0, <1>1, <2>1, <2>2
  <2>3. CASE work' = [work EXCEPT ![s] = IdleWork] /\ UNCHANGED <<account, doubtful>>
    <3>1. Settled(r)
      BY <1>0, <2>3
    <3>2. /\ work'[s] = IdleWork /\ token'[s] = work[s].grant
          /\ \A b \in Actors \ {s} : work'[b] = work[b]
          /\ \A q \in Services \ {s} : token'[q] = token[q]
      BY <1>0, <2>1, <2>3 DEF LinkedTypeOK
    <3>3. CASE r = s
      <4>1. token'[r] = account'[r] /\ work'[r].stage # "asking"
        BY <2>1, <2>3, <3>1, <3>2, <3>3 DEF Settled, IdleWork
      <4>2. \A b \in Actors : Saving(b, r)' <=> Saving(b, r)
        BY <2>1, <3>2, <3>3 DEF Saving, IdleWork
      <4>3. \A b \in Actors : Saving(b, r) => work'[b].grant = work[b].grant
        BY <2>1, <3>2, <3>3 DEF Saving
      <4> QED BY <1>0, <2>1, <2>3, <3>1, <4>1, <4>2, <4>3 DEF Settled
    <3>4. CASE r # s
      BY <1>0, <2>1, <2>3, <3>1, <3>2, <3>4, OtherServicesStay DEF IdleWork
    <3> QED BY <3>3, <3>4
  <2> QED BY <1>8, <2>2, <2>3 DEF RefreshAnswered
<1>9. ASSUME NEW s \in Services, RefreshRefused(s) PROVE Settled(r)'
  <2>1. work[s].stage = "asking" /\ work[s].service = s /\ UNCHANGED stored
    BY <1>0, <1>9 DEF RefreshRefused, WorkFits, IdleWork
  <2>2. CASE Adopt(s, s, None) /\ token' = [token EXCEPT ![s] = None]
    BY <1>0, <1>1, <2>1, <2>2
  <2>3. CASE work' = Unanswered(s) /\ UNCHANGED <<account, token, doubtful>>
    BY <1>0, <1>6, <2>1, <2>3 DEF Saving
  <2> QED BY <1>9, <2>2, <2>3 DEF RefreshRefused
<1>10. ASSUME NEW s \in Services, TokenExpires(s) PROVE Settled(r)'
  <2>1. Settled(r) /\ token'[r] \in {token[r], None} /\ UNCHANGED <<account, stored, work>>
    BY <1>0, <1>10 DEF TokenExpires, LinkedTypeOK
  <2> QED BY <1>0, <2>1, SettledStays DEF Settled, Saving
<1>11. ASSUME NEW g \in Grants, Revoke(g) PROVE Settled(r)'
  BY <1>0, <1>11 DEF Revoke, Settled, Saving
<1>12. ASSUME LinkedCrash PROVE Settled(r)'
  <2>1. /\ \A a \in Actors : work'[a] = IdleWork
        /\ token'[r] = None /\ account'[r] = stored'[r]
    BY <1>12 DEF LinkedCrash
  <2> QED BY <1>0, <2>1 DEF Settled, Saving, IdleWork
<1>13. ASSUME UNCHANGED <<linkedVars, spent>> PROVE Settled(r)'
  BY <1>0, <1>13 DEF linkedVars, Settled, Saving
<1> QED BY <1>2, <1>3, <1>4, <1>5, <1>14, <1>7, <1>8, <1>9, <1>10, <1>11, <1>12, <1>13
        DEF LinkedNext, RefreshEnds

LEMMA LinkedInvAlways == LinkedSpec => []LinkedInv
<1>1. LinkedInv /\ [LinkedNext]_<<linkedVars, spent>> => LinkedInv'
  BY LinkedTypeStep, SettledStep DEF LinkedInv
<1> QED BY <1>1, LinkedInvInit, PTL DEF LinkedSpec

\* Memory, the repository, the cached token and what every actor awaits stay of
\* their kinds.
THEOREM LinkedTypeCorrect == LinkedSpec => []LinkedTypeOK
<1>1. LinkedInv => LinkedTypeOK
  BY DEF LinkedInv
<1> QED BY <1>1, LinkedInvAlways, PTL

\* The account on the settings screen, the account of the cached token and the
\* account a restart finds are one, for any number of services, accounts and
\* managers, with refreshes, failed writes, refusals and restarts in any order,
\* except where an account changed while a write or a fetch was under way.
THEOREM LinkedAccountsAgreeAlways == LinkedSpec => []LinkedAccountsAgree
BY SettledAgree, LinkedInvAlways, PTL

----------------------------------------------------------------------------
(* The accounts of users: definitions *)

\* What AccountsFitTheirRoles asks of an account, of any copy of it.
Fits(user) ==
    user # None => /\ user.role = "TECH" => user.types = {}
                   /\ user.role = "COMPANY" => user.tech = None

\* A visit that is under way and an edit that has read have a name and a copy
\* of an account that fits; an edit has read what it may be done to.
HoldersFit ==
    /\ \A n \in Names : Fits(accounts[n]) /\ Fits(cache[n].user)
    /\ \A v \in Visitors : /\ visits[v].stage # "idle" => visits[v].name \in Names
                           /\ Fits(visits[v].copy)
    /\ \A c \in Clerks : /\ patches[c].plan # << >> => patches[c].name \in Names
                         /\ Fits(patches[c].copy)
                         /\ patches[c].reading
                            => patches[c].plan # << >> /\ Allowed(Head(patches[c].plan), patches[c].copy)

\* Whoever has an answer for name n has the one the store would give.
CopiesAgree(n) ==
    /\ cache[n].known => cache[n].user = accounts[n]
    /\ \A v \in Visitors : visits[v].name = n => visits[v].copy = accounts[n]
    /\ \A c \in Clerks : patches[c].name = n /\ patches[c].reading => patches[c].copy = accounts[n]

\* A technician about to be removed is linked to nobody, or was linked since.
LeavingUnlinked ==
    leaving # None =>
        \A n \in Names : accounts[n] # None /\ accounts[n].tech = leaving
            => leaving \in tangled \/ n \in tangled

\* The inductive invariant: a login stamps, and an edit writes back, the whole
\* account it holds, so the properties of the store rest on every copy.
AccountsInv ==
    /\ AccountsTypeOK /\ HoldersFit
    /\ \A n \in Names \ tangled : CopiesAgree(n)
    /\ LinkedTechniciansExist /\ LeavingUnlinked

LEMMA AccountsInvSays == AccountsInv => AccountsTypeOK /\ AccountsFitTheirRoles
BY DEF AccountsInv, HoldersFit, Fits, AccountsFitTheirRoles, ScopesFitRoles

----------------------------------------------------------------------------
(* The accounts of users: what edits and visits make *)

LEMMA NewcomersFit == \A user \in Newcomers : user \in Accounts /\ Fits(user)
<1>1. ASSUME NEW t \in Techs, NEW p \in Passwords, NEW user,
             user = [role |-> "TECH", types |-> {}, tech |-> t, password |-> p, disabled |-> FALSE]
      PROVE  user \in Accounts /\ Fits(user)
  BY <1>1 DEF Accounts, Fits
<1>2. ASSUME NEW ts \in SUBSET Types, NEW p \in Passwords, NEW user,
             user = [role |-> "COMPANY", types |-> ts, tech |-> None, password |-> p, disabled |-> FALSE]
      PROVE  user \in Accounts /\ Fits(user)
  BY <1>2 DEF Accounts, Fits
<1> QED BY <1>1, <1>2 DEF Newcomers

\* What an edit saves is an account that fits, differs in the fields of the
\* edit only, and is linked as before or to a technician asked for.
LEMMA EditedFits ==
    ASSUME NEW op \in Ops, NEW copy \in Accounts \cup {None}, NEW with \in Newcomers \cup {None},
           NEW user \in Edited(op, copy, with), Allowed(op, copy), Fits(copy), roster \subseteq Techs,
           (with = None) = (op # "create")
    PROVE  /\ user \in Accounts \cup {None} /\ Fits(user)
           /\ copy # None /\ user = None => op = "remove"
           /\ copy # None /\ user # None => Differ(copy, user) \subseteq FieldsOf(op)
<1>0. None \notin Accounts
  BY AdminAccountsAssumption
<1>1. CASE op = "create"
  <2>1. user = with /\ with \in Newcomers /\ copy = None
    BY <1>1 DEF Edited, Allowed
  <2> QED BY <2>1, NewcomersFit
<1>2. CASE op = "remove"
  <2>1. user = None
    BY <1>2 DEF Edited
  <2> QED BY <1>2, <2>1 DEF Fits
<1>3. CASE op \notin {"create", "remove"}
  <2>1. copy \in Accounts
    BY <1>3 DEF Allowed, Ops
  <2>2. CASE op = "disable"
    <3>1. user = [copy EXCEPT !.disabled = TRUE]
      BY <2>2 DEF Edited
    <3>2. user \in Accounts /\ Fits(user)
      <4>1. user \in Accounts
        BY <2>1, <3>1 DEF Accounts
      <4> QED BY <1>0, <2>1, <3>1, <4>1 DEF Fits, Accounts
    <3>3. Differ(copy, user) \subseteq {"disabled"}
      BY <2>1, <3>1 DEF Differ, Accounts
    <3> QED BY <1>0, <2>2, <3>2, <3>3 DEF FieldsOf
  <2>3. CASE op = "enable"
    <3>1. user = [copy EXCEPT !.disabled = FALSE]
      BY <2>3 DEF Edited
    <3>2. user \in Accounts /\ Fits(user)
      <4>1. user \in Accounts
        BY <2>1, <3>1 DEF Accounts
      <4> QED BY <1>0, <2>1, <3>1, <4>1 DEF Fits, Accounts
    <3>3. Differ(copy, user) \subseteq {"disabled"}
      BY <2>1, <3>1 DEF Differ, Accounts
    <3> QED BY <1>0, <2>3, <3>2, <3>3 DEF FieldsOf
  <2>4. CASE op = "toCompany"
    <3>1. user = [copy EXCEPT !.role = "COMPANY", !.tech = None]
      BY <2>4 DEF Edited
    <3>2. user \in Accounts /\ Fits(user)
      <4>1. user \in Accounts
        BY <2>1, <3>1 DEF Accounts
      <4> QED BY <1>0, <2>1, <3>1, <4>1 DEF Fits, Accounts
    <3>3. Differ(copy, user) \subseteq {"role", "tech"}
      BY <2>1, <3>1 DEF Differ, Accounts
    <3> QED BY <1>0, <2>4, <3>2, <3>3 DEF FieldsOf
  <2>5. CASE op = "toTech"
    <3>1. user = [copy EXCEPT !.role = "TECH", !.types = {}]
      BY <2>5 DEF Edited
    <3>2. user \in Accounts /\ Fits(user)
      <4>1. user \in Accounts
        BY <2>1, <3>1 DEF Accounts
      <4> QED BY <1>0, <2>1, <3>1, <4>1 DEF Fits, Accounts
    <3>3. Differ(copy, user) \subseteq {"role", "types"}
      BY <2>1, <3>1 DEF Differ, Accounts
    <3> QED BY <1>0, <2>5, <3>2, <3>3 DEF FieldsOf
  <2>6. CASE op = "setTypes"
    <3>1. PICK ts \in SUBSET Types \ {{}} : user = [copy EXCEPT !.types = ts]
      BY <2>6 DEF Edited
    <3>2. user \in Accounts /\ Fits(user)
      <4>1. user \in Accounts
        BY <2>1, <2>6, <3>1 DEF Accounts
      <4> QED BY <1>0, <2>1, <2>6, <3>1, <4>1 DEF Fits, Accounts, Allowed
    <3>3. Differ(copy, user) \subseteq {"types"}
      BY <2>1, <3>1 DEF Differ, Accounts
    <3> QED BY <1>0, <2>6, <3>2, <3>3 DEF FieldsOf
  <2>7. CASE op = "setTech"
    <3>1. PICK t \in Techs : user = [copy EXCEPT !.tech = t]
      BY <2>7 DEF Edited
    <3>2. user \in Accounts /\ Fits(user)
      <4>1. user \in Accounts
        BY <2>1, <2>7, <3>1 DEF Accounts
      <4> QED BY <1>0, <2>1, <2>7, <3>1, <4>1 DEF Fits, Accounts, Allowed
    <3>3. Differ(copy, user) \subseteq {"tech"}
      BY <2>1, <3>1 DEF Differ, Accounts
    <3> QED BY <1>0, <2>7, <3>2, <3>3 DEF FieldsOf
  <2>8. CASE op = "reset"
    <3>1. PICK p \in Passwords : user = [copy EXCEPT !.password = p]
      BY <2>8 DEF Edited
    <3>2. user \in Accounts /\ Fits(user)
      <4>1. user \in Accounts
        BY <2>1, <3>1 DEF Accounts
      <4> QED BY <1>0, <2>1, <3>1, <4>1 DEF Fits, Accounts
    <3>3. Differ(copy, user) \subseteq {"password"}
      BY <2>1, <3>1 DEF Differ, Accounts
    <3> QED BY <1>0, <2>8, <3>2, <3>3 DEF FieldsOf
  <2> QED BY <1>3, <2>2, <2>3, <2>4, <2>5, <2>6, <2>7, <2>8 DEF Ops
<1> QED BY <1>1, <1>2, <1>3

\* A visit that has its answer ends, or stamps what it was answered.
LEMMA AfterAnswer ==
    ASSUME AccountsTypeOK, NEW v \in Visitors, NEW n \in Names, NEW password,
           NEW user \in Accounts \cup {None}, After(v, n, password, user)
    PROVE  \E w \in Visit :
              /\ visits' = [visits EXCEPT ![v] = w]
              /\ w.stage # "idle" => w.name \in Names
              /\ w.copy \in {user, None}
              /\ \A m \in Names : w.name = m => m = n /\ w.copy = user
<1>1. None \notin Names /\ IdleVisit \in Visit
  BY AdminAccountsAssumption DEF IdleVisit, Visit
<1>2. CASE password # None /\ Admitted(user, password)
  <2> DEFINE w == [IdleVisit EXCEPT !.stage = "stamping", !.name = n, !.copy = user]
  <2>1. w \in Visit /\ w.name = n /\ w.copy = user
    BY DEF IdleVisit, Visit
  <2>2. visits' = [visits EXCEPT ![v] = w]
    BY <1>2 DEF After
  <2> QED BY <2>1, <2>2
<1>3. CASE ~(password # None /\ Admitted(user, password))
  <2>1. visits' = [visits EXCEPT ![v] = IdleVisit]
    BY <1>3 DEF After
  <2> QED BY <1>1, <2>1 DEF IdleVisit
<1> QED BY <1>2, <1>3

----------------------------------------------------------------------------
(* The accounts of users: types, and what every copy is like *)

LEMMA AccountsInvInit == AccountsInit => AccountsInv
<1> SUFFICES ASSUME AccountsInit PROVE AccountsInv
  OBVIOUS
<1>1. \A user \in Newcomers \cup {None} : user \in Accounts \cup {None} /\ Fits(user)
  BY NewcomersFit DEF Fits
<1>2. AccountsTypeOK
  <2>1. accounts \in [Names -> Accounts \cup {None}]
    BY <1>1 DEF AccountsInit
  <2>2. IdleVisit \in Visit /\ IdlePatch \in Patch
    BY DEF IdleVisit, Visit, IdlePatch, Patch
  <2>3. Uncached \in [known : BOOLEAN, user : Accounts \cup {None}]
    BY DEF Uncached
  <2> QED BY <2>1, <2>2, <2>3 DEF AccountsInit, AccountsTypeOK
<1>3. HoldersFit
  BY <1>1 DEF AccountsInit, HoldersFit, Fits, Uncached, IdleVisit, IdlePatch
<1>4. \A n \in Names : CopiesAgree(n)
  BY AdminAccountsAssumption DEF AccountsInit, CopiesAgree, Uncached, IdleVisit, IdlePatch
<1>5. LinkedTechniciansExist /\ LeavingUnlinked
  BY <1>2 DEF AccountsInit, LinkedTechniciansExist, LeavingUnlinked, AccountsTypeOK, Accounts
<1> QED BY <1>2, <1>3, <1>4, <1>5 DEF AccountsInv

\* What a save makes of the store: clerk c, with user for the account it read.
LEMMA SaveSays ==
    ASSUME AccountsTypeOK, HoldersFit, NEW c \in Clerks, EditSaves(c)
    PROVE  \E user \in Accounts \cup {None}, w \in Patch :
              LET n == patches[c].name  op == Head(patches[c].plan)  copy == patches[c].copy IN
              /\ n \in Names /\ patches[c].reading
              /\ Fits(user)
              /\ copy # None /\ user = None => op = "remove"
              /\ copy # None /\ user # None => Differ(copy, user) \subseteq FieldsOf(op)
              /\ accounts' = [accounts EXCEPT ![n] = user]
              /\ tangled' = tangled \cup Entangled(c, n, user)
              /\ cache' = [cache EXCEPT ![n] = Uncached]
              /\ patches' = [patches EXCEPT ![c] = w]
              /\ w.plan # << >> => w.name \in Names
              /\ ~w.reading /\ w.copy = None
              /\ UNCHANGED <<visits, roster, leaving>>
<1> DEFINE n == patches[c].name
           op == Head(patches[c].plan)
           copy == patches[c].copy
           w == IF Len(patches[c].plan) = 1 THEN IdlePatch
                ELSE [plan |-> Tail(patches[c].plan), name |-> n, reading |-> FALSE, copy |-> None]
<1>1. /\ patches[c] \in Patch /\ patches[c].plan # << >> /\ patches[c].reading
      /\ n \in Names /\ Fits(copy) /\ Allowed(op, copy)
  BY DEF EditSaves, HoldersFit, AccountsTypeOK
<1>2. patches[c].plan \in Seq(Ops) /\ copy \in Accounts \cup {None} /\ n \in Names \cup {None}
  BY <1>1 DEF Patch
<1>3. op \in Ops /\ Tail(patches[c].plan) \in Seq(Ops)
  BY <1>1, <1>2
<1>4. PICK with \in Newcomers \cup {None} :
         /\ (with = None) = (op # "create")
         /\ \E user \in Edited(op, copy, with) :
               /\ accounts' = [accounts EXCEPT ![n] = user]
               /\ tangled' = tangled \cup Entangled(c, n, user)
  BY DEF EditSaves
<1>5. PICK user \in Edited(op, copy, with) :
         /\ accounts' = [accounts EXCEPT ![n] = user]
         /\ tangled' = tangled \cup Entangled(c, n, user)
  BY <1>4
<1>6. /\ user \in Accounts \cup {None} /\ Fits(user)
      /\ copy # None /\ user = None => op = "remove"
      /\ copy # None /\ user # None => Differ(copy, user) \subseteq FieldsOf(op)
  BY <1>1, <1>2, <1>3, <1>4, EditedFits DEF AccountsTypeOK
<1>7. w \in Patch /\ (w.plan # << >> => w.name \in Names) /\ ~w.reading /\ w.copy = None
  <2>1. CASE Len(patches[c].plan) = 1
    BY <2>1 DEF IdlePatch, Patch
  <2>2. CASE Len(patches[c].plan) # 1
    BY <1>1, <1>2, <1>3, <2>2 DEF Patch
  <2> QED BY <2>1, <2>2
<1>8. /\ cache' = [cache EXCEPT ![n] = Uncached] /\ patches' = [patches EXCEPT ![c] = w]
      /\ UNCHANGED <<visits, roster, leaving>>
  BY DEF EditSaves, Invalidated
<1> HIDE DEF n, op, copy, w
<1>9. /\ n \in Names /\ patches[c].reading
      /\ n = patches[c].name /\ op = Head(patches[c].plan) /\ copy = patches[c].copy
  BY <1>1 DEF n, op, copy
<1> QED BY <1>5, <1>6, <1>7, <1>8, <1>9

LEMMA AccountsTypeStep ==
    AccountsTypeOK /\ HoldersFit /\ [AccountsNext]_<<accountsVars, spent>>
    => AccountsTypeOK' /\ HoldersFit'
<1> SUFFICES ASSUME AccountsTypeOK, HoldersFit, [AccountsNext]_<<accountsVars, spent>>
             PROVE  AccountsTypeOK' /\ HoldersFit'
  OBVIOUS
<1>0. /\ IdleVisit \in Visit /\ IdleVisit.stage = "idle" /\ IdleVisit.copy = None
      /\ IdlePatch \in Patch /\ IdlePatch.plan = << >> /\ ~IdlePatch.reading /\ IdlePatch.copy = None
      /\ Uncached \in [known : BOOLEAN, user : Accounts \cup {None}] /\ Uncached.user = None
      /\ Fits(None)
  BY DEF IdleVisit, Visit, IdlePatch, Patch, Uncached, Fits
<1>1. ASSUME NEW v \in Visitors, NEW w \in Visit, visits' = [visits EXCEPT ![v] = w],
             w.stage # "idle" => w.name \in Names, Fits(w.copy),
             UNCHANGED <<patches, roster, leaving, tangled>>
      PROVE  /\ visits' \in [Visitors -> Visit]
             /\ \A u \in Visitors : /\ visits'[u].stage # "idle" => visits'[u].name \in Names
                                    /\ Fits(visits'[u].copy)
  BY <1>1 DEF AccountsTypeOK, HoldersFit
<1>2. ASSUME NEW c \in Clerks, NEW w \in Patch, patches' = [patches EXCEPT ![c] = w],
             w.plan # << >> => w.name \in Names, Fits(w.copy),
             w.reading => w.plan # << >> /\ Allowed(Head(w.plan), w.copy)
      PROVE  /\ patches' \in [Clerks -> Patch]
             /\ \A d \in Clerks : /\ patches'[d].plan # << >> => patches'[d].name \in Names
                                  /\ Fits(patches'[d].copy)
                                  /\ patches'[d].reading
                                     => /\ patches'[d].plan # << >>
                                        /\ Allowed(Head(patches'[d].plan), patches'[d].copy)
  BY <1>2 DEF AccountsTypeOK, HoldersFit
<1>3. ASSUME NEW n, NEW user \in Accounts \cup {None}, Fits(user), NEW seen \in BOOLEAN,
             cache' = [cache EXCEPT ![n] = [known |-> seen, user |-> user]]
      PROVE  /\ cache' \in [Names -> [known : BOOLEAN, user : Accounts \cup {None}]]
             /\ \A m \in Names : Fits(cache'[m].user)
  BY <1>3 DEF AccountsTypeOK, HoldersFit
<1>4. ASSUME NEW n, NEW user \in Accounts \cup {None}, Fits(user),
             accounts' = [accounts EXCEPT ![n] = user]
      PROVE  /\ accounts' \in [Names -> Accounts \cup {None}]
             /\ \A m \in Names : Fits(accounts'[m])
  BY <1>4 DEF AccountsTypeOK, HoldersFit
<1>5. ASSUME NEW v \in Visitors, NEW n \in Names, NEW p \in Passwords \cup {None}, VisitCached(v, n, p)
      PROVE  AccountsTypeOK' /\ HoldersFit'
  <2>1. cache[n].user \in Accounts \cup {None} /\ Fits(cache[n].user)
    BY DEF AccountsTypeOK, HoldersFit
  <2>2. PICK w \in Visit : /\ visits' = [visits EXCEPT ![v] = w]
                           /\ w.stage # "idle" => w.name \in Names
                           /\ w.copy \in {cache[n].user, None}
    BY <1>5, <2>1, AfterAnswer DEF VisitCached
  <2>3. Fits(w.copy) /\ UNCHANGED <<accounts, cache, patches, roster, leaving, tangled>>
    BY <1>0, <1>5, <2>1, <2>2 DEF VisitCached
  <2> QED BY <1>1, <2>2, <2>3 DEF AccountsTypeOK, HoldersFit
<1>6. ASSUME NEW v \in Visitors, NEW n \in Names, NEW p \in Passwords \cup {None}, VisitFetches(v, n, p)
      PROVE  AccountsTypeOK' /\ HoldersFit'
  <2>1. accounts[n] \in Accounts \cup {None} /\ Fits(accounts[n])
    BY DEF AccountsTypeOK, HoldersFit
  <2>2. [stage |-> "fetching", name |-> n, password |-> p, copy |-> accounts[n]] \in Visit
    BY <2>1 DEF Visit
  <2>3. UNCHANGED <<accounts, cache, patches, roster, leaving, tangled>>
    BY <1>6 DEF VisitFetches
  <2> QED BY <1>1, <1>6, <2>1, <2>2, <2>3 DEF VisitFetches, AccountsTypeOK, HoldersFit
<1>7. ASSUME NEW v \in Visitors, VisitAnswered(v) PROVE AccountsTypeOK' /\ HoldersFit'
  <2> DEFINE u == visits[v]
  <2>1. u \in Visit /\ u.name \in Names /\ Fits(u.copy) /\ u.copy \in Accounts \cup {None}
    BY <1>7 DEF VisitAnswered, AccountsTypeOK, HoldersFit, Visit
  <2>2. PICK w \in Visit : /\ visits' = [visits EXCEPT ![v] = w]
                           /\ w.stage # "idle" => w.name \in Names
                           /\ w.copy \in {u.copy, None}
    BY <1>7, <2>1, AfterAnswer DEF VisitAnswered
  <2>3. Fits(w.copy) /\ UNCHANGED <<accounts, patches, roster, leaving, tangled>>
    BY <1>0, <1>7, <2>1, <2>2 DEF VisitAnswered
  <2>4. /\ cache' \in [Names -> [known : BOOLEAN, user : Accounts \cup {None}]]
        /\ \A m \in Names : Fits(cache'[m].user)
    BY <1>3, <1>7, <2>1 DEF VisitAnswered
  <2> QED BY <1>1, <2>2, <2>3, <2>4 DEF AccountsTypeOK, HoldersFit
<1>8. ASSUME NEW v \in Visitors, Stamp(v) PROVE AccountsTypeOK' /\ HoldersFit'
  <2> DEFINE u == visits[v]
  <2>1. u \in Visit /\ u.name \in Names /\ Fits(u.copy) /\ u.copy \in Accounts \cup {None}
    BY <1>8 DEF Stamp, AccountsTypeOK, HoldersFit, Visit
  <2>2. /\ accounts' \in [Names -> Accounts \cup {None}] /\ \A m \in Names : Fits(accounts'[m])
    BY <1>4, <1>8, <2>1 DEF Stamp
  <2>3. /\ cache' \in [Names -> [known : BOOLEAN, user : Accounts \cup {None}]]
        /\ \A m \in Names : Fits(cache'[m].user)
    BY <1>0, <1>3, <1>8 DEF Stamp, Uncached
  <2>4. visits' = [visits EXCEPT ![v] = IdleVisit] /\ UNCHANGED <<patches, roster, leaving, tangled>>
    BY <1>8 DEF Stamp
  <2> QED BY <1>0, <1>1, <2>2, <2>3, <2>4 DEF AccountsTypeOK, HoldersFit
<1>9. ASSUME NEW v \in Visitors, StampFails(v) PROVE AccountsTypeOK' /\ HoldersFit'
  <2>1. /\ visits' = [visits EXCEPT ![v] = IdleVisit]
        /\ UNCHANGED <<accounts, cache, patches, roster, leaving, tangled>>
    BY <1>9 DEF StampFails
  <2> QED BY <1>0, <1>1, <2>1 DEF AccountsTypeOK, HoldersFit
<1>10. ASSUME NEW n \in Names, Expire(n) PROVE AccountsTypeOK' /\ HoldersFit'
  <2>1. /\ cache' \in [Names -> [known : BOOLEAN, user : Accounts \cup {None}]]
        /\ \A m \in Names : Fits(cache'[m].user)
    BY <1>0, <1>3, <1>10 DEF Expire, Uncached
  <2>2. UNCHANGED <<accounts, visits, patches, roster, leaving, tangled>>
    BY <1>10 DEF Expire
  <2> QED BY <2>1, <2>2 DEF AccountsTypeOK, HoldersFit
<1>11. ASSUME NEW c \in Clerks, NEW n \in Names, NEW plan \in Plans \cup {<<"create">>}, Ask(c, n, plan)
       PROVE  AccountsTypeOK' /\ HoldersFit'
  <2>1. plan \in Seq(Ops)
    <3>1. Plans \subseteq Seq(Ops)
      BY AdminAccountsAssumption
    <3>2. <<"create">> \in Seq(Ops)
      BY DEF Ops
    <3> QED BY <3>1, <3>2
  <2> DEFINE w == [IdlePatch EXCEPT !.plan = plan, !.name = n]
  <2>2. w \in Patch /\ w.name \in Names /\ w.copy = None /\ ~w.reading
    BY <2>1 DEF IdlePatch, Patch
  <2>3. patches' = [patches EXCEPT ![c] = w] /\ UNCHANGED <<accounts, cache, visits, roster, leaving, tangled>>
    BY <1>11 DEF Ask
  <2> HIDE DEF w
  <2> QED BY <1>0, <1>2, <2>2, <2>3 DEF AccountsTypeOK, HoldersFit
<1>12. ASSUME NEW c \in Clerks, EditReads(c) PROVE AccountsTypeOK' /\ HoldersFit'
  <2>0. UNCHANGED <<accounts, cache, visits, roster, leaving, tangled>>
    BY <1>12 DEF EditReads
  <2>1. CASE /\ Allowed(Head(patches[c].plan), accounts[patches[c].name])
             /\ patches' = [patches EXCEPT ![c].reading = TRUE, ![c].copy = accounts[patches[c].name]]
    <3> DEFINE w == [patches[c] EXCEPT !.reading = TRUE, !.copy = accounts[patches[c].name]]
    <3>1. patches[c] \in Patch /\ patches[c].name \in Names /\ patches[c].plan # << >>
      BY <1>12 DEF EditReads, AccountsTypeOK, HoldersFit
    <3>2. /\ w \in Patch /\ w.plan = patches[c].plan /\ w.name \in Names
          /\ w.copy = accounts[patches[c].name] /\ patches' = [patches EXCEPT ![c] = w]
      BY <2>1, <3>1 DEF Patch, AccountsTypeOK
    <3>3. Fits(w.copy)
      BY <3>1, <3>2 DEF HoldersFit
    <3> HIDE DEF w
    <3> QED BY <1>2, <2>0, <2>1, <3>1, <3>2, <3>3 DEF AccountsTypeOK, HoldersFit
  <2>2. CASE Drop(c)
    BY <1>0, <1>2, <2>0, <2>2 DEF Drop, AccountsTypeOK, HoldersFit
  <2> QED BY <1>12, <2>1, <2>2 DEF EditReads
<1>13. ASSUME NEW c \in Clerks, EditSaves(c) PROVE AccountsTypeOK' /\ HoldersFit'
  <2>1. PICK user \in Accounts \cup {None}, w \in Patch :
              LET n == patches[c].name IN
              /\ Fits(user)
              /\ accounts' = [accounts EXCEPT ![n] = user]
              /\ tangled' = tangled \cup Entangled(c, n, user)
              /\ cache' = [cache EXCEPT ![n] = Uncached]
              /\ patches' = [patches EXCEPT ![c] = w]
              /\ w.plan # << >> => w.name \in Names
              /\ ~w.reading /\ w.copy = None
              /\ n \in Names
              /\ UNCHANGED <<visits, roster, leaving>>
    BY <1>13, SaveSays
  <2>2. tangled' \subseteq Names \cup Techs
    BY <2>1 DEF AccountsTypeOK, Entangled
  <2>3. /\ accounts' \in [Names -> Accounts \cup {None}] /\ \A m \in Names : Fits(accounts'[m])
    BY <1>4, <2>1
  <2>4. /\ cache' \in [Names -> [known : BOOLEAN, user : Accounts \cup {None}]]
        /\ \A m \in Names : Fits(cache'[m].user)
    BY <1>0, <1>3, <2>1 DEF Uncached
  <2>5. UNCHANGED <<visits, roster, leaving>>
    BY <2>1
  <2> QED BY <1>0, <1>2, <2>1, <2>2, <2>3, <2>4, <2>5 DEF AccountsTypeOK, HoldersFit
<1>14. ASSUME NEW c \in Clerks, EditFails(c) PROVE AccountsTypeOK' /\ HoldersFit'
  <2>1. /\ patches' = [patches EXCEPT ![c] = IdlePatch]
        /\ UNCHANGED <<accounts, cache, visits, roster, leaving, tangled>>
    BY <1>14 DEF EditFails, Drop
  <2> QED BY <1>0, <1>2, <2>1 DEF AccountsTypeOK, HoldersFit
<1>15. ASSUME NEW t \in Techs, RosterChecks(t) PROVE AccountsTypeOK' /\ HoldersFit'
  BY <1>15 DEF RosterChecks, AccountsTypeOK, HoldersFit
<1>16. ASSUME RosterDrops PROVE AccountsTypeOK' /\ HoldersFit'
  BY <1>16 DEF RosterDrops, AccountsTypeOK, HoldersFit
<1>17. ASSUME AccountsCrash PROVE AccountsTypeOK' /\ HoldersFit'
  BY <1>0, <1>17 DEF AccountsCrash, AccountsTypeOK, HoldersFit
<1>18. ASSUME UNCHANGED <<accountsVars, spent>> PROVE AccountsTypeOK' /\ HoldersFit'
  BY <1>18 DEF accountsVars, AccountsTypeOK, HoldersFit
<1> QED BY <1>5, <1>6, <1>7, <1>8, <1>9, <1>10, <1>11, <1>12, <1>13, <1>14, <1>15, <1>16, <1>17, <1>18
        DEF AccountsNext, VisitStep, PatchStep

----------------------------------------------------------------------------
(* The accounts of users: nobody is surprised *)

\* A save of which nobody else had an answer.
LEMMA SaveUntangled ==
    ASSUME NEW c \in Clerks, NEW n \in Names, NEW user, n \notin Entangled(c, n, user)
    PROVE  /\ \A v \in Visitors : visits[v].name # n
           /\ \A d \in Clerks \ {c} : ~(patches[d].name = n /\ patches[d].reading)
BY DEF Entangled

LEMMA CopiesAgreeStep ==
    ASSUME AccountsTypeOK, HoldersFit, [AccountsNext]_<<accountsVars, spent>>,
           NEW n \in Names, n \in tangled \/ CopiesAgree(n), n \notin tangled'
    PROVE  CopiesAgree(n)'
<1>0. None \notin Names /\ Uncached.known = FALSE /\ IdleVisit.name = None /\ ~IdlePatch.reading
  BY AdminAccountsAssumption DEF Uncached, IdleVisit, IdlePatch
<1>1. ASSUME CopiesAgree(n), accounts'[n] = accounts[n],
             cache'[n].known => cache'[n] = cache[n] \/ cache'[n].user = accounts[n],
             \A v \in Visitors : visits'[v].name = n
                => visits'[v] = visits[v] \/ visits'[v].copy = accounts[n],
             \A c \in Clerks : patches'[c].name = n /\ patches'[c].reading
                => patches'[c] = patches[c] \/ patches'[c].copy = accounts[n]
      PROVE  CopiesAgree(n)'
  <2>1. cache'[n].known => cache'[n].user = accounts[n]
    BY <1>1 DEF CopiesAgree
  <2>2. \A v \in Visitors : visits'[v].name = n => visits'[v].copy = accounts[n]
    BY <1>1 DEF CopiesAgree
  <2>3. \A c \in Clerks : patches'[c].name = n /\ patches'[c].reading => patches'[c].copy = accounts[n]
    BY <1>1 DEF CopiesAgree
  <2> QED BY <1>1, <2>1, <2>2, <2>3 DEF CopiesAgree
<1>2. ASSUME NEW v \in Visitors, NEW m \in Names, NEW p \in Passwords \cup {None}, VisitCached(v, m, p)
      PROVE  CopiesAgree(n)'
  <2>1. CopiesAgree(n) /\ cache[m].known /\ UNCHANGED <<accounts, cache, patches>>
    BY <1>2 DEF VisitCached
  <2>2. PICK w \in Visit : /\ visits' = [visits EXCEPT ![v] = w]
                           /\ \A k \in Names : w.name = k => k = m /\ w.copy = cache[m].user
    <3>1. cache[m].user \in Accounts \cup {None} /\ After(v, m, p, cache[m].user)
      BY <1>2 DEF VisitCached, AccountsTypeOK
    <3> QED BY <3>1, AfterAnswer
  <2>3. \A u \in Visitors : visits'[u].name = n => visits'[u] = visits[u] \/ visits'[u].copy = accounts[n]
    BY <2>1, <2>2 DEF AccountsTypeOK, CopiesAgree
  <2> QED BY <1>1, <2>1, <2>3
<1>3. ASSUME NEW v \in Visitors, NEW m \in Names, NEW p \in Passwords \cup {None}, VisitFetches(v, m, p)
      PROVE  CopiesAgree(n)'
  <2>1. CopiesAgree(n) /\ UNCHANGED <<accounts, cache, patches>>
    BY <1>3 DEF VisitFetches
  <2>2. \A u \in Visitors : visits'[u].name = n => visits'[u] = visits[u] \/ visits'[u].copy = accounts[n]
    BY <1>3 DEF VisitFetches, AccountsTypeOK
  <2> QED BY <1>1, <2>1, <2>2
<1>4. ASSUME NEW v \in Visitors, VisitAnswered(v) PROVE CopiesAgree(n)'
  <2>1. CopiesAgree(n) /\ UNCHANGED <<accounts, patches>>
    BY <1>4 DEF VisitAnswered
  <2>2. visits[v].name \in Names /\ visits[v].copy \in Accounts \cup {None}
    BY <1>4 DEF VisitAnswered, HoldersFit, AccountsTypeOK, Visit
  <2>3. PICK w \in Visit : /\ visits' = [visits EXCEPT ![v] = w]
                           /\ \A k \in Names : w.name = k
                                => k = visits[v].name /\ w.copy = visits[v].copy
    BY <1>4, <2>2, AfterAnswer DEF VisitAnswered
  <2>4. \A u \in Visitors : visits'[u].name = n => visits'[u] = visits[u] \/ visits'[u].copy = accounts[n]
    BY <2>1, <2>3 DEF AccountsTypeOK, CopiesAgree
  <2>5. cache'[n].known => cache'[n] = cache[n] \/ cache'[n].user = accounts[n]
    BY <1>4, <2>1 DEF VisitAnswered, AccountsTypeOK, CopiesAgree
  <2> QED BY <1>1, <2>1, <2>4, <2>5
<1>5. ASSUME NEW v \in Visitors, Stamp(v) PROVE CopiesAgree(n)'
  <2>1. CopiesAgree(n) /\ UNCHANGED patches
    BY <1>5 DEF Stamp
  <2>2. accounts'[n] = accounts[n]
    BY <1>5, <2>1 DEF Stamp, CopiesAgree, AccountsTypeOK
  <2>3. cache'[n].known => cache'[n] = cache[n]
    BY <1>0, <1>5 DEF Stamp, AccountsTypeOK
  <2>4. \A u \in Visitors : visits'[u].name = n => visits'[u] = visits[u]
    BY <1>0, <1>5 DEF Stamp, AccountsTypeOK
  <2> QED BY <1>1, <2>1, <2>2, <2>3, <2>4
<1>6. ASSUME NEW v \in Visitors, StampFails(v) PROVE CopiesAgree(n)'
  <2>1. CopiesAgree(n) /\ UNCHANGED <<accounts, cache, patches>>
    BY <1>6 DEF StampFails
  <2>2. \A u \in Visitors : visits'[u].name = n => visits'[u] = visits[u]
    BY <1>0, <1>6 DEF StampFails, AccountsTypeOK
  <2> QED BY <1>1, <2>1, <2>2
<1>7. ASSUME NEW m \in Names, Expire(m) PROVE CopiesAgree(n)'
  <2>1. CopiesAgree(n) /\ UNCHANGED <<accounts, visits, patches>>
    BY <1>7 DEF Expire
  <2>2. cache'[n].known => cache'[n] = cache[n]
    BY <1>0, <1>7 DEF Expire, AccountsTypeOK
  <2> QED BY <1>1, <2>1, <2>2
<1>8. ASSUME NEW c \in Clerks, NEW m \in Names, NEW plan, Ask(c, m, plan) PROVE CopiesAgree(n)'
  <2>1. CopiesAgree(n) /\ UNCHANGED <<accounts, cache, visits>>
    BY <1>8 DEF Ask
  <2>2. \A d \in Clerks : patches'[d].reading => patches'[d] = patches[d]
    BY <1>8 DEF Ask, AccountsTypeOK, IdlePatch
  <2> QED BY <1>1, <2>1, <2>2
<1>9. ASSUME NEW c \in Clerks, EditReads(c) PROVE CopiesAgree(n)'
  <2>1. CopiesAgree(n) /\ UNCHANGED <<accounts, cache, visits>>
    BY <1>9 DEF EditReads
  <2>2. CASE patches' = [patches EXCEPT ![c].reading = TRUE, ![c].copy = accounts[patches[c].name]]
    <3>1. \A d \in Clerks : patches'[d].name = n
             => patches'[d] = patches[d] \/ patches'[d].copy = accounts[n]
      BY <2>2 DEF AccountsTypeOK, Patch
    <3> QED BY <1>1, <2>1, <3>1
  <2>3. CASE Drop(c)
    <3>1. \A d \in Clerks : patches'[d].reading => patches'[d] = patches[d]
      BY <1>0, <2>3 DEF Drop, AccountsTypeOK
    <3> QED BY <1>1, <2>1, <3>1
  <2> QED BY <1>9, <2>2, <2>3 DEF EditReads
<1>10. ASSUME NEW c \in Clerks, EditSaves(c) PROVE CopiesAgree(n)'
  <2>1. PICK user \in Accounts \cup {None}, w \in Patch :
              LET m == patches[c].name IN
              /\ m \in Names
              /\ accounts' = [accounts EXCEPT ![m] = user]
              /\ tangled' = tangled \cup Entangled(c, m, user)
              /\ cache' = [cache EXCEPT ![m] = Uncached]
              /\ patches' = [patches EXCEPT ![c] = w]
              /\ ~w.reading
              /\ UNCHANGED <<visits, roster, leaving>>
    BY <1>10, SaveSays
  <2>2. \A d \in Clerks : patches'[d].reading => patches'[d] = patches[d] /\ d # c
    BY <2>1 DEF AccountsTypeOK
  <2>3. CASE patches[c].name = n
    <3>1. /\ \A v \in Visitors : visits[v].name # n
          /\ \A d \in Clerks \ {c} : ~(patches[d].name = n /\ patches[d].reading)
      BY <2>1, <2>3, SaveUntangled
    <3>2. ~cache'[n].known
      BY <1>0, <2>1, <2>3 DEF AccountsTypeOK
    <3> QED BY <2>1, <2>2, <3>1, <3>2 DEF CopiesAgree
  <2>4. CASE patches[c].name # n
    <3>1. CopiesAgree(n) /\ UNCHANGED visits
      BY <2>1
    <3>2. accounts'[n] = accounts[n] /\ cache'[n] = cache[n]
      BY <2>1, <2>4 DEF AccountsTypeOK
    <3> QED BY <1>1, <2>2, <3>1, <3>2
  <2> QED BY <2>3, <2>4
<1>11. ASSUME NEW c \in Clerks, EditFails(c) PROVE CopiesAgree(n)'
  <2>1. CopiesAgree(n) /\ UNCHANGED <<accounts, cache, visits>>
    BY <1>11 DEF EditFails
  <2>2. \A d \in Clerks : patches'[d].reading => patches'[d] = patches[d]
    BY <1>0, <1>11 DEF EditFails, Drop, AccountsTypeOK
  <2> QED BY <1>1, <2>1, <2>2
<1>12. ASSUME UNCHANGED <<accounts, cache, visits, patches, tangled>> PROVE CopiesAgree(n)'
  BY <1>12 DEF CopiesAgree
<1>13. ASSUME AccountsCrash PROVE CopiesAgree(n)'
  BY <1>0, <1>13 DEF AccountsCrash, CopiesAgree
<1> QED BY <1>2, <1>3, <1>4, <1>5, <1>6, <1>7, <1>8, <1>9, <1>10, <1>11, <1>12, <1>13
        DEF AccountsNext, VisitStep, PatchStep, RosterChecks, RosterDrops, accountsVars

\* A stored account changes by a save only, unless somebody's copy was older.
LEMMA OnlySavesChange ==
    ASSUME AccountsInv, [AccountsNext]_<<accountsVars, spent>>, NEW n \in Names,
           n \notin tangled, accounts'[n] # accounts[n]
    PROVE  \E c \in Clerks : EditSaves(c) /\ patches[c].name = n
<1>1. AccountsTypeOK /\ CopiesAgree(n)
  BY DEF AccountsInv
<1>2. ASSUME NEW v \in Visitors, Stamp(v) PROVE accounts'[n] = accounts[n]
  BY <1>1, <1>2 DEF Stamp, CopiesAgree, AccountsTypeOK
<1>3. ASSUME NEW c \in Clerks, EditSaves(c), patches[c].name # n PROVE accounts'[n] = accounts[n]
  BY <1>1, <1>3 DEF EditSaves, AccountsTypeOK
<1> QED BY <1>2, <1>3 DEF AccountsNext, VisitStep, PatchStep, VisitCached, VisitFetches, VisitAnswered,
           StampFails, Expire, Ask, EditReads, EditFails, RosterChecks, RosterDrops, AccountsCrash, accountsVars

\* Who is linked to a technician after a step was linked to it before, or made
\* a note of it if the technician is on the way out.
LEMMA LinksStep ==
    ASSUME AccountsInv, [AccountsNext]_<<accountsVars, spent>>
    PROVE  LinkedTechniciansExist' /\ LeavingUnlinked'
<1>0. AccountsTypeOK /\ AccountsTypeOK' /\ None \notin Techs
  BY AccountsTypeStep, AdminAccountsAssumption DEF AccountsInv
<1>1. ASSUME NEW n \in Names, n \notin tangled', accounts'[n] # None, accounts'[n].tech \in Techs,
             accounts'[n].tech \notin tangled'
      PROVE  /\ tangled \subseteq tangled'
             /\ \/ accounts'[n] = accounts[n]
                \/ /\ UNCHANGED <<roster, leaving>>
                   /\ leaving # accounts'[n].tech /\ accounts'[n].tech \in roster
  <2>1. tangled \subseteq tangled'
    BY DEF AccountsNext, VisitStep, PatchStep, VisitCached, VisitFetches, VisitAnswered, Stamp, StampFails,
           Expire, Ask, EditReads, EditSaves, EditFails, RosterChecks, RosterDrops, AccountsCrash, accountsVars
  <2>2. CASE accounts'[n] # accounts[n]
    <3>1. PICK c \in Clerks : EditSaves(c) /\ patches[c].name = n
      BY <1>1, <2>1, <2>2, OnlySavesChange
    <3>2. PICK user \in Accounts \cup {None} :
             /\ accounts' = [accounts EXCEPT ![n] = user]
             /\ tangled' = tangled \cup Entangled(c, n, user)
             /\ UNCHANGED <<roster, leaving>>
      BY <1>0, <3>1, SaveSays DEF AccountsInv
    <3>3. accounts'[n] = user
      BY <1>0, <3>2 DEF AccountsTypeOK
    <3> QED BY <1>1, <2>1, <3>2, <3>3 DEF Entangled
  <2> QED BY <2>1, <2>2
<1>2. ASSUME NEW t \in Techs, NEW n \in Names, leaving' = t, accounts'[n] # None, accounts'[n].tech = t,
             t \notin tangled', n \notin tangled'
      PROVE  FALSE
  <2>1. tangled \subseteq tangled' /\ accounts'[n] = accounts[n]
    BY <1>1, <1>2
  <2>2. CASE leaving = t
    BY <1>0, <1>2, <2>1, <2>2 DEF AccountsInv, LeavingUnlinked, AccountsTypeOK
  <2>3. CASE leaving # t
    <3>1. LinkedTo(t) = {}
      BY <1>0, <1>2, <2>3 DEF AccountsNext, VisitStep, PatchStep, VisitCached, VisitFetches, VisitAnswered,
         Stamp, StampFails, Expire, Ask, EditReads, EditSaves, EditFails, RosterChecks, RosterDrops,
         AccountsCrash, accountsVars, Unlinked
    <3> QED BY <1>2, <2>1, <3>1 DEF LinkedTo
  <2> QED BY <2>2, <2>3
<1>3. LeavingUnlinked'
  BY <1>0, <1>2 DEF LeavingUnlinked, AccountsTypeOK
<1>4. ASSUME NEW n \in Names, accounts'[n] # None, accounts'[n].tech # None,
             n \notin tangled', accounts'[n].tech \notin tangled'
      PROVE  accounts'[n].tech \in roster'
  <2>1. accounts'[n].tech \in Techs
    BY <1>0, <1>4 DEF AccountsTypeOK, Accounts
  <2>2. CASE accounts'[n] = accounts[n]
    <3>1. accounts[n].tech \in roster
      BY <1>1, <1>4, <2>1, <2>2 DEF AccountsInv, LinkedTechniciansExist
    <3>2. CASE RosterDrops
      BY <1>1, <1>4, <2>1, <2>2, <3>1, <3>2 DEF RosterDrops, AccountsInv, LeavingUnlinked
    <3>3. CASE ~RosterDrops
      <4>1. UNCHANGED roster
        BY <3>3 DEF AccountsNext, VisitStep, PatchStep, VisitCached, VisitFetches, VisitAnswered, Stamp,
           StampFails, Expire, Ask, EditReads, EditSaves, EditFails, RosterChecks, AccountsCrash, accountsVars
      <4> QED BY <2>2, <3>1, <4>1
    <3> QED BY <3>2, <3>3
  <2> QED BY <1>1, <1>4, <2>1, <2>2
<1> QED BY <1>3, <1>4 DEF LinkedTechniciansExist

LEMMA AccountsInvAlways == AccountsSpec => []AccountsInv
<1>1. AccountsInv /\ [AccountsNext]_<<accountsVars, spent>> => AccountsInv'
  <2> SUFFICES ASSUME AccountsInv, [AccountsNext]_<<accountsVars, spent>> PROVE AccountsInv'
    OBVIOUS
  <2>1. AccountsTypeOK' /\ HoldersFit'
    BY AccountsTypeStep DEF AccountsInv
  <2>2. \A n \in Names : n \notin tangled' => CopiesAgree(n)'
    BY CopiesAgreeStep DEF AccountsInv
  <2> QED BY <2>1, <2>2, LinksStep DEF AccountsInv
<1> QED BY <1>1, AccountsInvInit, PTL DEF AccountsSpec

\* The store, the cache, the copies that visits and edits hold and the roster
\* stay of their kinds.
THEOREM AccountsTypeCorrect == AccountsSpec => []AccountsTypeOK
BY AccountsInvSays, AccountsInvAlways, PTL

\* What an account may see fits its role and the technician it belongs to is on
\* the roster, for any number of accounts, managers, logins and requests and
\* any sequence of edits a PATCH may ask for.
THEOREM AccountsFitAlways == AccountsSpec => []AccountsFitTheirRoles
BY AccountsInvSays, AccountsInvAlways, PTL

\* A stored account changes by the edit of a manager and in the fields of that
\* edit only: no stamp of a login and no other edit takes a change back, unless
\* it began before that change was saved.
THEOREM AccountsChangeByIntentAlways == AccountsSpec => AccountsChangeByIntent
<1> DEFINE Intended ==
      \A n \in Names \ tangled' :
          accounts[n] # None /\ accounts'[n] # accounts[n]
          => \E c \in Clerks :
                /\ patches[c].name = n /\ patches[c].reading /\ patches'[c] # patches[c]
                /\ \/ accounts'[n] = None /\ Head(patches[c].plan) = "remove"
                   \/ /\ accounts'[n] # None
                      /\ Differ(accounts[n], accounts'[n]) \subseteq FieldsOf(Head(patches[c].plan))
<1>1. AccountsInv /\ [AccountsNext]_<<accountsVars, spent>> => Intended
  <2> SUFFICES ASSUME AccountsInv, [AccountsNext]_<<accountsVars, spent>>,
                      NEW n \in Names, n \notin tangled', accounts[n] # None, accounts'[n] # accounts[n]
               PROVE  \E c \in Clerks :
                /\ patches[c].name = n /\ patches[c].reading /\ patches'[c] # patches[c]
                /\ \/ accounts'[n] = None /\ Head(patches[c].plan) = "remove"
                   \/ /\ accounts'[n] # None
                      /\ Differ(accounts[n], accounts'[n]) \subseteq FieldsOf(Head(patches[c].plan))
    OBVIOUS
  <2>0. tangled \subseteq tangled'
    BY DEF AccountsNext, VisitStep, PatchStep, VisitCached, VisitFetches, VisitAnswered, Stamp, StampFails,
           Expire, Ask, EditReads, EditSaves, EditFails, RosterChecks, RosterDrops, AccountsCrash, accountsVars
  <2>1. PICK c \in Clerks : EditSaves(c) /\ patches[c].name = n
    BY <2>0, OnlySavesChange
  <2>2. AccountsTypeOK /\ HoldersFit /\ CopiesAgree(n)
    BY <2>0 DEF AccountsInv
  <2>3. PICK user \in Accounts \cup {None}, w \in Patch :
           /\ patches[c].reading
           /\ patches[c].copy # None /\ user = None => Head(patches[c].plan) = "remove"
           /\ patches[c].copy # None /\ user # None
              => Differ(patches[c].copy, user) \subseteq FieldsOf(Head(patches[c].plan))
           /\ accounts' = [accounts EXCEPT ![n] = user]
           /\ patches' = [patches EXCEPT ![c] = w] /\ ~w.reading
    BY <2>1, <2>2, SaveSays
  <2>4. patches[c].copy = accounts[n] /\ accounts'[n] = user /\ patches'[c] # patches[c]
    BY <2>1, <2>2, <2>3 DEF CopiesAgree, AccountsTypeOK
  <2> QED BY <2>1, <2>3, <2>4
<1>2. AccountsSpec => [][Intended]_<<accountsVars, spent>>
  BY <1>1, AccountsInvAlways, PTL DEF AccountsSpec
<1> QED BY <1>2, PTL DEF AccountsChangeByIntent

----------------------------------------------------------------------------
(* The roster: definitions *)

RosterTask == [ by     : Bosses,
                op     : {"add", "edit", "remove", "import"},
                id     : PersonIds \cup {None},
                call   : Callings \cup {None},
                tags   : (SUBSET Companies) \cup {None},
                rows   : Seq(Person),
                behind : BOOLEAN,
                copy   : Rosters \cup {None} ]

\* A write has what its kind needs.
TaskFits(a) ==
    /\ a \in RosterTask
    /\ a.op \in {"edit", "remove"} => a.id \in PersonIds
    /\ a.op = "add" => a.call \in Callings
    /\ a.op \in {"add", "import"} => a.tags \in SUBSET Companies

Waits(i) == tasks[i].copy = None

IsEdit(i) == tasks[i].op = "edit"

\* Only the write at the head of the queue has begun.
InTurn == \A i \in DOMAIN tasks : i > 1 => Waits(i)

\* What is being written is what memory has, or is about to have: the entries
\* there are, and new ones whom no waiting edit means.
CopyFits(i) ==
    ~Waits(i) =>
      /\ Proper(tasks[i].copy)
      /\ tasks[i].op # "import" => tasks[i].copy = people
      /\ tasks[i].op = "import" =>
           /\ \A t \in OnRoster(people) : tasks[i].copy[t] = people[t]
           /\ \A j \in DOMAIN tasks : IsEdit(j) /\ people[tasks[j].id] = None
                                      => tasks[i].copy[tasks[j].id] = None

\* The repository has what memory has, unless a write is under way or failed.
MemoryKept ==
    ~rosterDoubt /\ (\A i \in DOMAIN tasks : Waits(i) \/ tasks[i].op = "import")
    => people = keptPeople

\* An edit that waits behind another one of the same person knows so.
EditsInOrder ==
    \A i, j \in DOMAIN tasks :
      i < j /\ IsEdit(i) /\ IsEdit(j) /\ tasks[i].id = tasks[j].id /\ Waits(i) => tasks[j].behind

\* An edit that waits behind none has the tags of other companies as they are.
TagsFit(i) ==
    IsEdit(i) /\ Waits(i) /\ ~tasks[i].behind /\ tasks[i].tags # None /\ people[tasks[i].id] # None
    => tasks[i].tags \ CompaniesOf[tasks[i].by]
       = people[tasks[i].id].tags \ CompaniesOf[tasks[i].by]

\* Nobody but t has the name and title of an entry.
Alone(t, entry) == entry # None => \A o \in OnRoster(people) \ {t} : people[o].call # entry.call

Changed(t, entry) == [people EXCEPT ![t] = entry]

TasksFit  == tasks \in Seq(RosterTask) /\ \A i \in DOMAIN tasks : TaskFits(tasks[i])
CopiesFit == \A i \in DOMAIN tasks : CopyFits(i)
AllTagsFit == \A i \in DOMAIN tasks : TagsFit(i)

RostersFit ==
    /\ people \in Rosters /\ keptPeople \in Rosters /\ known \subseteq Companies /\ rosterDoubt \in BOOLEAN
    /\ Proper(people) /\ Proper(keptPeople)

PreviewsFit ==
    /\ previews \in [Bosses -> (UNION {FilesOf[b] : b \in Bosses}) \cup {None}]
    /\ \A b \in Bosses : previews[b] \in FilesOf[b] \cup {None}

\* What the two action properties say of a step.
SomeoneLeaves(t) ==
    \/ \E i \in DOMAIN tasks : tasks[i].op = "remove" /\ tasks[i].id = t
    \/ Happened("crash")' # Happened("crash")

TagsStay(i, t) ==
    /\ tasks[i].op = "edit" /\ tasks[i].id = t /\ tasks[i].copy = None
    /\ Len(tasks') = Len(tasks) /\ ~tasks[i].behind
    => people[t].tags \cap (known \ CompaniesOf[tasks[i].by])
       = people'[t].tags \cap (known \ CompaniesOf[tasks[i].by])

RosterStep ==
    /\ \A t \in OnRoster(people) \ OnRoster(people') : SomeoneLeaves(t)
    /\ \A i \in DOMAIN tasks, t \in OnRoster(people) \cap OnRoster(people') : TagsStay(i, t)

RosterInv ==
    /\ IsABag(spent) /\ RostersFit /\ PreviewsFit /\ TasksFit
    /\ InTurn /\ MemoryKept /\ EditsInOrder /\ CopiesFit /\ AllTagsFit

----------------------------------------------------------------------------
(* The roster: lemmas *)

LEMMA SpentCounts == ASSUME IsABag(spent), NEW k, Spend(k) PROVE IsABag(spent)' /\ Happened(k)' # Happened(k)
<1>1. /\ \A j \in DOMAIN spent : spent[j] \in Nat /\ spent[j] > 0
      /\ spent = [j \in DOMAIN spent |-> spent[j]]
  BY DEF IsABag
<1>2. spent' = [j \in (DOMAIN spent \cup {k}) |->
                   (IF j \in DOMAIN spent THEN spent[j] ELSE 0) + (IF j = k THEN 1 ELSE 0)]
  BY DEF Spend, (+), SetToBag
<1>3. /\ DOMAIN spent' = DOMAIN spent \cup {k}
      /\ spent'[k] = (IF k \in DOMAIN spent THEN spent[k] ELSE 0) + 1
      /\ \A j \in DOMAIN spent \ {k} : spent'[j] = spent[j]
  BY <1>1, <1>2
<1>4. IsABag(spent)'
  BY <1>1, <1>2, <1>3 DEF IsABag
<1>5. Happened(k)' # Happened(k)
  BY <1>1, <1>3 DEF Happened, BagIn, BagToSet
<1> QED BY <1>4, <1>5

LEMMA RestSays ==
    ASSUME tasks \in Seq(RosterTask), NEW i \in DOMAIN tasks
    PROVE  /\ Rest(i) \in Seq(RosterTask) /\ Len(Rest(i)) = Len(tasks) - 1
           /\ DOMAIN Rest(i) = 1 .. Len(tasks) - 1
           /\ \A n \in DOMAIN Rest(i) : Rest(i)[n] = tasks[IF n < i THEN n ELSE n + 1]
<1>1. Len(tasks) \in Nat /\ i \in 1 .. Len(tasks) /\ Len(tasks) - 1 \in Nat
  OBVIOUS
<1>2. \A n \in 1 .. Len(tasks) - 1 : tasks[IF n < i THEN n ELSE n + 1] \in RosterTask
  BY <1>1
<1>3. Rest(i) \in [1 .. Len(tasks) - 1 -> RosterTask]
  BY <1>2 DEF Rest
<1> QED BY <1>1, <1>3 DEF Rest

\* Everybody who is placed under a new identity comes to those there are.
LEMMA PlacedFits ==
    ASSUME people \in Rosters, Proper(people), NEW rows \in Seq(Person), NEW ids \in Fresh(Len(rows)),
           \A i, j \in DOMAIN rows : i # j => rows[i].call # rows[j].call,
           \A i \in DOMAIN rows : \A t \in OnRoster(people) : people[t].call # rows[i].call,
           Cardinality(OnRoster(people)) + Len(rows) <= MaxPeople
    PROVE  LET q == Placed(people, rows, ids)
           IN  /\ q \in Rosters /\ Proper(q)
               /\ \A t \in PersonIds \ Unused : q[t] = people[t]
<1> DEFINE q == Placed(people, rows, ids)
           n == Len(rows)
           new == {ids[i] : i \in 1 .. n}
<1>1. /\ n \in Nat /\ DOMAIN rows = 1 .. n /\ ids \in [1 .. n -> Unused]
      /\ \A i, j \in 1 .. n : i # j => ids[i] # ids[j]
      /\ \A i \in 1 .. n : rows[i] \in Person
  BY DEF Fresh
<1>2. Unused \subseteq PersonIds /\ Unused \cap OnRoster(people) = {}
  BY DEF Unused
<1>3. ASSUME NEW i \in 1 .. n PROVE ids[i] \in PersonIds /\ q[ids[i]] = rows[i]
  <2>1. ids[i] \in PersonIds /\ \E k \in DOMAIN rows : ids[k] = ids[i]
    BY <1>1, <1>2
  <2>2. q[ids[i]] = rows[CHOOSE k \in DOMAIN rows : ids[k] = ids[i]]
    BY <2>1 DEF Placed
  <2>3. (CHOOSE k \in DOMAIN rows : ids[k] = ids[i]) = i
    BY <1>1, <2>1
  <2> QED BY <2>1, <2>2, <2>3
<1>4. ASSUME NEW t \in PersonIds, t \notin new PROVE q[t] = people[t]
  <2>1. ~ \E k \in DOMAIN rows : ids[k] = t
    BY <1>1, <1>4
  <2> QED BY <2>1 DEF Placed
<1>5. q \in Rosters
  <2>1. \A t \in PersonIds : q[t] \in Person \cup {None}
    <3> TAKE t \in PersonIds
    <3>1. CASE t \in new
      BY <3>1, <1>1, <1>3
    <3>2. CASE t \notin new
      BY <3>2, <1>4 DEF Rosters
    <3> QED BY <3>1, <3>2
  <2>2. q = [t \in PersonIds |-> q[t]]
    BY DEF Placed
  <2> QED BY <2>1, <2>2 DEF Rosters
<1>6. new \subseteq Unused
  BY <1>1
<1>7. OnRoster(q) = OnRoster(people) \cup new
  <2>1. \A t \in new : t \in PersonIds /\ q[t] # None
    BY <1>1, <1>3, RosterAssumption
  <2>2. \A t \in PersonIds \ new : q[t] = people[t]
    BY <1>4
  <2> QED BY <2>1, <2>2, <1>2, <1>6 DEF OnRoster
<1>8. Cardinality(OnRoster(q)) <= MaxPeople
  <2>1. IsFiniteSet(PersonIds) /\ OnRoster(people) \subseteq PersonIds
    BY RosterAssumption DEF OnRoster
  <2>2. IsFiniteSet(OnRoster(people)) /\ Cardinality(OnRoster(people)) \in Nat
    BY <2>1, FS_Subset, FS_CardinalityType
  <2>3. IsFiniteSet(1 .. n) /\ Cardinality(1 .. n) = n
    <3>1. IsFiniteSet(1 .. n) /\ Cardinality(1 .. n) = IF 1 <= n THEN n - 1 + 1 ELSE 0
      BY <1>1, FS_Interval
    <3> QED BY <1>1, <3>1
  <2>4. ids \in Surjection(1 .. n, new)
    BY <1>1 DEF Surjection
  <2>5. IsFiniteSet(new) /\ Cardinality(new) <= n
    BY <2>3, <2>4, FS_Surjection
  <2>6. OnRoster(people) \cap new = {}
    BY <1>2, <1>6
  <2>7. Cardinality(OnRoster(people) \cup new) = Cardinality(OnRoster(people)) + Cardinality(new) - Cardinality({})
    BY <2>2, <2>5, <2>6, FS_Union
  <2>8. Cardinality({}) = 0 /\ Cardinality(new) \in Nat
    BY <2>5, FS_EmptySet, FS_CardinalityType
  <2> QED BY <1>1, <1>7, <2>2, <2>5, <2>7, <2>8, RosterAssumption
<1>9. ASSUME NEW s \in OnRoster(q), NEW t \in OnRoster(q), s # t PROVE q[s].call # q[t].call
  <2>1. CASE s \in new /\ t \in new
    BY <2>1, <1>1, <1>3, <1>9
  <2>2. CASE s \in new /\ t \notin new
    <3>1. PICK i \in 1 .. n : s = ids[i]
      BY <2>2
    <3>2. t \in OnRoster(people) /\ q[t] = people[t] /\ q[s] = rows[i]
      BY <2>2, <3>1, <1>3, <1>4, <1>7 DEF OnRoster
    <3> QED BY <3>2, <1>1
  <2>3. CASE s \notin new /\ t \in new
    <3>1. PICK i \in 1 .. n : t = ids[i]
      BY <2>3
    <3>2. s \in OnRoster(people) /\ q[s] = people[s] /\ q[t] = rows[i]
      BY <2>3, <3>1, <1>3, <1>4, <1>7 DEF OnRoster
    <3> QED BY <3>2, <1>1
  <2>4. CASE s \notin new /\ t \notin new
    <3>1. s \in OnRoster(people) /\ q[s] = people[s] /\ t \in OnRoster(people) /\ q[t] = people[t]
      BY <2>4, <1>4, <1>7 DEF OnRoster
    <3> QED BY <3>1, <1>9 DEF Proper
  <2> QED BY <2>1, <2>2, <2>3, <2>4
<1> QED BY <1>4, <1>5, <1>6, <1>8, <1>9 DEF Proper

\* What a change of one entry makes of a roster without doubles.
LEMMA ChangedFits ==
    ASSUME people \in Rosters, Proper(people), NEW t \in PersonIds, people[t] # None, NEW entry \in Person \cup {None},
           Alone(t, entry)
    PROVE  LET q == Changed(t, entry)
           IN  q \in Rosters /\ Proper(q) /\ q[t] = entry /\ \A o \in PersonIds \ {t} : q[o] = people[o]
<1> DEFINE q == Changed(t, entry)
<1>1. q \in Rosters /\ q[t] = entry /\ \A o \in PersonIds \ {t} : q[o] = people[o]
  BY DEF Rosters, Changed
<1>2. OnRoster(q) \subseteq OnRoster(people) /\ t \in OnRoster(people)
  BY <1>1 DEF OnRoster
<1>3. Cardinality(OnRoster(q)) <= MaxPeople
  <2>1. IsFiniteSet(OnRoster(people))
    BY RosterAssumption, FS_Subset DEF OnRoster
  <2>2. /\ Cardinality(OnRoster(q)) <= Cardinality(OnRoster(people)) /\ IsFiniteSet(OnRoster(q))
        /\ Cardinality(OnRoster(q)) \in Nat /\ Cardinality(OnRoster(people)) \in Nat
    BY <1>2, <2>1, FS_Subset, FS_CardinalityType
  <2> QED BY <2>2, RosterAssumption DEF Proper
<1>4. ASSUME NEW s \in OnRoster(q), NEW o \in OnRoster(q), s # o PROVE q[s].call # q[o].call
  <2>1. s \in PersonIds /\ o \in PersonIds /\ q[s] # None /\ q[o] # None
    BY DEF OnRoster
  <2>2. CASE s = t
    BY <1>1, <1>2, <1>4, <2>1, <2>2 DEF Alone
  <2>3. CASE o = t
    BY <1>1, <1>2, <1>4, <2>1, <2>3 DEF Alone
  <2>4. CASE s # t /\ o # t
    BY <1>1, <1>2, <1>4, <2>1, <2>4 DEF Proper
  <2> QED BY <2>2, <2>3, <2>4
<1> QED BY <1>1, <1>3, <1>4 DEF Proper

\* What a write makes of the roster is a roster without doubles, in which only
\* the person it means has changed.
LEMMA MadeFits ==
    ASSUME people \in Rosters, Proper(people), known \subseteq Companies,
           NEW a \in RosterTask, TaskFits(a), NEW made \in Made(a)
    PROVE  /\ made \in Rosters /\ Proper(made)
           /\ a.op \in {"add", "import"} => \A t \in PersonIds \ Unused : made[t] = people[t]
           /\ a.op \in {"edit", "remove"} => \A t \in PersonIds \ {a.id} : made[t] = people[t]
           /\ a.op = "edit" => /\ people[a.id] # None /\ made[a.id] # None
                               /\ made[a.id].tags = IF a.tags = None THEN people[a.id].tags
                                                                     ELSE a.tags \cap known
<1>1. CASE a.op = "add"
  <2> DEFINE rows == <<[call |-> a.call, tags |-> Configured(a.tags)]>>
  <2>1. ~IsTwin(None, a.call) /\ ~(Cardinality(OnRoster(people)) >= MaxPeople) /\ made \in With(people, rows)
    BY <1>1 DEF Made
  <2>2. rows \in Seq(Person) /\ Len(rows) = 1 /\ DOMAIN rows = {1} /\ rows[1].call = a.call
    BY <1>1 DEF TaskFits, Configured, Person
  <2>3. \A i, j \in DOMAIN rows : i # j => rows[i].call # rows[j].call
    BY <2>2
  <2>4. \A i \in DOMAIN rows : \A t \in OnRoster(people) : people[t].call # rows[i].call
    BY <2>1, <2>2, RosterAssumption DEF IsTwin, OnRoster
  <2>5. IsFiniteSet(OnRoster(people)) /\ Cardinality(OnRoster(people)) \in Nat
    BY RosterAssumption, FS_Subset, FS_CardinalityType DEF OnRoster
  <2>6. Cardinality(OnRoster(people)) + Len(rows) <= MaxPeople
    BY <2>1, <2>2, <2>5, RosterAssumption
  <2>7. PICK ids \in Fresh(Len(rows)) : made = Placed(people, rows, ids)
    BY <2>1 DEF With
  <2> HIDE DEF rows
  <2>8. made \in Rosters /\ Proper(made) /\ \A t \in PersonIds \ Unused : made[t] = people[t]
    BY <2>2, <2>3, <2>4, <2>6, <2>7, PlacedFits
  <2> QED BY <1>1, <2>8
<1>2. CASE a.op = "import"
  <2>1. ImportFits(a.rows, Configured(a.tags)) /\ made \in With(people, a.rows)
    BY <1>2 DEF Made
  <2>2. a.rows \in Seq(Person)
    BY DEF RosterTask
  <2>3. \A i \in DOMAIN a.rows : \A t \in OnRoster(people) : people[t].call # a.rows[i].call
    BY <2>1 DEF ImportFits
  <2>4. \A i, j \in DOMAIN a.rows : i # j => a.rows[i].call # a.rows[j].call
    <3>1. \A i \in DOMAIN a.rows : \A j \in 1 .. i - 1 : a.rows[j].call # a.rows[i].call
      BY <2>1 DEF ImportFits
    <3>2. DOMAIN a.rows = 1 .. Len(a.rows) /\ Len(a.rows) \in Nat
      BY <2>2
    <3>3. \A i, j \in DOMAIN a.rows : i # j => j \in 1 .. i - 1 \/ i \in 1 .. j - 1
      BY <3>2
    <3> QED BY <3>1, <3>3
  <2>5. Cardinality(OnRoster(people)) + Len(a.rows) <= MaxPeople
    BY <2>1 DEF ImportFits
  <2>6. PICK ids \in Fresh(Len(a.rows)) : made = Placed(people, a.rows, ids)
    BY <2>1 DEF With
  <2>7. made \in Rosters /\ Proper(made) /\ \A t \in PersonIds \ Unused : made[t] = people[t]
    BY <2>2, <2>3, <2>4, <2>5, <2>6, PlacedFits
  <2> QED BY <1>2, <2>7
<1>3. CASE a.op = "edit"
  <2> DEFINE entry == [call |-> IF a.call = None THEN people[a.id].call ELSE a.call,
                       tags |-> IF a.tags = None THEN people[a.id].tags ELSE a.tags \cap known]
  <2>1. a.id \in PersonIds
    BY <1>3 DEF TaskFits
  <2>2. /\ people[a.id] # None /\ ~(a.call # None /\ IsTwin(a.id, a.call))
        /\ made = Changed(a.id, entry)
    BY <1>3 DEF Made, Configured, Changed
  <2>3. people[a.id] \in Person
    BY <2>1, <2>2 DEF Rosters
  <2>4. a.call \in Callings \cup {None} /\ a.tags \in (SUBSET Companies) \cup {None}
    BY DEF RosterTask
  <2>5. /\ entry \in Person
        /\ entry.call = IF a.call = None THEN people[a.id].call ELSE a.call
        /\ entry.tags = IF a.tags = None THEN people[a.id].tags ELSE a.tags \cap known
    BY <2>3, <2>4 DEF Person
  <2>6. a.id \in OnRoster(people)
    BY <2>1, <2>2 DEF OnRoster
  <2>7. \A o \in OnRoster(people) \ {a.id} : people[o].call # entry.call
    BY <2>2, <2>5, <2>6 DEF IsTwin, Proper
  <2> HIDE DEF entry
  <2>8. /\ made \in Rosters /\ Proper(made) /\ made[a.id] = entry
        /\ \A o \in PersonIds \ {a.id} : made[o] = people[o]
    <3>1. entry \in Person \cup {None}
      BY <2>5
    <3>2. Alone(a.id, entry)
      BY <2>7 DEF Alone
    <3> QED BY <2>1, <2>2, <3>1, <3>2, ChangedFits
  <2>9. entry # None
    BY <2>5, RosterAssumption
  <2> QED BY <1>3, <2>2, <2>5, <2>8, <2>9
<1>4. CASE a.op = "remove"
  <2>1. a.id \in PersonIds
    BY <1>4 DEF TaskFits
  <2>2. people[a.id] # None /\ made = Changed(a.id, None)
    BY <1>4 DEF Made, Changed
  <2>3. made \in Rosters /\ Proper(made) /\ \A o \in PersonIds \ {a.id} : made[o] = people[o]
    <3>1. None \in Person \cup {None}
      OBVIOUS
    <3>2. Alone(a.id, None)
      BY DEF Alone
    <3> QED BY <2>1, <2>2, <3>1, <3>2, ChangedFits
  <2> QED BY <1>4, <2>3
<1>5. a.op \in {"add", "edit", "remove", "import"}
  BY DEF RosterTask
<1> QED BY <1>1, <1>2, <1>3, <1>4, <1>5

\* When the write at the head has ended, those behind it are as they were.
LEMMA RestFits ==
    ASSUME TasksFit, InTurn, EditsInOrder, NEW i \in DOMAIN tasks, i = 1 \/ ~Waits(i), tasks' = Rest(i)
    PROVE  /\ i = 1 /\ \A n \in DOMAIN tasks' : n + 1 \in DOMAIN tasks /\ tasks'[n] = tasks[n + 1]
           /\ \A n \in DOMAIN tasks' : Waits(n + 1) /\ Waits(n)'
           /\ TasksFit' /\ InTurn' /\ EditsInOrder' /\ CopiesFit' /\ Len(tasks') # Len(tasks)
<1>1. tasks \in Seq(RosterTask) /\ i \in 1 .. Len(tasks) /\ Len(tasks) \in Nat /\ DOMAIN tasks = 1 .. Len(tasks)
  BY DEF TasksFit
<1>2. i = 1
  BY <1>1 DEF InTurn
<1>3. /\ tasks' \in Seq(RosterTask) /\ Len(tasks') = Len(tasks) - 1 /\ DOMAIN tasks' = 1 .. Len(tasks) - 1
      /\ \A n \in DOMAIN tasks' : tasks'[n] = tasks[IF n < i THEN n ELSE n + 1]
  BY <1>1, RestSays
<1>4. \A n \in DOMAIN tasks' : n \in Nat /\ n + 1 \in DOMAIN tasks /\ n + 1 > 1 /\ tasks'[n] = tasks[n + 1]
  BY <1>1, <1>2, <1>3
<1>5. \A n \in DOMAIN tasks' : tasks[n + 1].copy = None
  BY <1>4 DEF InTurn, Waits
<1>6. \A n \in DOMAIN tasks' : tasks'[n].copy = None
  BY <1>4, <1>5
<1>7. TasksFit'
  <2>1. \A n \in DOMAIN tasks' : TaskFits(tasks[n + 1])
    BY <1>4 DEF TasksFit
  <2>2. \A n \in DOMAIN tasks' : TaskFits(tasks'[n])
    BY <1>4, <2>1
  <2> QED BY <1>3, <2>2 DEF TasksFit, TaskFits
<1>8. InTurn' /\ CopiesFit'
  BY <1>6 DEF InTurn, CopiesFit, CopyFits, Waits
<1>9. EditsInOrder'
  <2> SUFFICES ASSUME NEW k \in DOMAIN tasks', NEW n \in DOMAIN tasks', k < n, tasks'[k].op = "edit",
                      tasks'[n].op = "edit", tasks'[k].id = tasks'[n].id
               PROVE  tasks'[n].behind
    BY DEF EditsInOrder, IsEdit, Waits
  <2>1. k + 1 \in DOMAIN tasks /\ n + 1 \in DOMAIN tasks /\ k + 1 < n + 1
    BY <1>3, <1>4
  <2>2. tasks[k + 1].op = "edit" /\ tasks[n + 1].op = "edit" /\ tasks[k + 1].id = tasks[n + 1].id
    BY <1>4
  <2>3. tasks[k + 1].copy = None
    BY <1>5
  <2>4. tasks[n + 1].behind
    BY <2>1, <2>2, <2>3 DEF EditsInOrder, IsEdit, Waits
  <2> QED BY <1>4, <2>4
<1> QED BY <1>1, <1>2, <1>3, <1>4, <1>5, <1>6, <1>7, <1>8, <1>9 DEF Waits

\* What a route decided is still right when it joins the queue.
LEMMA EnqueuedKeeps ==
    ASSUME RosterInv, NEW task \in RosterTask, TaskFits(task), task.copy = None, Enqueued(task), UNCHANGED previews,
           task.op = "edit" =>
             (task.behind <=> \E i \in DOMAIN tasks : Waits(i) /\ IsEdit(i) /\ tasks[i].id = task.id),
           task.op = "edit" /\ ~task.behind /\ task.tags # None
             => task.tags \ CompaniesOf[task.by] = people[task.id].tags \ CompaniesOf[task.by],
           task.op = "edit" => people[task.id] # None
    PROVE  RosterInv' /\ OnRoster(people') = OnRoster(people) /\ Len(tasks') # Len(tasks)
<1>1. /\ tasks' = Append(tasks, task) /\ UNCHANGED <<people, keptPeople, known, rosterDoubt, previews>>
      /\ Spend("ask")
  BY DEF Enqueued
<1>2. /\ tasks \in Seq(RosterTask) /\ Len(tasks) \in Nat /\ DOMAIN tasks = 1 .. Len(tasks)
      /\ tasks' \in Seq(RosterTask) /\ Len(tasks') = Len(tasks) + 1 /\ DOMAIN tasks' = 1 .. Len(tasks) + 1
      /\ \A i \in DOMAIN tasks : i \in DOMAIN tasks' /\ tasks'[i] = tasks[i]
      /\ tasks'[Len(tasks) + 1] = task
  BY <1>1 DEF RosterInv, TasksFit
<1>3. \A i \in DOMAIN tasks' : i \in DOMAIN tasks \/ i = Len(tasks) + 1
  BY <1>2
<1>4. IsABag(spent)'
  BY <1>1, SpentCounts DEF RosterInv
<1>5. RostersFit' /\ PreviewsFit'
  BY <1>1 DEF RosterInv, RostersFit, PreviewsFit, Proper, OnRoster
<1>6. TasksFit'
  <2>1. \A i \in DOMAIN tasks' : TaskFits(tasks'[i])
    BY <1>2, <1>3 DEF RosterInv, TasksFit
  <2> QED BY <1>2, <2>1 DEF TasksFit, TaskFits
<1>7. InTurn'
  BY <1>2, <1>3 DEF RosterInv, InTurn, Waits
<1>8. MemoryKept'
  <2> SUFFICES ASSUME ~rosterDoubt', \A i \in DOMAIN tasks' : tasks'[i].copy = None \/ tasks'[i].op = "import"
               PROVE  people' = keptPeople'
    BY DEF MemoryKept, Waits
  <2>1. \A i \in DOMAIN tasks : tasks[i].copy = None \/ tasks[i].op = "import"
    BY <1>2
  <2> QED BY <1>1, <2>1 DEF RosterInv, MemoryKept, Waits
<1>9. EditsInOrder'
  <2> SUFFICES ASSUME NEW i \in DOMAIN tasks', NEW j \in DOMAIN tasks', i < j, tasks'[i].op = "edit",
                      tasks'[j].op = "edit", tasks'[i].id = tasks'[j].id, tasks'[i].copy = None
               PROVE  tasks'[j].behind
    BY DEF EditsInOrder, IsEdit, Waits
  <2>1. i \in DOMAIN tasks /\ tasks'[i] = tasks[i]
    BY <1>2
  <2>2. CASE j \in DOMAIN tasks
    BY <1>2, <2>1, <2>2 DEF RosterInv, EditsInOrder, IsEdit, Waits
  <2>3. CASE j = Len(tasks) + 1
    BY <1>2, <2>1, <2>3 DEF IsEdit, Waits
  <2> QED BY <1>3, <2>2, <2>3
<1>10. CopiesFit'
  <2> SUFFICES ASSUME NEW i \in DOMAIN tasks' PROVE CopyFits(i)'
    BY DEF CopiesFit
  <2>1. CASE i = Len(tasks) + 1
    BY <1>2, <2>1 DEF CopyFits, Waits
  <2>2. CASE i \in DOMAIN tasks
    <3>1. tasks'[i] = tasks[i] /\ CopyFits(i)
      BY <1>2, <2>2 DEF RosterInv, CopiesFit
    <3> SUFFICES ASSUME tasks[i].copy # None PROVE CopyFits(i)'
      BY <3>1 DEF CopyFits, Waits
    <3>2. Proper(tasks[i].copy) /\ (tasks[i].op # "import" => tasks[i].copy = people)
      BY <3>1 DEF CopyFits, Waits
    <3>3. tasks[i].op = "import" => \A t \in OnRoster(people) : tasks[i].copy[t] = people[t]
      BY <3>1 DEF CopyFits, Waits
    <3>4. tasks[i].op = "import" => \A j \in DOMAIN tasks' : tasks'[j].op = "edit" /\ people[tasks'[j].id] = None
                                        => tasks[i].copy[tasks'[j].id] = None
      BY <1>2, <1>3, <3>1 DEF CopyFits, Waits, IsEdit
    <3> QED BY <1>1, <3>1, <3>2, <3>3, <3>4 DEF CopyFits, Waits, IsEdit, Proper, OnRoster
  <2> QED BY <1>3, <2>1, <2>2
<1>11. AllTagsFit'
  <2> SUFFICES ASSUME NEW i \in DOMAIN tasks' PROVE TagsFit(i)'
    BY DEF AllTagsFit
  <2>1. CASE i = Len(tasks) + 1
    BY <1>1, <1>2, <2>1 DEF TagsFit, IsEdit, Waits
  <2>2. CASE i \in DOMAIN tasks
    BY <1>1, <1>2, <2>2 DEF RosterInv, AllTagsFit, TagsFit, IsEdit, Waits
  <2> QED BY <1>3, <2>1, <2>2
<1>12. OnRoster(people') = OnRoster(people) /\ Len(tasks') # Len(tasks)
  <2>1. people' = people
    BY <1>1
  <2>2. OnRoster(people') = OnRoster(people)
    BY <2>1
  <2>3. Len(tasks') # Len(tasks)
    <3>1. Len(tasks) \in Nat /\ Len(tasks') = Len(tasks) + 1
      BY <1>2
    <3> QED BY <3>1
  <2> QED BY <2>2, <2>3
<1> QED BY <1>4, <1>5, <1>6, <1>7, <1>8, <1>9, <1>10, <1>11, <1>12 DEF RosterInv

\* A step that leaves the roster and the queue alone.
LEMMA QuietKeeps ==
    ASSUME RosterInv, UNCHANGED <<people, keptPeople, tasks, rosterDoubt>>, IsABag(spent)',
           PreviewsFit', known' \subseteq known
    PROVE  RosterInv'
<1>1. RostersFit'
  BY DEF RosterInv, RostersFit, Proper, OnRoster
<1>2. TasksFit' /\ InTurn' /\ MemoryKept' /\ EditsInOrder'
  BY DEF RosterInv, TasksFit, TaskFits, InTurn, MemoryKept, EditsInOrder, Waits, IsEdit
<1>3. CopiesFit'
  BY DEF RosterInv, CopiesFit, CopyFits, Waits, IsEdit, Proper, OnRoster
<1>4. AllTagsFit'
  BY DEF RosterInv, AllTagsFit, TagsFit, Waits, IsEdit
<1> QED BY <1>1, <1>2, <1>3, <1>4 DEF RosterInv

LEMMA AddsKeep ==
    ASSUME RosterInv, NEW b \in Bosses, NEW call \in Callings, NEW tags \in TagChoices, AsksAdd(b, call, tags)
    PROVE  RosterInv' /\ OnRoster(people') = OnRoster(people) /\ Len(tasks') # Len(tasks)
<1> DEFINE task == Task(b, "add", None, call, TypesOfNew(b, tags), << >>)
<1>1. TypesOfNew(b, tags) \in SUBSET Companies
  BY RosterAssumption DEF TypesOfNew, ResolveTypes
<1>2. << >> \in Seq(Person)
  OBVIOUS
<1>3. task \in RosterTask /\ TaskFits(task) /\ task.copy = None /\ task.op = "add"
  BY <1>1, <1>2 DEF Task, RosterTask, TaskFits
<1>4. Enqueued(task) /\ UNCHANGED previews
  BY DEF AsksAdd
<1> HIDE DEF task
<1> QED BY <1>3, <1>4, EnqueuedKeeps

LEMMA EditsKeep ==
    ASSUME RosterInv, NEW b \in Bosses, NEW t \in PersonIds, NEW call \in Callings \cup {None},
           NEW tags \in TagChoices \cup {None}, AsksEdit(b, t, call, tags)
    PROVE  RosterInv' /\ OnRoster(people') = OnRoster(people) /\ Len(tasks') # Len(tasks)
<1> DEFINE types == IF tags = None THEN None ELSE ResolveTypes(b, tags, people[t].tags)
           task == Task(b, "edit", t, call, types, << >>)
<1>1. people[t] # None /\ Enqueued(task) /\ UNCHANGED previews
  BY DEF AsksEdit, VisibleTo, OnRoster
<1>2. people[t] \in Person /\ people[t].tags \subseteq Companies
  BY <1>1 DEF RosterInv, RostersFit, Rosters, Person
<1>3. types \in (SUBSET Companies) \cup {None}
  BY <1>2, RosterAssumption DEF ResolveTypes
<1>4. types # None => types \ CompaniesOf[b] = people[t].tags \ CompaniesOf[b]
  <2>1. CASE b = Master
    BY <1>2, <1>3, <2>1, RosterAssumption
  <2>2. CASE b # Master
    BY <2>2 DEF ResolveTypes
  <2> QED BY <2>1, <2>2
<1> HIDE DEF types
<1>5. << >> \in Seq(Person)
  OBVIOUS
<1>6. task \in RosterTask /\ TaskFits(task) /\ task.copy = None
  BY <1>3, <1>5 DEF Task, RosterTask, TaskFits
<1>7. /\ task.op = "edit" /\ task.id = t /\ task.by = b /\ task.tags = types
      /\ task.behind <=> \E i \in DOMAIN tasks : tasks[i].copy = None /\ tasks[i].op = "edit" /\ tasks[i].id = t
  BY DEF Task
<1> HIDE DEF task
<1>8. task.behind <=> \E i \in DOMAIN tasks : Waits(i) /\ IsEdit(i) /\ tasks[i].id = task.id
  BY <1>7 DEF Waits, IsEdit
<1>9. task.tags # None => task.tags \ CompaniesOf[task.by] = people[task.id].tags \ CompaniesOf[task.by]
  BY <1>4, <1>7
<1>10. people[task.id] # None
  BY <1>1, <1>7
<1> QED BY <1>1, <1>6, <1>8, <1>9, <1>10, EnqueuedKeeps

LEMMA RemovalsKeep ==
    ASSUME RosterInv, NEW t \in PersonIds, AsksRemove(t)
    PROVE  RosterInv' /\ OnRoster(people') = OnRoster(people) /\ Len(tasks') # Len(tasks)
<1> DEFINE task == Task(Master, "remove", t, None, {}, << >>)
<1>1. << >> \in Seq(Person)
  OBVIOUS
<1>2. task \in RosterTask /\ TaskFits(task) /\ task.copy = None /\ task.op = "remove"
  BY <1>1, RosterAssumption DEF Task, RosterTask, TaskFits
<1>3. Enqueued(task) /\ UNCHANGED previews
  BY DEF AsksRemove
<1> HIDE DEF task
<1> QED BY <1>2, <1>3, EnqueuedKeeps

LEMMA ImportsKeep ==
    ASSUME RosterInv, NEW b \in Bosses, AsksImport(b)
    PROVE  RosterInv' /\ OnRoster(people') = OnRoster(people) /\ Len(tasks') # Len(tasks)
<1> DEFINE task == Task(b, "import", None, None, MayTag(b), previews[b])
<1>1. previews[b] \in Seq(Person)
  BY RosterAssumption DEF AsksImport, RosterInv, PreviewsFit
<1>2. MayTag(b) \in SUBSET Companies
  BY RosterAssumption DEF MayTag, RosterInv, RostersFit
<1>3. task \in RosterTask /\ TaskFits(task) /\ task.copy = None /\ task.op = "import"
  BY <1>1, <1>2 DEF Task, RosterTask, TaskFits
<1>4. Enqueued(task) /\ UNCHANGED previews
  BY DEF AsksImport
<1> HIDE DEF task
<1> QED BY <1>3, <1>4, EnqueuedKeeps

LEMMA PreviewsKeep ==
    ASSUME RosterInv, NEW b \in Bosses, NEW f \in FilesOf[b], AsksPreview(b, f)
    PROVE  RosterInv' /\ UNCHANGED people
<1> DEFINE shown == (UNION {FilesOf[c] : c \in Bosses}) \cup {None}
<1>1. previews \in [Bosses -> shown] /\ f \in shown /\ None \in shown
  BY DEF RosterInv, PreviewsFit
<1>2. /\ previews' = [previews EXCEPT ![b] = IF ImportFits(f, MayTag(b)) THEN f ELSE None]
      /\ UNCHANGED <<people, keptPeople, tasks, known, rosterDoubt, spent>>
  BY DEF AsksPreview
<1>3. previews' \in [Bosses -> shown]
  BY <1>1, <1>2
<1>4. \A c \in Bosses : previews'[c] \in FilesOf[c] \cup {None}
  BY <1>1, <1>2 DEF RosterInv, PreviewsFit
<1>5. PreviewsFit'
  BY <1>3, <1>4 DEF PreviewsFit
<1>6. IsABag(spent)'
  BY <1>2 DEF RosterInv
<1> QED BY <1>2, <1>5, <1>6, QuietKeeps

LEMMA CompaniesKeep ==
    ASSUME RosterInv, NEW co, CompanyGoes(co) PROVE RosterInv' /\ UNCHANGED people
<1>1. UNCHANGED <<people, keptPeople, tasks, previews, rosterDoubt>> /\ Spend("office") /\ known' \subseteq known
  BY DEF CompanyGoes
<1>2. IsABag(spent)'
  BY <1>1, SpentCounts DEF RosterInv
<1>3. PreviewsFit'
  BY <1>1 DEF RosterInv, PreviewsFit
<1> QED BY <1>1, <1>2, <1>3, QuietKeeps

\* What an import has come to has been written, or has come to nothing.
LEMMA LandingsKeep ==
    ASSUME RosterInv, NEW i \in DOMAIN tasks, TaskLands(i)
    PROVE  RosterInv' /\ OnRoster(people) \subseteq OnRoster(people') /\ Len(tasks') # Len(tasks)
<1> DEFINE a == tasks[i]
<1>1. /\ a \in RosterTask /\ ~Waits(i) /\ tasks' = Rest(i) /\ UNCHANGED <<known, spent>>
      /\ keptPeople' = a.copy /\ rosterDoubt' = FALSE
      /\ people' = IF a.op = "import" THEN a.copy ELSE people
      /\ previews' = IF a.op = "import" THEN [previews EXCEPT ![a.by] = None] ELSE previews
  BY DEF TaskLands, Waits, RosterInv, TasksFit
<1>2. /\ i = 1 /\ \A n \in DOMAIN tasks' : n + 1 \in DOMAIN tasks /\ tasks'[n] = tasks[n + 1]
      /\ \A n \in DOMAIN tasks' : Waits(n + 1) /\ Waits(n)'
      /\ TasksFit' /\ InTurn' /\ EditsInOrder' /\ CopiesFit' /\ Len(tasks') # Len(tasks)
  BY <1>1, RestFits DEF RosterInv
<1>3. /\ a.copy # None /\ Proper(a.copy) /\ (a.op # "import" => a.copy = people)
      /\ a.op = "import" => \A t \in OnRoster(people) : a.copy[t] = people[t]
      /\ a.op = "import" => \A j \in DOMAIN tasks : tasks[j].op = "edit" /\ people[tasks[j].id] = None
                                                    => a.copy[tasks[j].id] = None
  BY <1>1 DEF RosterInv, CopiesFit, CopyFits, Waits, IsEdit
<1>4. people' = a.copy /\ keptPeople' = a.copy /\ a.copy \in Rosters
  BY <1>1, <1>3 DEF RosterTask
<1>5. RostersFit'
  <2>1. (people \in Rosters)' /\ (keptPeople \in Rosters)' /\ (known \subseteq Companies)' /\ rosterDoubt' = FALSE
    BY <1>1, <1>4 DEF RosterInv, RostersFit, Rosters, Person
  <2>2. Proper(people') /\ Proper(keptPeople')
    BY <1>3, <1>4
  <2> QED BY <2>1, <2>2 DEF RostersFit, Proper, OnRoster
<1>6. PreviewsFit'
  <2> DEFINE shown == (UNION {FilesOf[c] : c \in Bosses}) \cup {None}
  <2>1. previews \in [Bosses -> shown] /\ None \in shown /\ a.by \in Bosses
    BY <1>1 DEF RosterInv, PreviewsFit, RosterTask
  <2>2. previews' \in [Bosses -> shown]
    BY <1>1, <2>1
  <2>3. \A c \in Bosses : previews'[c] \in FilesOf[c] \cup {None}
    BY <1>1, <2>1 DEF RosterInv, PreviewsFit
  <2> QED BY <2>2, <2>3 DEF PreviewsFit
<1>7. MemoryKept'
  BY <1>4 DEF MemoryKept
<1>8. AllTagsFit'
  <2> SUFFICES ASSUME NEW n \in DOMAIN tasks', tasks'[n].op = "edit", ~tasks'[n].behind, tasks'[n].tags # None,
                      people'[tasks'[n].id] # None
               PROVE  tasks'[n].tags \ CompaniesOf[tasks'[n].by]
                      = people'[tasks'[n].id].tags \ CompaniesOf[tasks'[n].by]
    BY DEF AllTagsFit, TagsFit, IsEdit, Waits
  <2>1. /\ n + 1 \in DOMAIN tasks /\ tasks'[n] = tasks[n + 1] /\ tasks[n + 1].copy = None
        /\ TagsFit(n + 1) /\ TaskFits(tasks[n + 1])
    BY <1>2 DEF RosterInv, AllTagsFit, TasksFit, Waits
  <2>2. tasks[n + 1].id \in PersonIds
    BY <2>1 DEF TaskFits
  <2>3. people[tasks[n + 1].id] # None
    BY <1>3, <1>4, <2>1
  <2>4. people'[tasks[n + 1].id] = people[tasks[n + 1].id]
    BY <1>3, <1>4, <2>2, <2>3 DEF OnRoster
  <2> QED BY <2>1, <2>3, <2>4 DEF TagsFit, IsEdit, Waits
<1>9. OnRoster(people) \subseteq OnRoster(people')
  BY <1>3, <1>4 DEF OnRoster
<1>10. IsABag(spent)'
  BY <1>1 DEF RosterInv
<1> QED BY <1>2, <1>5, <1>6, <1>7, <1>8, <1>9, <1>10 DEF RosterInv

\* A write leaves the queue without a change of the roster.
LEMMA LeavingKeeps ==
    ASSUME RosterInv, NEW i \in DOMAIN tasks, i = 1 \/ ~Waits(i), tasks' = Rest(i),
           UNCHANGED <<people, keptPeople, previews, known>>, IsABag(spent)',
           rosterDoubt' = (rosterDoubt \/ (~Waits(i) /\ tasks[i].op # "import"))
    PROVE  RosterInv' /\ Len(tasks') # Len(tasks)
<1>1. /\ i = 1 /\ \A n \in DOMAIN tasks' : n + 1 \in DOMAIN tasks /\ tasks'[n] = tasks[n + 1]
      /\ \A n \in DOMAIN tasks' : Waits(n + 1) /\ Waits(n)'
      /\ TasksFit' /\ InTurn' /\ EditsInOrder' /\ CopiesFit' /\ Len(tasks') # Len(tasks)
  BY RestFits DEF RosterInv
<1>2. RostersFit' /\ PreviewsFit'
  BY DEF RosterInv, RostersFit, PreviewsFit, Proper, OnRoster
<1>3. MemoryKept'
  <2> SUFFICES ASSUME ~rosterDoubt' PROVE people' = keptPeople'
    BY DEF MemoryKept
  <2>1. ~rosterDoubt /\ (tasks[i].copy = None \/ tasks[i].op = "import")
    BY DEF Waits
  <2>2. \A n \in DOMAIN tasks : tasks[n].copy = None \/ tasks[n].op = "import"
    <3>1. \A n \in DOMAIN tasks : n = i \/ n > 1
      BY <1>1 DEF RosterInv, TasksFit
    <3> QED BY <2>1, <3>1 DEF RosterInv, InTurn, Waits
  <2> QED BY <2>1, <2>2 DEF RosterInv, MemoryKept, Waits
<1>4. AllTagsFit'
  <2> SUFFICES ASSUME NEW n \in DOMAIN tasks' PROVE TagsFit(n)'
    BY DEF AllTagsFit
  <2>1. tasks'[n] = tasks[n + 1] /\ TagsFit(n + 1) /\ tasks[n + 1].copy = None
    BY <1>1 DEF RosterInv, AllTagsFit, Waits
  <2> QED BY <2>1 DEF TagsFit, IsEdit, Waits
<1> QED BY <1>1, <1>2, <1>3, <1>4 DEF RosterInv

LEMMA FailuresKeep ==
    ASSUME RosterInv, NEW i \in DOMAIN tasks, TaskFails(i)
    PROVE  RosterInv' /\ UNCHANGED people /\ Len(tasks') # Len(tasks)
<1>1. /\ ~Waits(i) /\ tasks' = Rest(i) /\ UNCHANGED <<people, keptPeople, previews, known>> /\ Spend("call")
      /\ rosterDoubt' = (rosterDoubt \/ (~Waits(i) /\ tasks[i].op # "import"))
  BY DEF TaskFails, Waits
<1>2. IsABag(spent)'
  BY <1>1, SpentCounts DEF RosterInv
<1> QED BY <1>1, <1>2, LeavingKeeps

\* A write that begins with a roster it has made: only the person it means
\* changes, and the tags of that person as the manager may change them.
LEMMA WritingKeeps ==
    ASSUME RosterInv, NEW made \in Made(tasks[1]), 1 \in DOMAIN tasks, Waits(1),
           people' = (IF tasks[1].op = "import" THEN people ELSE made),
           tasks' = [tasks EXCEPT ![1].copy = made],
           UNCHANGED <<keptPeople, previews, known, rosterDoubt, spent>>
    PROVE  RosterInv' /\ RosterStep
<1> DEFINE a == tasks[1]
<1>1. a \in RosterTask /\ TaskFits(a) /\ tasks \in Seq(RosterTask)
  BY DEF RosterInv, TasksFit
<1>2. people \in Rosters /\ Proper(people) /\ known \subseteq Companies /\ made \in Made(a)
  BY DEF RosterInv, RostersFit
<1> HIDE DEF a
<1>3. made \in Rosters /\ Proper(made)
  BY <1>1, <1>2, MadeFits
<1>4. a.op \in {"add", "import"} => \A t \in PersonIds \ Unused : made[t] = people[t]
  BY <1>1, <1>2, MadeFits
<1>5. a.op \in {"edit", "remove"} => \A t \in PersonIds \ {a.id} : made[t] = people[t]
  BY <1>1, <1>2, MadeFits
<1>6. a.op = "edit" => /\ people[a.id] # None /\ made[a.id] # None
                       /\ made[a.id].tags = IF a.tags = None THEN people[a.id].tags ELSE a.tags \cap known
  BY <1>1, <1>2, MadeFits
<1>7. made # None
  BY <1>3, RosterAssumption
<1>8. /\ DOMAIN tasks' = DOMAIN tasks /\ Len(tasks') = Len(tasks) /\ tasks' \in Seq(RosterTask)
      /\ \A n \in DOMAIN tasks : n # 1 => tasks'[n] = tasks[n]
      /\ tasks'[1] = [a EXCEPT !.copy = made]
  <2>1. [a EXCEPT !.copy = made] \in RosterTask
    BY <1>1, <1>3 DEF RosterTask
  <2>2. tasks' = [tasks EXCEPT ![1] = [a EXCEPT !.copy = made]]
    BY DEF a
  <2> QED BY <1>1, <2>1, <2>2
<1>9. /\ tasks'[1].copy = made /\ tasks'[1].op = a.op /\ tasks'[1].id = a.id /\ tasks'[1].by = a.by
      /\ tasks'[1].tags = a.tags /\ tasks'[1].behind = a.behind /\ tasks'[1].call = a.call
  BY <1>1, <1>8 DEF RosterTask
<1>10. \A n \in DOMAIN tasks : /\ tasks'[n].op = tasks[n].op /\ tasks'[n].id = tasks[n].id
                               /\ tasks'[n].by = tasks[n].by /\ tasks'[n].tags = tasks[n].tags
                               /\ tasks'[n].behind = tasks[n].behind /\ tasks'[n].call = tasks[n].call
  BY <1>8, <1>9 DEF a
<1>11. \A n \in DOMAIN tasks : tasks[n].copy = None
  <2>1. \A n \in DOMAIN tasks : n = 1 \/ n > 1
    BY <1>1
  <2> QED BY <2>1 DEF RosterInv, InTurn, Waits
\* What a waiting edit means is as it was, unless this write is an edit or a
\* removal of the same person.
<1>12. ASSUME NEW n \in DOMAIN tasks, tasks[n].op = "edit", ~(a.op \in {"edit", "remove"} /\ a.id = tasks[n].id)
       PROVE  made[tasks[n].id] = people[tasks[n].id]
  <2>1. tasks[n].id \in PersonIds
    BY <1>12 DEF RosterInv, TasksFit, TaskFits
  <2>2. tasks[n].id \notin Unused
    BY DEF Unused
  <2>3. a.op \in {"add", "edit", "remove", "import"}
    BY <1>1 DEF RosterTask
  <2> QED BY <1>4, <1>5, <1>12, <2>1, <2>2, <2>3
<1>13. RostersFit'
  <2>1. people' \in Rosters /\ Proper(people')
    BY <1>2, <1>3
  <2> QED BY <2>1 DEF RosterInv, RostersFit, Proper, OnRoster, Rosters, Person
<1>14. TasksFit'
  <2>1. \A n \in DOMAIN tasks' : tasks'[n] \in RosterTask
    BY <1>8
  <2>2. \A n \in DOMAIN tasks' : TaskFits(tasks'[n])
    BY <1>8, <1>10, <2>1 DEF RosterInv, TasksFit, TaskFits
  <2> QED BY <1>8, <2>2 DEF TasksFit, TaskFits
<1>15. InTurn'
  <2>1. \A n \in DOMAIN tasks' : n > 1 => tasks'[n].copy = None
    BY <1>8, <1>11
  <2> QED BY <2>1 DEF InTurn, Waits
<1>16. MemoryKept'
  <2>1. CASE a.op = "import"
    <3>1. \A n \in DOMAIN tasks : tasks[n].copy = None
      BY <1>11
    <3>2. ~rosterDoubt => people = keptPeople
      BY <3>1 DEF RosterInv, MemoryKept, Waits
    <3>3. people' = people
      BY <2>1 DEF a
    <3> QED BY <3>2, <3>3 DEF MemoryKept
  <2>2. CASE a.op # "import"
    <3>1. 1 \in DOMAIN tasks' /\ tasks'[1].copy # None /\ tasks'[1].op # "import"
      BY <1>7, <1>8, <1>9, <2>2
    <3> QED BY <3>1 DEF MemoryKept, Waits
  <2> QED BY <2>1, <2>2
<1>17. EditsInOrder'
  <2> SUFFICES ASSUME NEW k \in DOMAIN tasks', NEW n \in DOMAIN tasks', k < n, tasks'[k].op = "edit",
                      tasks'[n].op = "edit", tasks'[k].id = tasks'[n].id
               PROVE  tasks'[n].behind
    BY DEF EditsInOrder, IsEdit, Waits
  <2>1. k \in DOMAIN tasks /\ n \in DOMAIN tasks
    BY <1>8
  <2> QED BY <1>10, <1>11, <2>1 DEF RosterInv, EditsInOrder, IsEdit, Waits
<1>18. CopiesFit'
  <2> SUFFICES ASSUME NEW n \in DOMAIN tasks', tasks'[n].copy # None PROVE CopyFits(n)'
    BY DEF CopiesFit, CopyFits, Waits
  <2>1. n = 1
    BY <1>8, <1>11
  <2>2. Proper(made) /\ (a.op # "import" => people' = made)
    BY <1>3 DEF a
  <2>3. ASSUME a.op = "import" PROVE people' = people /\ \A t \in OnRoster(people) : made[t] = people[t]
    <3>1. OnRoster(people) \subseteq PersonIds \ Unused
      BY DEF OnRoster, Unused
    <3> QED BY <1>4, <2>3, <3>1 DEF a
  <2>4. ASSUME a.op = "import", NEW j \in DOMAIN tasks', tasks'[j].op = "edit", people[tasks'[j].id] = None
        PROVE  made[tasks'[j].id] = None
    <3>1. j \in DOMAIN tasks /\ tasks[j].op = "edit" /\ tasks'[j].id = tasks[j].id
      BY <1>8, <1>10, <2>4
    <3>2. made[tasks[j].id] = people[tasks[j].id]
      BY <1>12, <2>4, <3>1
    <3> QED BY <2>4, <3>1, <3>2
  <2>5. Proper(made)'
    BY <2>2 DEF Proper, OnRoster
  <2>6. tasks'[n].copy = made /\ tasks'[n].op = a.op
    BY <1>9, <2>1
  <2>7. /\ Proper(tasks'[n].copy) /\ (tasks'[n].op # "import" => tasks'[n].copy = people')
        /\ tasks'[n].op = "import" => \A t \in OnRoster(people') : tasks'[n].copy[t] = people'[t]
    BY <2>2, <2>3, <2>6
  <2>8. tasks'[n].op = "import" =>
           \A j \in DOMAIN tasks' : tasks'[j].op = "edit" /\ people'[tasks'[j].id] = None
                                    => tasks'[n].copy[tasks'[j].id] = None
    BY <2>3, <2>4, <2>6
  <2> QED BY <2>5, <2>7, <2>8 DEF CopyFits, Waits, IsEdit, OnRoster, Proper
<1>19. AllTagsFit'
  <2> SUFFICES ASSUME NEW n \in DOMAIN tasks', tasks'[n].op = "edit", tasks'[n].copy = None,
                      ~tasks'[n].behind, tasks'[n].tags # None, people'[tasks'[n].id] # None
               PROVE  tasks'[n].tags \ CompaniesOf[tasks'[n].by]
                      = people'[tasks'[n].id].tags \ CompaniesOf[tasks'[n].by]
    BY DEF AllTagsFit, TagsFit, IsEdit, Waits
  <2>1. n \in DOMAIN tasks /\ n # 1 /\ tasks'[n] = tasks[n] /\ TagsFit(n)
    BY <1>7, <1>8, <1>9 DEF RosterInv, AllTagsFit
  <2>2. ~(a.op = "edit" /\ a.id = tasks[n].id)
    <3>1. 1 < n
      BY <1>1, <2>1
    <3> QED BY <2>1, <3>1 DEF a, RosterInv, EditsInOrder, IsEdit
  <2>3. people'[tasks[n].id] = people[tasks[n].id]
    <3>1. CASE a.op = "import"
      BY <3>1 DEF a
    <3>2. CASE a.op = "remove" /\ a.id = tasks[n].id
      <4>1. made[a.id] = None
        BY <1>1, <3>2, <1>2 DEF Made, TaskFits, Rosters
      <4>2. people' = made
        BY <3>2 DEF a
      <4> QED BY <2>1, <3>2, <4>1, <4>2
    <3>3. CASE a.op # "import" /\ ~(a.op = "remove" /\ a.id = tasks[n].id)
      <4>1. people' = made
        BY <3>3 DEF a
      <4>2. made[tasks[n].id] = people[tasks[n].id]
        BY <1>12, <2>1, <2>2, <3>3
      <4> QED BY <4>1, <4>2
    <3> QED BY <3>1, <3>2, <3>3
  <2> QED BY <1>11, <2>1, <2>3 DEF TagsFit, IsEdit, Waits
<1>20. PreviewsFit' /\ IsABag(spent)'
  BY DEF RosterInv, PreviewsFit
<1>21. RosterStep
  <2>1. ASSUME NEW t \in OnRoster(people) \ OnRoster(people') PROVE SomeoneLeaves(t)
    <3>1. t \in PersonIds /\ people[t] # None /\ people'[t] = None /\ t \notin Unused
      BY DEF OnRoster, Unused
    <3>2. a.op # "import" /\ people' = made
      BY <3>1 DEF a
    <3>3. a.op \in {"add", "edit", "remove", "import"}
      BY <1>1 DEF RosterTask
    <3>4. a.op = "remove" /\ a.id = t
      BY <1>4, <1>5, <1>6, <3>1, <3>2, <3>3
    <3> QED BY <3>4 DEF a, SomeoneLeaves
  <2>2. ASSUME NEW n \in DOMAIN tasks, NEW t \in OnRoster(people) \cap OnRoster(people'), tasks[n].op = "edit",
               tasks[n].id = t, ~tasks[n].behind
        PROVE  people[t].tags \cap (known \ CompaniesOf[tasks[n].by])
               = people'[t].tags \cap (known \ CompaniesOf[tasks[n].by])
    <3>1. t \in PersonIds /\ people[t] # None /\ people'[t] # None
      BY DEF OnRoster
    <3>2. CASE a.op = "import"
      BY <3>2 DEF a
    <3>3. CASE a.op # "import" /\ ~(a.op = "edit" /\ a.id = t)
      <4>1. people' = made
        BY <3>3 DEF a
      <4>2. CASE a.op = "remove" /\ a.id = t
        <5>1. made[t] = None
          BY <1>1, <4>2, <1>2 DEF Made, TaskFits, Rosters
        <5> QED BY <3>1, <4>1, <5>1
      <4>3. CASE ~(a.op = "remove" /\ a.id = t)
        <5>1. made[t] = people[t]
          BY <1>12, <2>2, <3>3, <4>3
        <5> QED BY <4>1, <5>1
      <4> QED BY <4>2, <4>3
    <3>4. CASE a.op = "edit" /\ a.id = t
      <4>1. n = 1
        <5>1. n = 1 \/ 1 < n
          BY <1>1
        <5> QED BY <2>2, <3>4, <5>1 DEF a, RosterInv, EditsInOrder, IsEdit
      <4>2. people' = made /\ made[t].tags = IF a.tags = None THEN people[t].tags ELSE a.tags \cap known
        BY <1>6, <3>4 DEF a
      <4>3. a.tags # None => a.tags \ CompaniesOf[a.by] = people[t].tags \ CompaniesOf[a.by]
        BY <2>2, <3>1, <4>1 DEF a, RosterInv, AllTagsFit, TagsFit, IsEdit
      <4>4. a.by = tasks[n].by
        BY <4>1 DEF a
      <4> QED BY <4>2, <4>3, <4>4
    <3> QED BY <3>2, <3>3, <3>4
  <2>3. \A n \in DOMAIN tasks, t \in OnRoster(people) \cap OnRoster(people') : TagsStay(n, t)
    BY <2>2 DEF TagsStay
  <2> QED BY <2>1, <2>3 DEF RosterStep
<1> QED BY <1>13, <1>14, <1>15, <1>16, <1>17, <1>18, <1>19, <1>20, <1>21 DEF RosterInv

LEMMA BeginningsKeep ==
    ASSUME RosterInv, NEW i \in DOMAIN tasks, TaskBegins(i)
    PROVE  RosterInv' /\ RosterStep
<1>1. /\ i = 1 /\ tasks[1].copy = None /\ Waits(1) /\ 1 \in DOMAIN tasks
      /\ UNCHANGED <<keptPeople, previews, known, rosterDoubt, spent>>
  BY DEF TaskBegins, MayBegin, Waits
<1>2. CASE \E made \in Made(tasks[1]) :
             /\ people' = IF tasks[1].op = "import" THEN people ELSE made
             /\ tasks' = [tasks EXCEPT ![1].copy = made]
  <2>1. PICK made \in Made(tasks[1]) :
             /\ people' = IF tasks[1].op = "import" THEN people ELSE made
             /\ tasks' = [tasks EXCEPT ![1].copy = made]
    BY <1>2
  <2> QED BY <1>1, <2>1, WritingKeeps
<1>3. CASE tasks' = Rest(i) /\ UNCHANGED people
  <2>1. rosterDoubt' = (rosterDoubt \/ (~Waits(i) /\ tasks[i].op # "import"))
    BY <1>1 DEF RosterInv, RostersFit
  <2>2. IsABag(spent)'
    BY <1>1 DEF RosterInv
  <2>3. RosterInv' /\ Len(tasks') # Len(tasks)
    BY <1>1, <1>3, <2>1, <2>2, LeavingKeeps
  <2> QED BY <1>3, <2>3 DEF RosterStep, TagsStay
<1> QED BY <1>1, <1>2, <1>3 DEF TaskBegins

LEMMA RosterRestarts == ASSUME RosterInv, RosterCrash PROVE RosterInv' /\ RosterStep
<1>1. /\ people' = keptPeople /\ tasks' = << >> /\ rosterDoubt' = FALSE /\ Spend("crash")
      /\ UNCHANGED <<keptPeople, previews, known>>
  BY DEF RosterCrash
<1>2. IsABag(spent)' /\ Happened("crash")' # Happened("crash")
  BY <1>1, SpentCounts DEF RosterInv
<1>3. tasks' \in Seq(RosterTask) /\ Len(tasks') = 0 /\ DOMAIN tasks' = {}
  BY <1>1
<1>4. TasksFit' /\ InTurn' /\ EditsInOrder' /\ CopiesFit' /\ AllTagsFit'
  BY <1>3 DEF TasksFit, InTurn, EditsInOrder, CopiesFit, AllTagsFit
<1>5. RostersFit' /\ PreviewsFit' /\ MemoryKept'
  BY <1>1 DEF RosterInv, RostersFit, PreviewsFit, MemoryKept, Proper, OnRoster
<1>6. \A t : SomeoneLeaves(t)
  BY <1>2 DEF SomeoneLeaves
<1>7. \A i \in DOMAIN tasks : Len(tasks') # Len(tasks)
  BY <1>3 DEF RosterInv, TasksFit
<1> QED BY <1>2, <1>4, <1>5, <1>6, <1>7 DEF RosterInv, RosterStep, TagsStay

LEMMA RosterStarts == RosterInit /\ NothingSpent => RosterInv
<1> SUFFICES ASSUME RosterInit, NothingSpent PROVE RosterInv
  OBVIOUS
<1>1. people \in Rosters /\ Proper(people) /\ keptPeople = people /\ known = Companies /\ rosterDoubt = FALSE
  BY DEF RosterInit
<1>2. tasks = << >> /\ tasks \in Seq(RosterTask) /\ DOMAIN tasks = {}
  BY DEF RosterInit
<1>3. IsABag(spent)
  BY DEF NothingSpent, EmptyBag, IsABag, SetToBag
<1>4. PreviewsFit
  <2> DEFINE shown == (UNION {FilesOf[c] : c \in Bosses}) \cup {None}
  <2>1. previews = [b \in Bosses |-> None] /\ None \in shown
    BY DEF RosterInit
  <2>2. previews \in [Bosses -> shown]
    BY <2>1
  <2> QED BY <2>1, <2>2 DEF PreviewsFit
<1>5. TasksFit /\ InTurn /\ EditsInOrder /\ CopiesFit /\ AllTagsFit
  BY <1>2 DEF TasksFit, InTurn, EditsInOrder, CopiesFit, AllTagsFit
<1> QED BY <1>1, <1>3, <1>4, <1>5 DEF RosterInv, RostersFit, MemoryKept

LEMMA RosterSteps == ASSUME RosterInv, RosterNext PROVE RosterInv' /\ RosterStep
<1>1. ASSUME NEW b \in Bosses, NEW call \in Callings, NEW tags \in TagChoices, AsksAdd(b, call, tags)
      PROVE  RosterInv' /\ RosterStep
  BY <1>1, AddsKeep DEF RosterStep, TagsStay
<1>2. ASSUME NEW b \in Bosses, NEW t \in PersonIds, NEW call \in Callings, AsksEdit(b, t, call, None)
      PROVE  RosterInv' /\ RosterStep
  <2>1. call \in Callings \cup {None} /\ None \in TagChoices \cup {None}
    OBVIOUS
  <2>2. RosterInv' /\ OnRoster(people') = OnRoster(people) /\ Len(tasks') # Len(tasks)
    BY <1>2, <2>1, EditsKeep
  <2> QED BY <2>2 DEF RosterStep, TagsStay
<1>3. ASSUME NEW b \in Bosses, NEW t \in PersonIds, NEW tags \in TagChoices, AsksEdit(b, t, None, tags)
      PROVE  RosterInv' /\ RosterStep
  <2>1. None \in Callings \cup {None} /\ tags \in TagChoices \cup {None}
    OBVIOUS
  <2>2. RosterInv' /\ OnRoster(people') = OnRoster(people) /\ Len(tasks') # Len(tasks)
    BY <1>3, <2>1, EditsKeep
  <2> QED BY <2>2 DEF RosterStep, TagsStay
<1>4. ASSUME NEW b \in Bosses, NEW f \in FilesOf[b], AsksPreview(b, f) PROVE RosterInv' /\ RosterStep
  <2>1. RosterInv' /\ people' = people
    BY <1>4, PreviewsKeep
  <2> QED BY <2>1 DEF RosterStep, TagsStay
<1>5. ASSUME NEW b \in Bosses, AsksImport(b) PROVE RosterInv' /\ RosterStep
  BY <1>5, ImportsKeep DEF RosterStep, TagsStay
<1>6. ASSUME NEW t \in PersonIds, AsksRemove(t) PROVE RosterInv' /\ RosterStep
  BY <1>6, RemovalsKeep DEF RosterStep, TagsStay
<1>7. ASSUME NEW i \in DOMAIN tasks, TaskLands(i) PROVE RosterInv' /\ RosterStep
  BY <1>7, LandingsKeep DEF RosterStep, TagsStay
<1>8. ASSUME NEW i \in DOMAIN tasks, TaskFails(i) PROVE RosterInv' /\ RosterStep
  <2>1. RosterInv' /\ people' = people
    BY <1>8, FailuresKeep
  <2> QED BY <2>1 DEF RosterStep, TagsStay
<1>9. ASSUME NEW co \in Companies, CompanyGoes(co) PROVE RosterInv' /\ RosterStep
  <2>1. RosterInv' /\ people' = people
    BY <1>9, CompaniesKeep
  <2> QED BY <2>1 DEF RosterStep, TagsStay
<1> QED BY <1>1, <1>2, <1>3, <1>4, <1>5, <1>6, <1>7, <1>8, <1>9, BeginningsKeep, RosterRestarts DEF RosterNext

LEMMA RosterStutters == ASSUME RosterInv, UNCHANGED <<rosterVars, spent>> PROVE RosterInv' /\ RosterStep
<1>1. UNCHANGED <<people, keptPeople, tasks, previews, known, rosterDoubt, spent>>
  BY DEF rosterVars
<1>2. PreviewsFit' /\ IsABag(spent)'
  BY <1>1 DEF RosterInv, PreviewsFit
<1>3. RosterInv'
  BY <1>1, <1>2, QuietKeeps
<1> QED BY <1>1, <1>3 DEF RosterStep, TagsStay

LEMMA RosterIsInductive == RosterSpec => []RosterInv
<1>1. RosterInit /\ NothingSpent => RosterInv
  BY RosterStarts
<1>2. RosterInv /\ [RosterNext]_<<rosterVars, spent>> => RosterInv'
  BY RosterSteps, RosterStutters
<1> QED BY <1>1, <1>2, PTL DEF RosterSpec

----------------------------------------------------------------------------
(* The roster: theorems *)

\* The variables of the roster keep their types (settings.ts, the technicians'
\* routes and their queue).
THEOREM RosterTypeCorrect == RosterSpec => []RosterTypeOK
<1>1. RosterInv => RosterTypeOK
  <2> SUFFICES ASSUME RosterInv PROVE RosterTypeOK
    OBVIOUS
  <2>1. \A i \in DOMAIN tasks : tasks[i] \in RosterTask
    BY DEF RosterInv, TasksFit
  <2>2. \A i \in DOMAIN tasks : tasks[i].by \in Bosses /\ tasks[i].id \in PersonIds \cup {None}
    BY <2>1 DEF RosterTask
  <2> QED BY <2>2 DEF RosterInv, RostersFit, PreviewsFit, RosterTypeOK
<1> QED BY <1>1, RosterIsInductive, PTL

\* Whatever managers ask for at once, and wherever the server fails or restarts:
\* no name and title twice and not too many people, in memory or repository;
\* the two agree when nothing is under way; nobody leaves the roster but by a
\* removal; and an edit leaves the tags of other companies alone (writeRoster
\* in settings.ts).
THEOREM RosterStaysRightAlways == RosterSpec => RosterStaysRight
<1> DEFINE Stays == \A t \in OnRoster(people) \ OnRoster(people') :
                       \/ \E i \in DOMAIN tasks : tasks[i].op = "remove" /\ tasks[i].id = t
                       \/ Happened("crash")' # Happened("crash")
           Outside == \A i \in DOMAIN tasks, t \in OnRoster(people) \cap OnRoster(people') :
                         /\ tasks[i].op = "edit" /\ tasks[i].id = t /\ tasks[i].copy = None
                         /\ Len(tasks') = Len(tasks) /\ ~tasks[i].behind
                         => people[t].tags \cap (known \ CompaniesOf[tasks[i].by])
                            = people'[t].tags \cap (known \ CompaniesOf[tasks[i].by])
<1>1. RosterInv => NobodyTwice /\ RosterIsKept
  <2> SUFFICES ASSUME RosterInv PROVE NobodyTwice /\ RosterIsKept
    OBVIOUS
  <2>1. ASSUME tasks = << >>, ~rosterDoubt PROVE people = keptPeople
    <3>1. DOMAIN tasks = {}
      BY <2>1
    <3> QED BY <2>1, <3>1 DEF RosterInv, MemoryKept
  <2> QED BY <2>1 DEF RosterInv, RostersFit, NobodyTwice, RosterIsKept
<1>2. RosterInv /\ [RosterNext]_<<rosterVars, spent>> => Stays /\ Outside
  BY RosterSteps, RosterStutters DEF RosterStep, SomeoneLeaves, TagsStay
<1>3. RosterInv /\ [RosterNext]_<<rosterVars, spent>> => [Stays]_rosterVars
  BY <1>2
<1>4. RosterInv /\ [RosterNext]_<<rosterVars, spent>> => [Outside]_rosterVars
  BY <1>2
<1> QED BY <1>1, <1>3, <1>4, RosterIsInductive, PTL
    DEF RosterSpec, RosterStaysRight, EveryoneStays, TagsOutsideScopeStay
=============================================================================
