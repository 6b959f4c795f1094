--------------------------- MODULE LinkedAccounts ---------------------------
(***************************************************************************)
(* The accounts the server acts with: the Microsoft work account, the      *)
(* Google account and the Google service account's key.  Each is a value   *)
(* in memory, the same value in the settings repository, and an access     *)
(* token that is fetched when somebody needs it, once for all who wait.    *)
(* Who needs a token of Google asks with the key first, and with the       *)
(* account only when there is no key or it does not answer.  Signing in    *)
(* and out, and the end of a fetch, change memory at once and write the    *)
(* repository after it.                                                    *)
(*                                                                         *)
(* What is abstracted: a grant stands for an account with its refresh      *)
(* token, or for a key, rotation and the seal included; the browser's way  *)
(* to the consent page and back is one step, for a state that a restart or *)
(* the time limit has removed is turned away before anything else; the key *)
(* is not in the environment, which would overrule all of this.            *)
(***************************************************************************)
EXTENDS Common

CONSTANTS
    Services,  \* a subset of {"microsoft", "google", "key"}
    Grants,    \* what a sign-in obtains
    Admins     \* managers who sign in and out

ASSUME LinkedAccountsAssumption ==
    /\ Services \subseteq {"microsoft", "google", "key"}
    /\ Admins \cap Services = {}
    /\ None \notin Grants \cup Services

\* A manager works on one service; the refresh of a service is its own actor.
Actors == Admins \cup Services

Work == [ stage   : {"idle", "asking", "saving"},
          service : Services \cup {None},
          grant   : Grants \cup {None} ]

VARIABLES
    account,  \* the account in memory
    stored,   \* the account in the repository
    token,    \* whose access token is cached
    work,     \* what each actor awaits: an answer of the provider, or the repository
    revoked,  \* grants the provider takes no longer
    doubtful  \* services whose account changed under somebody else's answer or write

linkedVars == <<account, stored, token, work, revoked, doubtful>>

IdleWork == [stage |-> "idle", service |-> None, grant |-> None]

LinkedTypeOK ==
    /\ account \in [Services -> Grants \cup {None}]
    /\ stored \in [Services -> Grants \cup {None}]
    /\ token \in [Services -> Grants \cup {None}]
    /\ work \in [Actors -> Work]
    /\ revoked \subseteq Grants
    /\ doubtful \subseteq Services

LinkedInit ==
    /\ account \in [Services -> Grants \cup {None}]
    /\ stored = account
    /\ token = [s \in Services |-> None]
    /\ work = [a \in Actors |-> IdleWork]
    /\ revoked = {}
    /\ doubtful = {}

\* Actor a changes the account of s while another one has yet to write it, or
\* while a token of the account before is on its way.
Doubt(a, s) ==
    doubtful' = doubtful \cup
        {r \in {s} : \E b \in Actors \ {a} :
            work[b].service = s /\ (work[b].stage = "saving" \/ b \in Services)}

\* Memory holds grant g from now on, and the repository is told.
Adopt(a, s, g) ==
    /\ account' = [account EXCEPT ![s] = g]
    /\ work' = [work EXCEPT ![a] = [stage |-> "saving", service |-> s, grant |-> g]]
    /\ Doubt(a, s)

----------------------------------------------------------------------------
(* Signing in and out *)

\* completeSignIn has redeemed the state, saveServiceAccount tries the key.
SignInAsks(a, s, g) ==
    /\ work[a].stage = "idle"
    /\ Spend("signin")
    /\ work' = [work EXCEPT ![a] = [stage |-> "asking", service |-> s, grant |-> g]]
    /\ UNCHANGED <<account, stored, token, revoked, doubtful>>

\* Mutant: the token of the account before stays cached.
FirstToken_Kept(s, g) == token[s]

\* The token a sign-in leaves: that of a key is fetched when it is needed.
FirstToken(s, g) == IF s = "key" THEN None ELSE g

SignInAnswered(a) ==
    LET w == work[a] IN
    /\ a \in Admins /\ w.stage = "asking"
    /\ Adopt(a, w.service, w.grant)
    /\ token' = [token EXCEPT ![w.service] = FirstToken(w.service, w.grant)]
    /\ UNCHANGED <<stored, revoked, spent>>

\* signOut and clearServiceAccount.
SignOut(a, s) ==
    /\ work[a].stage = "idle"
    /\ Spend("signout")
    /\ Adopt(a, s, None)
    /\ token' = [token EXCEPT ![s] = None]
    /\ UNCHANGED <<stored, revoked>>

Saved(a) == work[a].grant

SaveLands(a) ==
    /\ work[a].stage = "saving"
    /\ stored' = [stored EXCEPT ![work[a].service] = Saved(a)]
    /\ work' = [work EXCEPT ![a] = IdleWork]
    /\ UNCHANGED <<account, token, revoked, doubtful, spent>>

\* What the fetch of a token of s asks with.
AskingFor(s) == [stage |-> "asking", service |-> s, grant |-> account[s]]

\* Actor a is through without an answer: who asked with the key asks with the
\* Google account now, if there is one, no token of it is left and nobody asks.
Unanswered(a) ==
    IF /\ a = "key" /\ "google" \in Services
       /\ account["google"] # None /\ token["google"] = None /\ work["google"].stage = "idle"
    THEN [work EXCEPT ![a] = IdleWork, !["google"] = AskingFor("google")]
    ELSE [work EXCEPT ![a] = IdleWork]

\* The provider or the repository does not answer as hoped; memory stays.
CallFails(a) ==
    /\ work[a].stage # "idle"
    /\ Spend("call")
    /\ work' = Unanswered(a)
    /\ doubtful' = IF work[a].stage = "saving" THEN doubtful \cup {work[a].service} ELSE doubtful
    /\ UNCHANGED <<account, stored, token, revoked>>

----------------------------------------------------------------------------
(* accessToken and serviceAccountToken *)

NoKey == "key" \in Services => account["key"] = None

\* Somebody needs a token, none is cached, and no fetch is under way to join.
RefreshAsks(s) ==
    /\ account[s] # None /\ token[s] = None /\ work[s].stage = "idle"
    /\ s = "google" => NoKey
    /\ work' = [work EXCEPT ![s] = AskingFor(s)]
    /\ UNCHANGED <<account, stored, token, revoked, doubtful, spent>>

\* The token is cached whoever is signed in by now.  Microsoft may hand out a
\* new refresh token with it: then the account it was asked for is put back.
RefreshAnswered(s) ==
    LET w == work[s] IN
    /\ w.stage = "asking" /\ w.grant \notin revoked
    /\ token' = [token EXCEPT ![s] = w.grant]
    /\ \/ s = "microsoft" /\ Adopt(s, s, w.grant)
       \/ /\ work' = [work EXCEPT ![s] = IdleWork]
          /\ UNCHANGED <<account, doubtful>>
    /\ UNCHANGED <<stored, revoked, spent>>

\* Mutant: a refused account stays as it is.
Forgets_None(s) == FALSE

\* Who is signed out by a refusal: a key that is refused stays on the screen.
Forgets(s) == s # "key"

\* invalid_grant: whoever is signed in by now is signed out.
RefreshRefused(s) ==
    LET w == work[s] IN
    /\ w.stage = "asking" /\ w.grant \in revoked
    /\ IF Forgets(s)
       THEN Adopt(s, s, None) /\ token' = [token EXCEPT ![s] = None]
       ELSE work' = Unanswered(s) /\ UNCHANGED <<account, token, doubtful>>
    /\ UNCHANGED <<stored, revoked, spent>>

\* The token's time has passed.
TokenExpires(s) ==
    /\ token[s] # None
    /\ token' = [token EXCEPT ![s] = None]
    /\ UNCHANGED <<account, stored, work, revoked, doubtful, spent>>

\* A password is changed, a consent withdrawn, a key deleted.
Revoke(g) ==
    /\ g \notin revoked
    /\ Spend("revoke")
    /\ revoked' = revoked \cup {g}
    /\ UNCHANGED <<account, stored, token, work, doubtful>>

\* The process ends and starts again: load.
LinkedCrash ==
    /\ Spend("crash")
    /\ account' = stored
    /\ token' = [s \in Services |-> None]
    /\ work' = [a \in Actors |-> IdleWork]
    /\ doubtful' = {}
    /\ UNCHANGED <<stored, revoked>>

----------------------------------------------------------------------------
RefreshEnds(s) == RefreshAnswered(s) \/ RefreshRefused(s)

LinkedNext ==
    \/ \E a \in Admins, s \in Services :
          (\E g \in Grants : SignInAsks(a, s, g)) \/ SignOut(a, s)
    \/ \E a \in Admins : SignInAnswered(a)
    \/ \E a \in Actors : SaveLands(a) \/ CallFails(a)
    \/ \E s \in Services : RefreshAsks(s) \/ RefreshEnds(s) \/ TokenExpires(s)
    \/ \E g \in Grants : Revoke(g)
    \/ LinkedCrash

\* Tokens expire, and what is awaited is answered.  Nothing in the server asks
\* for tokens by itself: Microsoft's are for a master's lookups, Google's for
\* the syncs of linked sheets.
LinkedFairness ==
    /\ \A a \in Admins : WF_<<linkedVars, spent>>(SignInAnswered(a))
    /\ \A a \in Actors : WF_<<linkedVars, spent>>(SaveLands(a))
    /\ \A s \in Services : /\ WF_<<linkedVars, spent>>(RefreshEnds(s))
                           /\ WF_<<linkedVars, spent>>(TokenExpires(s))

LinkedSpec == LinkedInit /\ NothingSpent /\ [][LinkedNext]_<<linkedVars, spent>> /\ LinkedFairness

----------------------------------------------------------------------------
(* Properties *)

\* The token the server calls Graph and Google with is one of the account the
\* settings screen shows, whatever signs in, signs out or is refused meanwhile,
\* unless an account changed while a fetch for the one before was under way.
TokensFitAccounts ==
    \A s \in Services \ doubtful : token[s] # None => token[s] = account[s]

\* A restart brings back the account that was in use: nobody who signed out
\* returns and nobody who signed in is lost, unless a write was under way,
\* rejected, or overtaken by another one.
RestartsKeepAccounts ==
    \A s \in Services \ doubtful :
        (\A a \in Actors : work[a].service = s => work[a].stage # "saving")
        => stored[s] = account[s]

\* What Graph and Google are called with, what the settings screen shows and
\* what a restart finds are one account.
LinkedAccountsAgree == TokensFitAccounts /\ RestartsKeepAccounts

\* Somebody goes on needing the tokens of s.
GoOnAsking(s) == WF_<<linkedVars, spent>>(RefreshAsks(s))

\* Google is not asked about the linked account while the key answers.
KeyServes == "key" \in Services /\ account["key"] \in Grants \ revoked

\* As long as somebody goes on needing tokens, an account the provider takes no
\* longer is not left on the screen claiming to be connected
\* (microsoft-account.ts, accessToken), unless it is a Google account whose
\* place the key has taken.
RevokedAreForgotten ==
    (\A s \in Services : GoOnAsking(s))
    => /\ <>[]("microsoft" \in Services => account["microsoft"] \notin revoked)
       /\ <>[]("google" \in Services => account["google"] \notin revoked \/ KeyServes)
=============================================================================
