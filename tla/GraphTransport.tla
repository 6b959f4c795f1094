--------------------------- MODULE GraphTransport ---------------------------
(***************************************************************************)
(* The client of Microsoft Graph: calls that make a folder path, upload a  *)
(* small or a large file, list a folder or look up the library behind a    *)
(* Teams channel.  A call is a series of requests; every request carries   *)
(* an app token (cached for all calls of the client) and is tried again    *)
(* while Graph throttles it, fails or does not answer at all.  Graph may   *)
(* have done what a request asked for although its answer never comes.     *)
(*                                                                         *)
(* What is abstracted: bytes (a large file is a number of pieces), the     *)
(* pauses between tries (time passes in TimePasses), and everything a     *)
(* listing says of a file but its name.                                    *)
(***************************************************************************)
EXTENDS Common

CONSTANTS
    Calls,       \* calls of the client
    WorksOf,     \* per call, what it may be for
    FileNames,   \* names in the folder
    LateNames,   \* names a listing has on its second page
    Levels,      \* folders on the path
    Pieces,      \* pieces of a large file
    MaxRetries,  \* MAX_RETRIES
    Lifetime     \* how old a token Graph still takes; none is sent first at that age

ASSUME GraphTransportAssumption ==
    /\ LateNames \subseteq FileNames
    /\ Levels \in Nat \ {0} /\ Pieces \in Nat \ {0}
    /\ MaxRetries \in Nat /\ Lifetime \in Nat

Works == {"folder", "small", "large", "listing", "target"}

ASSUME WorksAssumption == WorksOf \in [Calls -> SUBSET Works]

VARIABLES
    library,  \* per name, the call whose whole content it has, "hand", or None
    made,     \* how many folders of the path there are
    cached,   \* the age of the cached token, or None
    calls,    \* per call what it does, or None before it starts
    excused   \* calls that met something no retry can mend

transportVars == <<library, made, cached, calls, excused>>

Needs == {"create", "existing",                          \* ensureFolderPath
          "put",                                         \* uploadContent
          "session", "piece",                            \* uploadFile
          "page",                                        \* listChildren
          "teams", "channels", "filesFolder",            \* resolveTeamsStorageTarget
          "teamSite", "driveRoot", "channelFolder"}      \* resolveSiteId

\* A call: the request it needs next, the level, piece or page that is for,
\* the token it carries, the tries before this one, what Graph has of its
\* upload session, what a listing has found, and what was there all along.
Call == [ work    : Works,
          name    : FileNames \cup {None},
          need    : Needs,
          at      : {"start", "token", "sent", "done", "failed"},
          n       : 1 .. (Levels + Pieces + 2),
          token   : 0 .. (Lifetime + 1) \cup {None},
          attempt : 0 .. MaxRetries,
          unanswered : 0 .. (MaxRetries + 1),   \* tries Graph failed to answer
          refused : 0 .. 3,                     \* sources of the site id that failed
          got     : 0 .. Pieces,
          found   : SUBSET FileNames,
          there   : SUBSET FileNames ]

ASSUME CallsAssumption ==
    /\ None \notin Calls \cup Call \cup FileNames
    /\ "hand" \notin Calls \cup {None} /\ None # "others"

TransportTypeOK ==
    /\ library \in [FileNames -> Calls \cup {None, "hand"}]
    /\ made \in 0 .. Levels
    /\ cached \in 0 .. Lifetime \cup {None}
    /\ calls \in [Calls -> Call \cup {None}]
    /\ excused \subseteq Calls

TransportInit ==
    /\ library = [f \in FileNames |-> None]
    /\ made \in 0 .. Levels
    /\ cached = None
    /\ calls = [c \in Calls |-> None]
    /\ excused = {}

Present == {f \in FileNames : library[f] # None}

----------------------------------------------------------------------------
(* A call and its requests *)

FirstNeed(w) == CASE w = "folder"  -> "create"
                  [] w = "small"   -> "put"
                  [] w = "large"   -> "session"
                  [] w = "listing" -> "page"
                  [] w = "target"  -> "teams"

\* An upload has a name, and its caller has made the folder.
StartCall(c, w, f) ==
    /\ calls[c] = None /\ w \in WorksOf[c]
    /\ (w \in {"small", "large"}) <=> (f # None)
    /\ f # None => made = Levels
    /\ calls' = [calls EXCEPT ![c] =
         [ work |-> w, name |-> f, need |-> FirstNeed(w), at |-> "start", n |-> 1,
           token |-> None, attempt |-> 0, unanswered |-> 0, refused |-> 0,
           got |-> 0, found |-> {}, there |-> IF w = "listing" THEN Present ELSE {} ]]
    /\ UNCHANGED <<library, made, cached, excused, spent>>

\* The call goes on with another request.
Turns(r, need, n) ==
    [r EXCEPT !.need = need, !.n = n, !.at = "start", !.token = None,
              !.attempt = 0, !.unanswered = 0]
Ends(r, how) ==
    [r EXCEPT !.at = how, !.n = 1, !.token = None, !.attempt = 0, !.unanswered = 0,
              !.refused = 0, !.got = 0]

\* The request is sent with the cached token; pieces go to an address that
\* needs none.  The first try and all later ones carry the same token.
Send(c) ==
    /\ calls[c] # None /\ calls[c].at = "start"
    /\ calls' = [calls EXCEPT ![c] =
         IF @.need = "piece" THEN [@ EXCEPT !.at = "sent"]
         ELSE IF cached # None
              THEN [@ EXCEPT !.at = "sent", !.token = cached]
         ELSE [@ EXCEPT !.at = "token"]]
    /\ UNCHANGED <<library, made, cached, excused, spent>>

TokenIssued(c) ==
    /\ calls[c] # None /\ calls[c].at = "token"
    /\ cached' = 0
    /\ calls' = [calls EXCEPT ![c].at = "sent", ![c].token = 0,
                              ![c].attempt = 0, ![c].unanswered = 0]
    /\ UNCHANGED <<library, made, excused, spent>>

\* What the call does when a request is refused: the folder that is already
\* there need not be readable, and a source of the site id gives way to the
\* next one.
AfterRefusal(r) ==
    CASE r.at = "token" /\ r.need \notin {"teamSite", "driveRoot"} -> Ends(r, "failed")
      [] r.at # "token" /\ r.need = "existing" ->
           IF r.n < Levels THEN Turns(r, "create", r.n + 1) ELSE Ends(r, "done")
      [] r.need = "teamSite"  -> Turns(r, "driveRoot", 1)
      [] r.need = "driveRoot" -> Turns(r, "channelFolder", 1)
      [] OTHER -> Ends(r, "failed")

SiteSources == {"teamSite", "driveRoot", "channelFolder"}

\* The request has failed.  No other try mends that if mendless holds; a
\* source of the site id is mended by the next one, three are not.
Fails(c, r, mendless) ==
    /\ calls' = [calls EXCEPT ![c] = AfterRefusal(
                   [r EXCEPT !.refused = IF r.need \in SiteSources THEN @ + 1 ELSE @])]
    /\ excused' = IF mendless /\ (r.need \in SiteSources => r.refused = 2)
                  THEN excused \cup {c} ELSE excused

\* Mutant: one try more than MAX_RETRIES says.
MayRetry_More(r) == r.attempt <= MaxRetries

\* Mutant: one try less than MAX_RETRIES says.
MayRetry_Less(r) == r.attempt + 1 < MaxRetries

MayRetry(r) == r.attempt < MaxRetries

Waited(r) == [r EXCEPT !.unanswered = @ + 1]
Silent(r) == Waited(r).unanswered > MaxRetries

\* No answer, or one of the statuses that are tried again; after the last
\* try that is handled like a refusal.
TriesAgain(c, r) ==
    IF MayRetry(r)
    THEN /\ calls' = [calls EXCEPT ![c] = [Waited(r) EXCEPT !.attempt = @ + 1]]
         /\ UNCHANGED excused
    ELSE Fails(c, Waited(r), Silent(r))

Throttled(c) ==
    /\ calls[c] # None /\ calls[c].at \in {"token", "sent"}
    /\ Spend("busy")
    /\ TriesAgain(c, calls[c])
    /\ UNCHANGED <<library, made, cached>>

\* A connection that breaks at the last try is thrown, which matters where
\* an answer of any status would do.
LookupThrown(c) ==
    /\ calls[c] # None /\ calls[c].at = "sent" /\ calls[c].need = "existing"
    /\ ~MayRetry(calls[c])
    /\ Spend("busy")
    /\ calls' = [calls EXCEPT ![c] = Ends(@, "failed")]
    /\ excused' = IF Silent(calls[c]) THEN excused \cup {c} ELSE excused
    /\ UNCHANGED <<library, made, cached>>

Refused(c) ==
    /\ calls[c] # None /\ calls[c].at \in {"token", "sent"}
    /\ Spend("refuse")
    /\ Fails(c, calls[c], TRUE)
    /\ UNCHANGED <<library, made, cached>>

TokenDies(c) ==
    /\ calls[c] # None /\ calls[c].at = "sent"
    /\ calls[c].token = Lifetime + 1
    /\ Fails(c, calls[c], TRUE)
    /\ UNCHANGED <<library, made, cached, spent>>

Heard(r) == r.at = "sent" /\ r.token # Lifetime + 1

----------------------------------------------------------------------------
(* What Graph makes of a request, and the call of the answer *)

\* Mutant: a piece or a file that has the name of another replaces it.
NameFree_Always(c, f) == TRUE

\* conflictBehavior=fail.
NameFree(c, f) == library[f] = None

TakesName(c) == library' = [library EXCEPT ![calls[c].name] = c]

\* One folder.  409 means it is there already.
MakesFolder(c) ==
    /\ calls[c] # None /\ Heard(calls[c]) /\ calls[c].need = "create"
    /\ LET r == calls[c]
       IN  IF made >= r.n
           THEN /\ calls' = [calls EXCEPT ![c] = Turns(r, "existing", r.n)]
                /\ UNCHANGED made
           ELSE /\ made' = r.n
                /\ calls' = [calls EXCEPT ![c] =
                     IF r.n < Levels THEN Turns(r, "create", r.n + 1) ELSE Ends(r, "done")]
    /\ UNCHANGED <<library, cached, excused, spent>>

FolderRead(c) ==
    /\ calls[c] # None /\ Heard(calls[c]) /\ calls[c].need = "existing"
    /\ calls' = [calls EXCEPT ![c] =
         IF @.n < Levels THEN Turns(@, "create", @.n + 1) ELSE Ends(@, "done")]
    /\ UNCHANGED <<library, made, cached, excused, spent>>

PutsFile(c) ==
    /\ calls[c] # None /\ Heard(calls[c]) /\ calls[c].need = "put"
    /\ IF NameFree(c, calls[c].name)
       THEN /\ TakesName(c) /\ calls' = [calls EXCEPT ![c] = Ends(@, "done")]
            /\ UNCHANGED excused
       ELSE /\ Fails(c, calls[c], TRUE) /\ UNCHANGED library
    /\ UNCHANGED <<made, cached, spent>>

OpensSession(c) ==
    /\ calls[c] # None /\ Heard(calls[c]) /\ calls[c].need = "session"
    /\ IF NameFree(c, calls[c].name)
       THEN /\ calls' = [calls EXCEPT ![c] = [Turns(@, "piece", 1) EXCEPT !.got = 0]]
            /\ UNCHANGED excused
       ELSE Fails(c, calls[c], TRUE)
    /\ UNCHANGED <<library, made, cached, spent>>

\* Graph takes the pieces in order and files the whole with the last one; a
\* piece it has already, or a name taken meanwhile, is refused.
TakesPiece(c) ==
    /\ calls[c] # None /\ Heard(calls[c]) /\ calls[c].need = "piece"
    /\ LET r == calls[c]
       IN  IF r.n # r.got + 1 \/ (r.n = Pieces /\ ~NameFree(c, r.name))
           THEN /\ Fails(c, r, TRUE) /\ UNCHANGED library
           ELSE /\ IF r.n = Pieces THEN TakesName(c) ELSE UNCHANGED library
                /\ calls' = [calls EXCEPT ![c] =
                     IF r.n = Pieces THEN Ends(r, "done")
                     ELSE [Turns(r, "piece", r.n + 1) EXCEPT !.got = r.n]]
                /\ UNCHANGED excused
    /\ UNCHANGED <<made, cached, spent>>

MorePages(r) == r.n = 1 /\ LateNames # {}

\* A folder that is not there has no files.
ReadsPage(c) ==
    /\ calls[c] # None /\ Heard(calls[c]) /\ calls[c].need = "page"
    /\ LET r == calls[c]
           shown == {f \in Present : f \in LateNames <=> r.n = 2}
       IN  calls' = [calls EXCEPT ![c] =
             IF made < Levels THEN [Ends(r, "done") EXCEPT !.found = {}]
             ELSE [ IF MorePages(r) THEN Turns(r, "page", 2) ELSE Ends(r, "done")
                    EXCEPT !.found = @ \cup shown ]]
    /\ UNCHANGED <<library, made, cached, excused, spent>>

\* The team, the channel, its folder, and the first source that has an id.
Looks(c) ==
    /\ calls[c] # None /\ Heard(calls[c])
    /\ LET r == calls[c]
       IN  \/ /\ r.need = "teams"       /\ calls' = [calls EXCEPT ![c] = Turns(r, "channels", 1)]
           \/ /\ r.need = "channels"    /\ calls' = [calls EXCEPT ![c] = Turns(r, "filesFolder", 1)]
           \/ /\ r.need = "filesFolder" /\ calls' = [calls EXCEPT ![c] = Turns(r, "teamSite", 1)]
           \/ /\ r.need \in {"teamSite", "driveRoot", "channelFolder"}
              /\ calls' = [calls EXCEPT ![c] = Ends(r, "done")]
    /\ UNCHANGED <<library, made, cached, excused, spent>>

\* Graph did it, and the answer is lost.
AnswerLost(c) ==
    /\ calls[c] # None /\ Heard(calls[c])
    /\ Spend("lost")
    /\ LET r == calls[c]
           effect == CASE r.need = "create" -> made < r.n
                       [] r.need = "put"    -> NameFree(c, r.name)
                       [] r.need = "piece"  -> r.n = r.got + 1 /\ (r.n = Pieces => NameFree(c, r.name))
                       [] OTHER -> FALSE
       IN  /\ effect
           /\ made' = IF r.need = "create" THEN r.n ELSE made
           /\ IF r.need = "put" \/ (r.need = "piece" /\ r.n = Pieces) THEN TakesName(c) ELSE UNCHANGED library
           /\ TriesAgain(c, IF r.need = "piece" THEN [r EXCEPT !.got = r.n] ELSE r)
    /\ UNCHANGED cached

----------------------------------------------------------------------------
(* The world *)

\* Time passes in the pauses between tries, which Retry-After sets: tokens
\* grow older, and the cached one is not used in its last minute.
TimePasses ==
    /\ \E c \in Calls : calls[c] # None /\ calls[c].attempt > 0
    /\ Spend("tick")
    /\ cached' = IF cached # None /\ cached + 1 < Lifetime THEN cached + 1 ELSE None
    /\ calls' = [c \in Calls |->
                   IF calls[c] # None /\ calls[c].token # None /\ calls[c].token <= Lifetime
                   THEN [calls[c] EXCEPT !.token = @ + 1] ELSE calls[c]]
    /\ UNCHANGED <<library, made, excused>>

\* Somebody puts a file into the folder.
HandPuts(f) ==
    /\ Spend("hand") /\ made = Levels /\ library[f] = None
    /\ library' = [library EXCEPT ![f] = "hand"]
    /\ UNCHANGED <<made, cached, calls, excused>>

CallStep(c) ==
    \/ Send(c) \/ TokenIssued(c) \/ TokenDies(c)
    \/ MakesFolder(c) \/ FolderRead(c) \/ PutsFile(c)
    \/ OpensSession(c) \/ TakesPiece(c) \/ ReadsPage(c) \/ Looks(c)

TransportNext ==
    \/ \E c \in Calls :
         \/ \E w \in Works, f \in FileNames \cup {None} : StartCall(c, w, f)
         \/ CallStep(c) \/ Throttled(c) \/ LookupThrown(c) \/ Refused(c) \/ AnswerLost(c)
    \/ TimePasses
    \/ \E f \in FileNames : HandPuts(f)

----------------------------------------------------------------------------
(* Properties *)

\* A call that fails met something that more tries would not have mended: a
\* refusal, a taken name, an outdated token, silence through all tries, or
\* for the site id all three sources.  A folder that another call has just
\* made, a lost answer to making one, fewer unanswered tries than
\* MAX_RETRIES, or one source without an answer fail nothing.
FailuresHaveACause ==
    \A c \in Calls : calls[c] # None /\ calls[c].at = "failed" => c \in excused

\* A listing that returns has every file that was there when it began,
\* however many pages it takes and whatever is uploaded meanwhile: the next
\* number of a file depends on it.
ListingsAreComplete ==
    \A c \in Calls :
      calls[c] # None /\ calls[c].work = "listing" /\ calls[c].at = "done"
        => calls[c].there \subseteq calls[c].found

AnswersAreHonest == FailuresHaveACause /\ ListingsAreComplete

Promise == INSTANCE UploadPromise WITH
    Uploads <- Calls, UploadNames <- FileNames, Nobody <- None,
    kept <- [f \in FileNames |-> IF library[f] = "hand" THEN "others" ELSE library[f]],
    wanted <- [c \in Calls |-> IF calls[c] # None /\ calls[c].work \in {"small", "large"}
                               THEN calls[c].name ELSE None],
    said <- [c \in Calls |-> IF calls[c] = None \/ calls[c].work \notin {"small", "large"} THEN "open"
                             ELSE CASE calls[c].at = "done"   -> "stored"
                                    [] calls[c].at = "failed" -> "failed"
                                    [] OTHER -> "open"]

\* Sessions, pieces, retries and tokens together make an upload as its
\* callers know it: once, whole, under a free name, never over another file.
UploadsKeepTheirPromise == Promise!KeepsUploadPromise
=============================================================================
