------------------------------ MODULE Settings ------------------------------
(***************************************************************************)
(* What the office sets: 시공종류 with their rules, the storage targets and *)
(* the one in use, the common folder rule.  The service keeps all of it in *)
(* memory and each part of it under a key of its own in the repository; a  *)
(* request changes memory, writes a key, and may go on to change and write *)
(* another one.  SharePointService works with copies of its own of the     *)
(* common rule and of the place of the target in use, and a request hands  *)
(* them on when its writes are done.  Requests overlap, and two writes of  *)
(* a key may land in either order (Azure Tables; a JSON file writes them   *)
(* in turn).                                                               *)
(*                                                                         *)
(* What is abstracted: names, limits and the shape of a rule; a place is   *)
(* the drive of a target with the folder of its channel, and Graph         *)
(* resolves a channel to any of them; the parts that are one list under    *)
(* one key and no more (mail addresses, Teams addresses, the order of the  *)
(* form).                                                                  *)
(***************************************************************************)
EXTENDS Common

CONSTANTS
    Kinds,    \* 시공종류
    Rules,    \* rules of a kind, and the common one
    Targets,  \* storage targets
    Places,   \* drives, each with the folder of a channel
    Managers  \* managers at work at once, the sheets' sync among them

SettingsRecord == [ types   : SUBSET Kinds,
                    configs : [Kinds -> Rules \cup {None}],
                    rule    : Rules,
                    targets : [Targets -> Places \cup {None}],
                    active  : Targets ]
Keys == {"types", "configs", "rule", "targets", "active"}

ASSUME SettingsAssumption ==
    None \notin Kinds \cup Rules \cup Targets \cup Places \cup Keys \cup {"place", "common"}

\* Requests that may change the target in use or its place: PUT and POST
\* /settings/storage-target, resolve, select and DELETE.
TargetOps == {"putTarget", "postTarget", "resolve", "select", "removeTarget"}

\* A request: what it does, which key it is writing, the values it writes, and
\* the place of the target it has saved or selected.
Request == [ op    : {"none", "addType", "removeType", "setConfig", "setRule"} \cup TargetOps,
             arg   : Kinds \cup Rules \cup Targets \cup {None},
             key   : Keys \cup {None},
             copy  : SettingsRecord \cup {None},
             place : Places \cup {None} ]

\* What SharePointService works with, and the field of it a request hands on.
Library == [place : Places, common : Rules]
HandsOn(op) == IF op \in TargetOps THEN "place" ELSE IF op = "setRule" THEN "common" ELSE None

VARIABLES
    mem,      \* the settings in memory
    repo,     \* the settings in the repository
    live,     \* the place and the common rule of SharePointService
    requests, \* per manager, the request under way
    unsure    \* keys of which a write was rejected or overlapped another one,
              \* and fields of live that were not handed on

settingsVars == <<mem, repo, live, requests, unsure>>

NoRequest == [op |-> "none", arg |-> None, key |-> None, copy |-> None, place |-> None]

SettingsTypeOK ==
    /\ mem \in SettingsRecord
    /\ repo \in SettingsRecord
    /\ live \in Library
    /\ requests \in [Managers -> Request]
    /\ unsure \subseteq Keys \cup {"place", "common"}

\* The place of the target in use.
PlaceInUse(m) == m.targets[m.active]

\* The settings a server starts with, once it has run before.
SettingsInit ==
    /\ mem \in SettingsRecord
    /\ mem.types # {} /\ PlaceInUse(mem) # None
    /\ \A t \in Kinds : (mem.configs[t] # None) <=> t \in mem.types
    /\ repo = mem
    /\ live = [place |-> PlaceInUse(mem), common |-> mem.rule]
    /\ requests = [c \in Managers |-> NoRequest]
    /\ unsure = {}

----------------------------------------------------------------------------
(* What a request asks of the settings, changes, and writes *)

Possible(op, x) ==
    CASE op = "addType"      -> x \in Kinds \ mem.types
      [] op = "removeType"   -> x \in mem.types /\ mem.types # {x}
      [] op = "setConfig"    -> x \in mem.types
      [] op = "setRule"      -> x \in Rules
      [] op = "select"       -> mem.targets[x] # None
      [] op = "removeTarget" -> mem.targets[x] # None /\ \E y \in Targets \ {x} : mem.targets[y] # None
      [] OTHER               -> x \in Targets

\* A kind that still has a config keeps it.
WithConfig(m, t) == [m EXCEPT !.configs[t] = IF @ = None THEN m.rule ELSE @]

\* saveStorageTarget: a target that is there is replaced.
TargetSaved(m, x, p) == [m EXCEPT !.targets[x] = p]

\* resolve saves under the id of a target of the same channel or place.
Resolvable(m, x, p) == m.targets[x] # None \/ \A y \in Targets : m.targets[y] # p

\* The settings after the first synchronous part of a request.
Changed(m, op, x) ==
    CASE op = "addType"      -> {[m EXCEPT !.types = @ \cup {x}]}
      [] op = "removeType"   -> {[m EXCEPT !.types = @ \ {x}]}
      [] op = "setConfig"    -> {[m EXCEPT !.configs[x] = r] : r \in Rules}
      [] op = "setRule"      -> {[m EXCEPT !.rule = x,
                                           !.configs = [t \in Kinds |->
                                               IF m.configs[t] = m.rule THEN x ELSE m.configs[t]]]}
      [] op = "resolve"      -> {TargetSaved(m, x, p) : p \in {q \in Places : Resolvable(m, x, q)}}
      [] op = "select"       -> {[m EXCEPT !.active = x]}
      [] op = "removeTarget" -> {[m EXCEPT !.targets[x] = None, !.active = IF @ = x THEN y ELSE @] :
                                     y \in {z \in Targets \ {x} : m.targets[z] # None}}
      [] OTHER               -> {TargetSaved(m, x, p) : p \in Places}

KeyOf(op, x) ==
    CASE op \in {"addType", "removeType"} -> "types"
      [] op = "setConfig"                 -> "configs"
      [] op = "setRule"                   -> "rule"
      [] op = "select"                    -> "active"
      [] op = "removeTarget"              -> IF mem.active = x THEN "active" ELSE "targets"
      [] OTHER                            -> "targets"

\* Actor c writes key k: uncertain, if somebody else is writing it.
Overlapped(c, k) == {j \in {k} : \E d \in Managers \ {c} : requests[d].key = j}

\* The place in use is uncertain when two requests about targets overlap, and
\* when a POST, which hands nothing on, replaces the target in use.
Astray(c, op) ==
    {f \in {"place"} :
        /\ op \in TargetOps
        /\ \/ \E d \in Managers \ {c} : requests[d].op \in TargetOps
           \/ op = "postTarget" /\ PlaceInUse(mem') # PlaceInUse(mem)}

RequestStarts(c, op, x) ==
    /\ requests[c] = NoRequest /\ Possible(op, x)
    /\ Spend("edit")
    /\ mem' \in Changed(mem, op, x)
    /\ requests' = [requests EXCEPT ![c] = [op |-> op, arg |-> x, key |-> KeyOf(op, x),
                                            copy |-> mem',
                                            place |-> IF op \in TargetOps THEN mem'.targets[x] ELSE None]]
    /\ unsure' = unsure \cup Overlapped(c, KeyOf(op, x)) \cup Astray(c, op)
    /\ UNCHANGED <<repo, live>>

\* The key a request goes on to write after key k.
NextKey(op, k) ==
    CASE op \in {"addType", "removeType"} /\ k = "types" -> "configs"
      [] op = "setRule" /\ k = "rule"                    -> "configs"
      [] op = "resolve" /\ k = "targets"                 -> "active"
      [] op = "removeTarget" /\ k = "active"             -> "targets"
      [] OTHER                                           -> None

\* A resolved target that was removed since is not selected.
GoesOn(w) == NextKey(w.op, w.key) # None /\ (w.op = "resolve" => mem.targets[w.arg] # None)

Continued(m, op, x) ==
    CASE op = "addType"    -> WithConfig(m, x)
      [] op = "removeType" -> [m EXCEPT !.configs[x] = None]
      [] op = "resolve"    -> [m EXCEPT !.active = x]
      [] OTHER             -> m

\* Mutant: the library is left where it was when the target in use is edited.
Routed_NoEdits(w) ==
    CASE w.op = "select" \/ (w.op = "resolve" /\ w.key = "active") -> w.place
      [] w.op = "removeTarget"                                     -> PlaceInUse(mem)
      [] OTHER                                                     -> live.place

\* Where the library goes when the service is done: to the target as the
\* request saved or selected it, an edited one if it is in use by then.
Routed(w) ==
    CASE \/ w.op = "select"
         \/ w.op = "resolve" /\ w.key = "active"
         \/ w.op = "putTarget" /\ mem.active = w.arg -> w.place
      [] w.op = "removeTarget"                       -> PlaceInUse(mem)
      [] OTHER                                       -> live.place

HandedOn(w) == [place |-> Routed(w), common |-> IF w.op = "setRule" THEN mem.rule ELSE live.common]

WriteLands(c) ==
    LET w == requests[c] IN
    /\ w.key # None
    /\ repo' = [repo EXCEPT ![w.key] = w.copy[w.key]]
    /\ IF GoesOn(w)
       THEN /\ mem' = Continued(mem, w.op, w.arg)
            /\ requests' = [requests EXCEPT ![c].key = NextKey(w.op, w.key), ![c].copy = mem']
            /\ unsure' = unsure \cup Overlapped(c, NextKey(w.op, w.key))
            /\ UNCHANGED live
       ELSE /\ live' = HandedOn(w)
            /\ requests' = [requests EXCEPT ![c] = NoRequest]
            /\ unsure' = unsure \ (IF w.op = "setRule" THEN {"common"} ELSE {})
            /\ UNCHANGED mem
    /\ UNCHANGED spent

\* The keys of which memory is ahead after a rejected write of request w, and
\* what it would have handed on.
KeysInDoubt(w) ==
    ({w.key, NextKey(w.op, w.key)} \cap Keys)
    \cup {f \in {HandsOn(w.op)} \ {None} : w.op \in {"putTarget", "postTarget"} => mem.active = w.arg}

\* The repository rejects: the request ends with an error, memory stays changed.
WriteRejected(c) ==
    /\ requests[c].key # None
    /\ Spend("call")
    /\ requests' = [requests EXCEPT ![c] = NoRequest]
    /\ unsure' = unsure \cup KeysInDoubt(requests[c])
    /\ UNCHANGED <<mem, repo, live>>

\* Configs as everybody reads them: of the kinds there are, and never missing.
Shown(m) == [m EXCEPT !.configs = [t \in Kinds |->
                IF t \notin m.types THEN None
                ELSE IF m.configs[t] = None THEN m.rule ELSE m.configs[t]]]

\* load: an unknown target in use is replaced by the first one.
Loaded(m) == IF PlaceInUse(m) # None THEN {Shown(m)}
             ELSE {[Shown(m) EXCEPT !.active = y] : y \in {z \in Targets : m.targets[z] # None}}

\* The process ends and starts again.
SettingsCrash ==
    /\ Spend("crash")
    /\ mem' \in Loaded(repo)
    /\ repo' = [repo EXCEPT !.active = mem'.active]
    /\ live' = [place |-> PlaceInUse(mem'), common |-> mem'.rule]
    /\ requests' = [c \in Managers |-> NoRequest]
    /\ unsure' = {}

----------------------------------------------------------------------------
SettingsNext ==
    \/ \E c \in Managers :
          \/ \E op \in {"addType", "removeType", "setConfig"}, t \in Kinds : RequestStarts(c, op, t)
          \/ \E r \in Rules : RequestStarts(c, "setRule", r)
          \/ \E op \in TargetOps, t \in Targets : RequestStarts(c, op, t)
          \/ WriteLands(c) \/ WriteRejected(c)
    \/ SettingsCrash

SettingsSpec == SettingsInit /\ NothingSpent /\ [][SettingsNext]_<<settingsVars, spent>>

----------------------------------------------------------------------------
(* Properties *)

\* The keys that decide what is read under key k.
Decide(k) ==
    CASE k = "configs" -> {"types", "configs", "rule"}
      [] k = "active"  -> {"targets", "active"}
      [] OTHER         -> {k}

\* Nobody has yet to write key k, in this or in a later part of a request.
Settled(k) ==
    \A c \in Managers : requests[c].key # None
        => k \notin {requests[c].key, NextKey(requests[c].op, requests[c].key)}

\* Whatever was set is still set after a restart, and nothing that was removed
\* is back: memory and repository agree on every key that nobody is writing,
\* in spite of requests that write two keys, unless a write was rejected or two
\* overlapped.
RestartKeepsSettings ==
    \A k \in Keys :
        (\A j \in Decide(k) : Settled(j) /\ j \notin unsure)
        => \A m \in Loaded(repo) : m[k] = Shown(mem)[k]

NoneOf(ops) == \A c \in Managers : requests[c].op \notin ops

\* Submissions go to the place whose channel folder names their path: library
\* and settings agree on the place of the target in use whenever no request
\* about targets is under way, unless one of them failed, two overlapped or a
\* POST replaced the target in use.
UploadsGoToActiveTarget ==
    NoneOf(TargetOps) /\ "place" \notin unsure => live.place = PlaceInUse(mem)

\* The library works by the common rule the settings show once the requests
\* that set it are answered, however they overlapped, unless the last one of
\* them failed.
FoldersFollowTheRule ==
    NoneOf({"setRule"}) /\ "common" \notin unsure => live.common = mem.rule

\* Memory, repository and the library in use agree on every setting that is
\* not being changed.
SettingsAgree == RestartKeepsSettings /\ UploadsGoToActiveTarget /\ FoldersFollowTheRule
=============================================================================
