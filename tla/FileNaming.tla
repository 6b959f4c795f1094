----------------------------- MODULE FileNaming -----------------------------
(***************************************************************************)
(* How the files of one site folder get their names: the server files a    *)
(* submission under the file name rule in force, people put files there by *)
(* hand, and the passes over manual uploads rename what fits neither the   *)
(* rule nor the default one.  Numbers in use are read back from the names, *)
(* so both depend on a rendered name fitting the rule it came from.        *)
(*                                                                         *)
(* What is abstracted: a name is a sequence of atoms (the folder's name, a *)
(* kind, a number, a value, a separator, an extension) and a pattern       *)
(* matches whole atoms, as if no number touched the digits of a value;     *)
(* forbidden characters, the padding of numbers and the cut at 120         *)
(* characters are left out.  An upload and a pass exclude each other       *)
(* (operationTail); people wait for neither.  The folder is listed before  *)
(* names are given: a listing that fails reads as an empty folder for an   *)
(* upload (existingNames), and ends a pass before it names anything.       *)
(***************************************************************************)
EXTENDS Common

CONSTANTS
    Words,        \* what names and rules are made of
    Templates,    \* file name rules the office may set
    Attachments,  \* what people upload or put into the folder
    MaxFiles      \* bound: files in the folder and to be named together

VARIABLES
    template,     \* the file name rule in force
    present,       \* the files in the folder
    naming        \* what an upload or a pass still has to name, in order

namingVars == <<template, present, naming>>

FileKinds == {"image", "video"}
Endings == {".jpg", ".mp4"}
Atoms == [a : Words, n : Nat]
Atom(a) == [a |-> a, n |-> 0]
Counted(n) == [a |-> "number", n |-> n]
Separator == Atom("sep")

\* DEFAULT_FILE_NAME_TEMPLATE
DefaultTemplate == <<"folder", "sep", "kind", "number">>

ASSUME NamingAssumption ==
    /\ FileKinds \cup Endings \cup {"sep", "number", "folder", "kind", "original", "value"} \subseteq Words
    /\ Templates \subseteq Seq(Words) /\ DefaultTemplate \in Templates /\ None \notin Templates
    /\ \A a \in Attachments : /\ a.kind \in FileKinds /\ a.base \in Seq(Atoms)
                              /\ a.ext \in {<< >>} \cup {<<Atom(e)>> : e \in Endings}

\* A name is given under a rule by the app, or is a person's own; it is whole
\* if every token of the rule had a value.  The next pass looks at what is new.
StoredFile(f) ==
    /\ f.kind \in FileKinds
    /\ f.under \in Templates \cup {None}
    /\ f.whole \in BOOLEAN /\ f.fresh \in BOOLEAN
    /\ f.name \in Seq(Atoms)

NamingTypeOK ==
    /\ template \in Templates
    /\ \A f \in present : StoredFile(f)
    /\ \A i \in DOMAIN naming : /\ StoredFile(naming[i].file) /\ naming[i].rule \in Templates
                                /\ naming[i].of \in present \cup {None} /\ naming[i].listed \in BOOLEAN

NamingInit ==
    /\ template \in Templates
    /\ present = {} /\ naming = << >>

NamesInUse == {f.name : f \in present}

----------------------------------------------------------------------------
(* Giving a name *)

\* What a part of a template becomes.
Filled(part, kind, n, base, value) ==
    CASE part = "kind"     -> <<Atom(kind)>>
      [] part = "number"   -> <<Counted(n)>>
      [] part = "original" -> base
      [] part = "value"    -> IF value = None THEN << >> ELSE <<Atom(value)>>
      [] OTHER             -> <<Atom(part)>>

\* What is written so far, and then s: a separator stands behind something else.
Put(done, s) ==
    LET to[n \in 0 .. Len(s)] ==
          IF n = 0 THEN done
          ELSE IF s[n] = Separator /\ (to[n - 1] = << >> \/ to[n - 1][Len(to[n - 1])] = Separator) THEN to[n - 1]
          ELSE Append(to[n - 1], s[n])
    IN  to[Len(s)]

Rendered(t, a, n, value) ==
    LET upTo[i \in 0 .. Len(t)] ==
          IF i = 0 THEN << >> ELSE Put(upTo[i - 1], Filled(t[i], a.kind, n, a.base, value))
        all == upTo[Len(t)]
    IN  IF all # << >> /\ all[Len(all)] = Separator THEN SubSeq(all, 1, Len(all) - 1) ELSE all

HasPart(t, part) == \E i \in DOMAIN t : t[i] = part

\* A rule without {번호}, which the environment may hold, gets a number at the end.
StoredName(t, a, n, value) ==
    Rendered(t, a, n, value) \o (IF HasPart(t, "number") THEN << >> ELSE <<Separator, Counted(n)>>) \o a.ext

----------------------------------------------------------------------------
(* Reading names back *)

Wild(t) == {i \in DOMAIN t : t[i] \in {"value", "original"}}

\* Where part i of a template begins in a name, if its wild parts are as long
\* as lens says.
PartAt(t, lens, i) ==
    LET at[k \in 1 .. Len(t) + 1] ==
          IF k = 1 THEN 1 ELSE at[k - 1] + (IF k - 1 \in Wild(t) THEN lens[k - 1] ELSE 1)
    IN  at[i]

PartFits(part, a) ==
    CASE part = "kind"   -> a.a \in FileKinds
      [] part = "number" -> a.a = "number"
      [] OTHER           -> a = Atom(part)

\* The ways to read a name as one that the rule gives.
Readings(t, name) ==
    {lens \in [Wild(t) -> 1 .. Len(name)] :
       LET rest == PartAt(t, lens, Len(t) + 1)
       IN  /\ rest - 1 <= Len(name)
           /\ \A i \in DOMAIN t \ Wild(t) : PartFits(t[i], name[PartAt(t, lens, i)])
           /\ rest = Len(name) + 1 \/ (rest = Len(name) /\ name[rest].a \in Endings)}

FollowsFileNameRule(t, name) == Readings(t, name) # {}

\* The reading a regular expression finds: earlier wild parts are shortest.
Laziest(t, name) ==
    CHOOSE lens \in Readings(t, name) : \A other \in Readings(t, name) :
      \/ lens = other
      \/ \E i \in Wild(t) : /\ lens[i] < other[i]
                            /\ \A j \in Wild(t) : j < i => lens[j] = other[j]

\* What part p stands for in a name that follows the rule.
Captured(t, name, part) ==
    name[PartAt(t, Laziest(t, name), CHOOSE i \in DOMAIN t : t[i] = part)]

HasEnding(name) == name # << >> /\ name[Len(name)].a \in Endings
Stem(name) == IF HasEnding(name) THEN SubSeq(name, 1, Len(name) - 1) ELSE name

\* The number that a name under the default rule ends with; 0: none.
LegacyNumber(k, name) ==
    LET bare == Stem(name)
        at == Len(bare)
    IN  IF at >= 3 /\ bare[at].a = "number" /\ bare[at - 1] = Atom(k) /\ bare[at - 2] = Separator
        THEN bare[at].n ELSE 0

\* The number that a name takes from files of kind k.
Taken(t, k, name) ==
    IF HasPart(t, "number") /\ FollowsFileNameRule(t, name)
    THEN IF HasPart(t, "kind") /\ Captured(t, name, "kind") # Atom(k) THEN 0
         ELSE Captured(t, name, "number").n
    ELSE LegacyNumber(k, name)

Highest(ns) == CHOOSE n \in ns : \A m \in ns : m <= n

NextSequence(t, k, seen) == Highest({0} \cup {Taken(t, k, name) : name \in seen})

----------------------------------------------------------------------------
(* Uploads *)

Whole(t, a, value) ==
    /\ HasPart(t, "number")
    /\ HasPart(t, "value") => value # None
    /\ HasPart(t, "original") => \E i \in DOMAIN a.base : a.base[i] # Separator

\* What an upload sees of the folder: nothing, if the listing fails.
Seen(listed) == IF listed THEN NamesInUse ELSE {}

\* What files get under rule t: every kind counts on from the names seen.
Given(t, files, value, seen) ==
    [i \in DOMAIN files |->
       LET a == files[i]
           n == NextSequence(t, a.kind, seen) + Cardinality({j \in 1 .. i : files[j].kind = a.kind})
       IN  [ kind |-> a.kind, under |-> t, whole |-> Whole(t, a, value), fresh |-> TRUE,
             name |-> StoredName(t, a, n, value) ]]

\* One submission is filed: {value} is what it says for a token of its own.
Uploads(files, value, listed) ==
    /\ naming = << >>
    /\ value # None => HasPart(template, "value")
    /\ Cardinality(present) + Len(files) <= MaxFiles
    /\ IF listed THEN UNCHANGED spent ELSE Spend("listing")
    /\ LET given == Given(template, files, value, Seen(listed))
       IN  naming' = [i \in DOMAIN files |->
                        [of |-> None, file |-> given[i], rule |-> template, listed |-> listed]]
    /\ UNCHANGED <<template, present>>

\* Graph refuses a name that is in use.
Lands ==
    /\ naming # << >>
    /\ LET next == Head(naming)
       IN  IF next.file.name \in NamesInUse THEN UNCHANGED present
           ELSE present' = (present \ {next.of}) \cup {next.file}
    /\ naming' = Tail(naming)
    /\ UNCHANGED <<template, spent>>

----------------------------------------------------------------------------
(* Files put there by hand *)

PersonAdds(a) ==
    LET name == a.base \o a.ext
    IN  /\ name \notin NamesInUse /\ Cardinality(present) < MaxFiles
        /\ Spend("hand")
        /\ present' = present \cup {[kind |-> a.kind, under |-> None, whole |-> FALSE,
                                   fresh |-> TRUE, name |-> name]}
        /\ UNCHANGED <<template, naming>>

\* A person's file has none of the values of a submission.
ManualTemplate(t) ==
    IF \A i \in DOMAIN t : t[i] # "value" THEN t ELSE DefaultTemplate

\* Mutant: only the rule in force is looked at.
FollowsManagedName_RuleOnly(name) == FollowsFileNameRule(template, name)

FollowsManagedName(name) ==
    FollowsFileNameRule(template, name) \/ FollowsFileNameRule(DefaultTemplate, name)

Original(f) ==
    [kind |-> f.kind, base |-> Stem(f.name), ext |-> IF HasEnding(f.name) THEN <<f.name[Len(f.name)]>> ELSE << >>]

\* The ways to go through a set.
Lineups(S) == {s \in [1 .. Cardinality(S) -> S] : \A i, j \in DOMAIN s : s[i] = s[j] => i = j}

\* A pass over what is new; what it renames is new to the next one.
PassRenames ==
    /\ naming = << >>
    /\ \E f \in present : f.fresh
    /\ LET odd == {f \in present : f.fresh /\ ~FollowsManagedName(f.name)}
       IN  /\ present' = {IF f \in odd THEN f ELSE [f EXCEPT !.fresh = FALSE] : f \in present}
           /\ \E todo \in Lineups(odd) :
                LET given == Given(ManualTemplate(template), [i \in DOMAIN todo |-> Original(todo[i])],
                                   None, NamesInUse)
                IN  naming' = [i \in DOMAIN todo |->
                                 [of |-> todo[i], file |-> given[i], rule |-> template, listed |-> TRUE]]
    /\ UNCHANGED <<template, spent>>

RuleChanges(t) ==
    /\ t # template /\ Spend("template")
    /\ template' = t
    /\ UNCHANGED <<present, naming>>

NamingNext ==
    \/ Lands \/ PassRenames
    \/ \E t \in Templates : RuleChanges(t)
    \/ \E a \in Attachments : PersonAdds(a)
    \/ \E value \in {"value", None}, a \in Attachments, listed \in BOOLEAN :
         \/ Uploads(<<a>>, value, listed)
         \/ \E b \in Attachments \ {a} : Uploads(<<a, b>>, value, listed)

----------------------------------------------------------------------------
(* Properties *)

\* The names that a rule gives can be read back: no separator is dropped from
\* it, it does not end like a file, and number and kind have no open part on
\* both sides.
ReadsBack(t) ==
    /\ t # << >> /\ t[1] # "sep" /\ t[Len(t)] \notin Endings \cup {"sep"}
    /\ \A i \in 1 .. Len(t) - 1 : t[i] = "sep" => t[i + 1] # "sep"
    /\ \A i \in DOMAIN t : t[i] \in {"number", "kind"} =>
         (\A j \in Wild(t) : i < j) \/ (\A j \in Wild(t) : j < i)

\* No file is given a name that is in use when it is planned, or that a file
\* planned with it gets, whatever rules were in force before and whoever named
\* what is there, except: where a token of the rule had no value, or the rule
\* is one whose names cannot be read back or has no {번호}, so that numbers in
\* use are not seen; for two files of different kinds without an extension
\* under a rule without {종류}; and where the listing before an upload failed:
\* then it numbers from 1 again, and only its own files keep out of each
\* other's way.
NamesAreFree ==
    naming = << >> => \A i \in DOMAIN naming' :
      LET f == naming'[i].file
      IN  f.whole /\ ReadsBack(f.under) =>
            /\ naming'[i].listed => f.name \notin NamesInUse
            /\ \A j \in DOMAIN naming' \ {i} :
                 LET g == naming'[j].file
                 IN  g.whole /\ g.name = f.name => ~HasPart(f.under, "kind") /\ g.kind # f.kind

\* No pass renames what the app named under the rule it goes by or the default
\* one, or what a pass before it named, unless a token of the rule had no value
\* or names under the rule cannot be read back.
PassesLeaveNamed ==
    \A i \in DOMAIN naming :
      LET f == naming[i].of
      IN  f # None => ~(f.whole /\ ReadsBack(f.under) /\ f.under \in {naming[i].rule, DefaultTemplate})

NamesAreSound == [][NamesAreFree /\ PassesLeaveNamed']_namingVars
=============================================================================
