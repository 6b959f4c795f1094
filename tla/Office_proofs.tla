----------------------------- MODULE Office_proofs -----------------------------
(***************************************************************************)
(* Proofs about the office's modules: the issue log (IssueLog), the saved  *)
(* settings (Settings), the client's screens (AppShell) and the submission *)
(* form (SubmissionForm).                                                  *)
(***************************************************************************)
EXTENDS IssueLog, Settings, AppShell, SubmissionForm, TLAPS

IssuesSpec == IssuesInit /\ NothingSpent /\ [][IssuesNext]_<<issuesVars, spent>>

Keeps(s, p) == p[1] \in DOMAIN s /\ p[2] \in s[p[1]]

OpenAreThere == \A i \in open : objects[i] # None

AtSave(w) == writers[w] # None /\ writers[w].at = "saving"

RequestsFit ==
    \A w \in Writers : writers[w] # None =>
      IF writers[w].does = "create"
      THEN writers[w].at = "read" =>
             /\ objects[writers[w].issue] = None
             /\ \A v \in Writers \ {w} : writers[v] # None => writers[v].issue # writers[w].issue
      ELSE objects[writers[w].issue] # None /\ writers[w].copy # None

QueueFits ==
    /\ \A n \in 1 .. Len(chain) : AtSave(chain[n].by)
    /\ \A n, m \in 1 .. Len(chain) : chain[n].by = chain[m].by => n = m

PromisesKept ==
    \A p \in promised :
      /\ p[1] \in open /\ p[2] \in objects[p[1]]
      /\ backend = "json" =>
           IF Underway(p)
           THEN \E k \in 1 .. Len(chain) :
                  /\ chain[k].by = p[2]
                  /\ \A m \in k .. Len(chain) : Keeps(chain[m].snapshot, p)
           ELSE /\ disk # None => Keeps(disk, p)
                /\ \A m \in 1 .. Len(chain) : Keeps(chain[m].snapshot, p)

IssuesInv == IssuesTypeOK /\ OpenAreThere /\ RequestsFit /\ QueueFits /\ PromisesKept


----------------------------------------------------------------------------
(* Facts about the operators *)

LEMMA ContentsAreFunctions ==
    ASSUME NEW is \in SUBSET Issues, NEW d \in [is -> SUBSET Writers]
    PROVE  d \in Contents
BY DEF Contents

LEMMA ContentsHaveSets ==
    ASSUME NEW d \in Contents
    PROVE  /\ DOMAIN d \in SUBSET Issues
           /\ \A i \in DOMAIN d : d[i] \in SUBSET Writers
BY DEF Contents

LEMMA SnapshotsAreContents ==
    ASSUME NEW os, NEW is \in SUBSET Issues, \A i \in is : os[i] \in SUBSET Writers
    PROVE  Snapshot(os, is) \in Contents
<1>1. Snapshot(os, is) \in [is -> SUBSET Writers]
  BY DEF Snapshot
<1> QED BY <1>1, ContentsAreFunctions

LEMMA QueueMovesUp ==
    ASSUME NEW T, NEW q \in Seq(T), Len(q) >= 1,
           NEW s, s = SubSeq(q, 1, 1 - 1) \o SubSeq(q, 1 + 1, Len(q))
    PROVE  /\ s \in Seq(T) /\ Len(s) = Len(q) - 1
           /\ \A m \in 1 .. Len(s) : s[m] = q[m + 1]
<1> DEFINE a == SubSeq(q, 1, 0)
           b == SubSeq(q, 2, Len(q))
<1>1. a \in Seq(T) /\ Len(a) = 0
  OBVIOUS
<1>2. b \in Seq(T) /\ Len(b) = Len(q) - 1 /\ \A m \in 1 .. Len(b) : b[m] = q[m + 1]
  <2>1. b = [m \in 1 .. Len(q) - 1 |-> q[m + 1]]
    BY DEF SubSeq
  <2>2. \A m \in 1 .. Len(q) - 1 : q[m + 1] \in T
    OBVIOUS
  <2>3. Len(q) - 1 \in Nat
    OBVIOUS
  <2> HIDE DEF b
  <2>4. b \in [1 .. Len(q) - 1 -> T]
    BY <2>1, <2>2
  <2>5. b \in Seq(T) /\ Len(b) = Len(q) - 1
    BY <2>3, <2>4
  <2> QED BY <2>1, <2>5
<1>3. s = a \o b
  OBVIOUS
<1> HIDE DEF a, b
<1>4. s \in Seq(T) /\ Len(s) = Len(b) /\ \A m \in 1 .. Len(b) : s[m] = b[m]
  BY <1>1, <1>2, <1>3
<1> QED BY <1>2, <1>4

LEMMA QueueGrows ==
    ASSUME NEW T, NEW q \in Seq(T), NEW e \in T, NEW s, s = Append(q, e)
    PROVE  /\ s \in Seq(T) /\ Len(s) = Len(q) + 1
           /\ \A m \in 1 .. Len(q) : s[m] = q[m]
           /\ s[Len(q) + 1] = e
OBVIOUS


LEMMA QueueIsTyped ==
    ASSUME IssuesTypeOK, NEW n \in 1 .. Len(chain)
    PROVE  chain[n] \in [by : Writers, snapshot : Contents]
<1>1. chain \in Seq([by : Writers, snapshot : Contents])
  BY DEF IssuesTypeOK
<1> DEFINE T == [by : Writers, snapshot : Contents]
<1> HIDE DEF T
<1>2. ASSUME chain \in Seq(T)
      PROVE  chain[n] \in T
  BY <1>2
<1> QED BY <1>1, <1>2 DEF T

----------------------------------------------------------------------------
(* Requests *)

LEMMA BeginsKeepsIssues ==
    ASSUME IssuesInv, NEW w \in Writers, NEW i \in Issues,
           NEW d \in {"create", "comment", "edit", "delete"}, Begins(w, d, i)
    PROVE  IssuesInv'
<1> DEFINE r == [does |-> d, issue |-> i, copy |-> objects[i], at |-> "read"]
<1>1. /\ writers[w] = None /\ writers' = [writers EXCEPT ![w] = r]
      /\ UNCHANGED <<backend, objects, open, disk, chain, torn, promised>>
  BY DEF Begins
<1>2. /\ writers \in [Writers -> Writer \cup {None}] /\ open \subseteq Issues
      /\ objects \in [Issues -> (SUBSET Writers) \cup {None}]
  BY DEF IssuesInv, IssuesTypeOK
<1>3. r \in Writer /\ r.does = d /\ r.issue = i /\ r.copy = objects[i] /\ r.at = "read"
  BY <1>2 DEF Writer
<1>4. IF d = "create" THEN /\ objects[i] = None
                           /\ \A v \in Writers : writers[v] # None => writers[v].issue # i
      ELSE i \in open
  BY DEF Begins
<1> HIDE DEF r
<1>5. /\ writers'[w] = r /\ \A v \in Writers \ {w} : writers'[v] = writers[v]
      /\ writers' \in [Writers -> Writer \cup {None}]
  BY <1>1, <1>2, <1>3
<1>6. IssuesTypeOK'
  BY <1>1, <1>5 DEF IssuesInv, IssuesTypeOK
<1>7. OpenAreThere'
  BY <1>1 DEF IssuesInv, OpenAreThere
<1>8. RequestsFit'
  <2> SUFFICES ASSUME NEW v \in Writers, writers'[v] # None
               PROVE  IF writers'[v].does = "create"
                      THEN writers'[v].at = "read" =>
                             /\ objects[writers'[v].issue] = None
                             /\ \A u \in Writers \ {v} : writers'[u] # None
                                                           => writers'[u].issue # writers'[v].issue
                      ELSE objects[writers'[v].issue] # None /\ writers'[v].copy # None
    BY <1>1 DEF RequestsFit
  <2>1. CASE v = w /\ d = "create"
    BY <1>3, <1>4, <1>5, <2>1
  <2>2. CASE v = w /\ d # "create"
    BY <1>3, <1>4, <1>5, <2>2 DEF IssuesInv, OpenAreThere
  <2>3. CASE v # w
    <3>1. writers'[v] = writers[v]
      BY <1>5, <2>3
    <3>2. CASE writers[v].does # "create"
      BY <3>1, <3>2 DEF IssuesInv, RequestsFit
    <3>3. CASE writers[v].does = "create" /\ writers[v].at = "read"
      <4>1. /\ objects[writers[v].issue] = None
            /\ \A u \in Writers \ {v} : writers[u] # None => writers[u].issue # writers[v].issue
        BY <3>1, <3>3 DEF IssuesInv, RequestsFit
      <4>2. i # writers[v].issue
        BY <1>4, <4>1, <3>1 DEF IssuesInv, OpenAreThere
      <4>3. ASSUME NEW u \in Writers \ {v}, writers'[u] # None
            PROVE  writers'[u].issue # writers[v].issue
        BY <1>3, <1>5, <4>1, <4>2, <4>3
      <4> QED BY <3>1, <3>3, <4>1, <4>3
    <3> QED BY <3>1, <3>2, <3>3
  <2> QED BY <2>1, <2>2, <2>3
<1>9. ASSUME NEW n \in 1 .. Len(chain)
      PROVE  chain[n].by \in Writers \ {w}
  BY <1>1, <1>9, QueueIsTyped DEF IssuesInv, QueueFits, AtSave
<1>10. QueueFits'
  BY <1>1, <1>5, <1>9 DEF IssuesInv, QueueFits, AtSave
<1>11. ASSUME NEW p \in promised
       PROVE  Underway(p)' <=> Underway(p)
  <2>1. p[2] \in Writers
    BY DEF IssuesInv, IssuesTypeOK
  <2> QED BY <1>1, <1>3, <1>5, <2>1 DEF Underway
<1>12. PromisesKept'
  BY <1>1, <1>11 DEF IssuesInv, PromisesKept, Keeps
<1> QED BY <1>6, <1>7, <1>8, <1>10, <1>12 DEF IssuesInv

LEMMA AnswersKeepsIssues ==
    ASSUME IssuesInv, NEW w \in Writers, Answers(w)
    PROVE  IssuesInv'
<1>1. /\ writers[w] # None /\ writers[w].at = "done" /\ writers' = [writers EXCEPT ![w] = None]
      /\ UNCHANGED <<backend, objects, open, disk, chain, torn, promised>>
  BY DEF Answers
<1>2. writers \in [Writers -> Writer \cup {None}]
  BY DEF IssuesInv, IssuesTypeOK
<1>3. /\ writers'[w] = None /\ \A v \in Writers \ {w} : writers'[v] = writers[v]
      /\ writers' \in [Writers -> Writer \cup {None}]
  BY <1>1, <1>2
<1>4. IssuesTypeOK'
  BY <1>1, <1>3 DEF IssuesInv, IssuesTypeOK
<1>5. OpenAreThere'
  BY <1>1 DEF IssuesInv, OpenAreThere
<1>6. RequestsFit'
  BY <1>1, <1>3 DEF IssuesInv, RequestsFit
<1>7. QueueFits'
  <2>1. ASSUME NEW n \in 1 .. Len(chain)
        PROVE  chain[n].by \in Writers \ {w}
    BY <1>1, <2>1, QueueIsTyped DEF IssuesInv, QueueFits, AtSave
  <2> QED BY <1>1, <1>3, <2>1 DEF IssuesInv, QueueFits, AtSave
<1>8. ASSUME NEW p \in promised
      PROVE  Underway(p)' <=> Underway(p)
  <2>1. p[2] \in Writers
    BY DEF IssuesInv, IssuesTypeOK
  <2> QED BY <1>1, <1>3, <2>1 DEF Underway
<1>9. PromisesKept'
  BY <1>1, <1>8 DEF IssuesInv, PromisesKept, Keeps
<1> QED BY <1>4, <1>5, <1>6, <1>7, <1>9 DEF IssuesInv


----------------------------------------------------------------------------
(* Saves *)

AtRead(w) == writers[w] # None /\ writers[w].at = "read"

\* What the saves of both stores do, the queue apart.
Saves(w, next) ==
    LET r == writers[w]
    IN  /\ AtRead(w)
        /\ objects' = [objects EXCEPT ![r.issue] = SavedIssue(w)]
        /\ open' = IF r.does = "delete" THEN open \ {r.issue} ELSE open \cup {r.issue}
        /\ promised' = StillPromised(w)
        /\ writers' = [writers EXCEPT ![w].at = next]
        /\ UNCHANGED <<backend, disk, torn>>

LEMMA RequestsAreTyped ==
    ASSUME IssuesTypeOK, NEW w \in Writers, writers[w] # None
    PROVE  /\ writers[w] \in Writer /\ writers[w].issue \in Issues
           /\ writers[w].does \in {"create", "comment", "edit", "delete"}
           /\ writers[w].copy \in (SUBSET Writers) \cup {None}
BY DEF IssuesTypeOK, Writer

LEMMA SavedIsASet ==
    ASSUME IssuesInv, NEW w \in Writers, AtRead(w)
    PROVE  /\ SavedIssue(w) \in SUBSET Writers
           /\ (backend = "json" /\ objects[writers[w].issue] # None)
                => objects[writers[w].issue] \subseteq SavedIssue(w)
           /\ writers[w].does = "comment" => w \in SavedIssue(w)
<1> DEFINE r == writers[w]
<1>1. /\ r.issue \in Issues /\ r.does \in {"create", "comment", "edit", "delete"}
      /\ r.copy \in (SUBSET Writers) \cup {None} /\ r # None
  BY RequestsAreTyped DEF IssuesInv, AtRead
<1>2. objects[r.issue] \in (SUBSET Writers) \cup {None}
  BY <1>1 DEF IssuesInv, IssuesTypeOK
<1>3. CASE r.does = "create"
  <2>1. SavedIssue(w) = {}
    BY <1>3 DEF SavedIssue
  <2>2. objects[r.issue] = None
    BY <1>1, <1>3 DEF IssuesInv, RequestsFit, AtRead
  <2> QED BY <1>3, <2>1, <2>2
<1>4. CASE r.does # "create"
  <2>1. objects[r.issue] \in SUBSET Writers /\ r.copy \in SUBSET Writers
    BY <1>1, <1>2, <1>4 DEF IssuesInv, RequestsFit
  <2>2. CASE r.does = "comment"
    <3>1. SavedIssue(w) = (IF backend = "json" THEN objects[r.issue] ELSE r.copy) \cup {w}
      BY <2>2 DEF SavedIssue
    <3> QED BY <2>1, <3>1
  <2>3. CASE r.does = "edit"
    <3>1. SavedIssue(w) = (IF backend = "json" THEN objects[r.issue] ELSE r.copy)
      BY <2>3 DEF SavedIssue
    <3> QED BY <2>1, <2>3, <3>1
  <2>4. CASE r.does = "delete"
    <3>1. SavedIssue(w) = objects[r.issue]
      BY <2>4 DEF SavedIssue
    <3> QED BY <2>1, <2>4, <3>1
  <2> QED BY <1>1, <1>4, <2>2, <2>3, <2>4
<1> QED BY <1>3, <1>4

LEMMA SavesFit ==
    ASSUME IssuesInv, NEW w \in Writers, NEW next \in {"saving", "done"}, Saves(w, next)
    PROVE  /\ objects' \in [Issues -> (SUBSET Writers) \cup {None}]
           /\ open' \in SUBSET Issues
           /\ promised' \in SUBSET (Issues \X Writers)
           /\ writers' \in [Writers -> Writer \cup {None}]
           /\ writers'[w] = [writers[w] EXCEPT !.at = next] /\ writers'[w] # None
           /\ \A v \in Writers \ {w} : writers'[v] = writers[v]
           /\ OpenAreThere' /\ RequestsFit'
           /\ \A p \in promised' : /\ p[1] \in open' /\ p[2] \in objects'[p[1]]
                                   /\ \/ p \in promised
                                      \/ p = <<writers[w].issue, w>> /\ writers[w].does = "comment"
<1> DEFINE r == writers[w]
           q == [r EXCEPT !.at = next]
<1>1. /\ r \in Writer /\ r.issue \in Issues /\ r # None /\ r.at = "read"
      /\ r.does \in {"create", "comment", "edit", "delete"}
  BY RequestsAreTyped DEF IssuesInv, Saves, AtRead
<1>2. /\ SavedIssue(w) \in SUBSET Writers
      /\ r.does = "comment" => w \in SavedIssue(w)
  BY SavedIsASet DEF Saves
<1>3. /\ objects \in [Issues -> (SUBSET Writers) \cup {None}] /\ open \subseteq Issues
      /\ writers \in [Writers -> Writer \cup {None}] /\ promised \subseteq Issues \X Writers
  BY DEF IssuesInv, IssuesTypeOK
<1>4. SavedIssue(w) # None
  BY <1>2, IssuesAssumption
<1>5. q \in Writer /\ q.at = next /\ q.does = r.does /\ q.issue = r.issue /\ q.copy = r.copy
  BY <1>1 DEF Writer
<1>6. q # None
  BY <1>5, IssuesAssumption
<1>7. objects' = [objects EXCEPT ![r.issue] = SavedIssue(w)] /\ writers' = [writers EXCEPT ![w] = q]
  BY <1>1, <1>3 DEF Saves
<1>8. /\ open' = IF r.does = "delete" THEN open \ {r.issue} ELSE open \cup {r.issue}
      /\ promised' = StillPromised(w)
  BY DEF Saves
<1>9. writers'[w] = q /\ \A v \in Writers \ {w} : writers'[v] = writers[v]
  BY <1>3, <1>7
<1>10. /\ objects'[r.issue] = SavedIssue(w)
       /\ \A i \in Issues \ {r.issue} : objects'[i] = objects[i]
  BY <1>1, <1>3, <1>7
<1>11. StillPromised(w) = {p \in promised : p[1] = r.issue => (r.does # "delete" /\ p[2] \in SavedIssue(w))}
                            \cup (IF r.does = "comment" THEN {<<r.issue, w>>} ELSE {})
  BY DEF StillPromised
<1> HIDE DEF q
<1>12. OpenAreThere'
  BY <1>3, <1>4, <1>8, <1>10 DEF IssuesInv, OpenAreThere
<1>13. RequestsFit'
  <2> SUFFICES ASSUME NEW v \in Writers, writers'[v] # None
               PROVE  IF writers'[v].does = "create"
                      THEN writers'[v].at = "read" =>
                             /\ objects'[writers'[v].issue] = None
                             /\ \A u \in Writers \ {v} : writers'[u] # None
                                                           => writers'[u].issue # writers'[v].issue
                      ELSE objects'[writers'[v].issue] # None /\ writers'[v].copy # None
    BY DEF RequestsFit
  <2>1. CASE v = w
    <3>1. writers'[v].does = r.does /\ writers'[v].at # "read" /\ writers'[v].issue = r.issue
            /\ writers'[v].copy = r.copy
      BY <1>5, <1>9, <2>1
    <3>2. r.does # "create" => r.copy # None
      BY <1>1 DEF IssuesInv, RequestsFit
    <3> QED BY <1>4, <1>10, <3>1, <3>2
  <2>2. CASE v # w
    <3>1. writers'[v] = writers[v] /\ writers[v] # None /\ writers[v].issue \in Issues
      BY <1>9, <2>2, RequestsAreTyped DEF IssuesInv
    <3>2. CASE writers[v].does # "create"
      <4>1. objects[writers[v].issue] # None /\ writers[v].copy # None
        BY <3>1, <3>2 DEF IssuesInv, RequestsFit
      <4> QED BY <1>4, <1>10, <3>1, <3>2, <4>1
    <3>3. CASE writers[v].does = "create" /\ writers[v].at = "read"
      <4>1. /\ objects[writers[v].issue] = None
            /\ \A u \in Writers \ {v} : writers[u] # None => writers[u].issue # writers[v].issue
        BY <3>1, <3>3 DEF IssuesInv, RequestsFit
      <4>2. r.issue # writers[v].issue
        BY <1>1, <2>2, <4>1
      <4>3. ASSUME NEW u \in Writers \ {v}, writers'[u] # None
            PROVE  writers'[u].issue # writers[v].issue
        BY <1>1, <1>5, <1>9, <4>1, <4>2, <4>3
      <4> QED BY <1>10, <3>1, <3>3, <4>1, <4>2, <4>3
    <3> QED BY <3>1, <3>2, <3>3
  <2> QED BY <2>1, <2>2
<1>14. ASSUME NEW p \in promised'
       PROVE  /\ p[1] \in open' /\ p[2] \in objects'[p[1]]
              /\ \/ p \in promised
                 \/ p = <<r.issue, w>> /\ r.does = "comment"
  <2>1. CASE p \in promised
    <3>1. p[1] \in open /\ p[2] \in objects[p[1]] /\ p[1] \in Issues
      BY <1>3, <2>1 DEF IssuesInv, PromisesKept
    <3>2. CASE p[1] = r.issue
      <4>1. (r.does # "delete" /\ p[2] \in SavedIssue(w)) \/ (r.does = "comment" /\ p = <<r.issue, w>>)
        BY <1>8, <1>11, <1>14, <2>1, <3>2
      <4>2. r.does # "delete" /\ p[2] \in SavedIssue(w)
        BY <1>2, <4>1
      <4> QED BY <1>8, <1>10, <2>1, <3>2, <4>2
    <3>3. CASE p[1] # r.issue
      BY <1>8, <1>10, <2>1, <3>1, <3>3
    <3> QED BY <3>2, <3>3
  <2>2. CASE p \notin promised
    <3>1. r.does = "comment" /\ p = <<r.issue, w>>
      BY <1>8, <1>11, <1>14, <2>2
    <3> QED BY <1>2, <1>8, <1>10, <3>1
  <2> QED BY <2>1, <2>2
<1>15. objects' \in [Issues -> (SUBSET Writers) \cup {None}] /\ open' \in SUBSET Issues
  BY <1>1, <1>2, <1>3, <1>7, <1>8
<1>16. promised' \in SUBSET (Issues \X Writers)
  BY <1>1, <1>3, <1>8, <1>11
<1>17. writers' \in [Writers -> Writer \cup {None}]
  BY <1>3, <1>5, <1>7
<1> QED BY <1>6, <1>9, <1>12, <1>13, <1>14, <1>15, <1>16, <1>17 DEF q


LEMMA TableSavesKeepsIssues ==
    ASSUME IssuesInv, NEW w \in Writers, TableSaves(w)
    PROVE  IssuesInv'
<1>1. Saves(w, "done") /\ chain' = chain /\ backend = "table"
  BY DEF TableSaves, Saves, AtRead
<1>2. /\ objects' \in [Issues -> (SUBSET Writers) \cup {None}] /\ open' \in SUBSET Issues
      /\ promised' \in SUBSET (Issues \X Writers) /\ writers' \in [Writers -> Writer \cup {None}]
      /\ \A v \in Writers \ {w} : writers'[v] = writers[v]
      /\ OpenAreThere' /\ RequestsFit'
      /\ \A p \in promised' : p[1] \in open' /\ p[2] \in objects'[p[1]]
  BY <1>1, SavesFit
<1>3. backend' = backend /\ disk' = disk /\ torn' = torn
  BY <1>1 DEF Saves
<1>4. IssuesTypeOK'
  BY <1>1, <1>2, <1>3 DEF IssuesInv, IssuesTypeOK
<1>5. QueueFits'
  <2>1. ASSUME NEW n \in 1 .. Len(chain)
        PROVE  chain[n].by \in Writers \ {w}
    BY <1>1, <2>1, QueueIsTyped DEF IssuesInv, QueueFits, AtSave, Saves, AtRead
  <2> QED BY <1>1, <1>2, <2>1 DEF IssuesInv, QueueFits, AtSave
<1>6. PromisesKept'
  BY <1>1, <1>2, <1>3 DEF PromisesKept
<1> QED BY <1>2, <1>4, <1>5, <1>6 DEF IssuesInv

LEMMA JsonSavesKeepsIssues ==
    ASSUME IssuesInv, NEW w \in Writers, JsonSaves(w)
    PROVE  IssuesInv'
<1> DEFINE r == writers[w]
           e == [by |-> w, snapshot |-> Snapshot(objects', open')]
           T == [by : Writers, snapshot : Contents]
<1>1. Saves(w, "saving") /\ chain' = Append(chain, e) /\ backend = "json"
  BY DEF JsonSaves, Saves, AtRead
<1>2. /\ objects' \in [Issues -> (SUBSET Writers) \cup {None}] /\ open' \in SUBSET Issues
      /\ promised' \in SUBSET (Issues \X Writers) /\ writers' \in [Writers -> Writer \cup {None}]
      /\ writers'[w] = [r EXCEPT !.at = "saving"] /\ writers'[w] # None
      /\ \A v \in Writers \ {w} : writers'[v] = writers[v]
      /\ OpenAreThere' /\ RequestsFit'
      /\ \A p \in promised' : /\ p[1] \in open' /\ p[2] \in objects'[p[1]]
                              /\ \/ p \in promised
                                 \/ p = <<r.issue, w>> /\ r.does = "comment"
  BY <1>1, SavesFit
<1>3. backend' = backend /\ disk' = disk /\ torn' = torn
  BY <1>1 DEF Saves
<1>4. r \in Writer /\ r.at = "read" /\ r # None
  BY <1>1, RequestsAreTyped DEF Saves, AtRead, IssuesInv
<1>5. /\ writers'[w].at = "saving" /\ writers'[w].does = r.does /\ writers'[w].issue = r.issue
  BY <1>2, <1>4 DEF Writer
<1>6. Snapshot(objects', open') \in Contents
  <2>1. \A i \in open' : objects'[i] \in SUBSET Writers
    BY <1>2 DEF OpenAreThere
  <2> QED BY <1>2, <2>1, SnapshotsAreContents
<1>7. e \in T
  BY <1>6
<1>8. e.by = w /\ e.snapshot = Snapshot(objects', open')
  OBVIOUS
<1>9. chain \in Seq(T)
  BY DEF IssuesInv, IssuesTypeOK
<1> HIDE DEF e, T
<1>10. /\ chain' \in Seq(T) /\ Len(chain') = Len(chain) + 1
       /\ \A m \in 1 .. Len(chain) : chain'[m] = chain[m]
       /\ chain'[Len(chain) + 1] = e
  BY <1>1, <1>7, <1>9, QueueGrows
<1>11. Len(chain) \in Nat
  BY <1>9
<1>12. IssuesTypeOK'
  BY <1>2, <1>3, <1>10 DEF IssuesInv, IssuesTypeOK, T
<1>13. ASSUME NEW n \in 1 .. Len(chain)
       PROVE  chain[n].by \in Writers \ {w}
  BY <1>4, <1>13, QueueIsTyped DEF IssuesInv, QueueFits, AtSave
<1>14. QueueFits'
  <2>1. ASSUME NEW n \in 1 .. Len(chain')
        PROVE  writers'[chain'[n].by] # None /\ writers'[chain'[n].by].at = "saving"
    <3>1. CASE n \in 1 .. Len(chain)
      BY <1>2, <1>10, <1>13, <3>1 DEF IssuesInv, QueueFits, AtSave
    <3>2. CASE n = Len(chain) + 1
      BY <1>2, <1>5, <1>8, <1>10, <3>2
    <3> QED BY <1>10, <1>11, <2>1, <3>1, <3>2
  <2>2. ASSUME NEW n \in 1 .. Len(chain'), NEW m \in 1 .. Len(chain'), chain'[n].by = chain'[m].by
        PROVE  n = m
    <3>1. CASE n \in 1 .. Len(chain) /\ m \in 1 .. Len(chain)
      BY <1>10, <2>2, <3>1 DEF IssuesInv, QueueFits
    <3>2. CASE n = Len(chain) + 1 /\ m \in 1 .. Len(chain)
      BY <1>8, <1>10, <1>13, <2>2, <3>2
    <3>3. CASE n \in 1 .. Len(chain) /\ m = Len(chain) + 1
      BY <1>8, <1>10, <1>13, <2>2, <3>3
    <3>4. CASE n = Len(chain) + 1 /\ m = Len(chain) + 1
      BY <3>4
    <3> QED BY <1>10, <1>11, <3>1, <3>2, <3>3, <3>4
  <2> QED BY <2>1, <2>2 DEF QueueFits, AtSave
<1>15. ASSUME NEW p \in promised'
       PROVE  Keeps(e.snapshot, p)
  BY <1>2, <1>8, <1>15 DEF Keeps, Snapshot
<1>16. ASSUME NEW p \in promised'
       PROVE  IF Underway(p)'
              THEN \E k \in 1 .. Len(chain') :
                     /\ chain'[k].by = p[2]
                     /\ \A m \in k .. Len(chain') : Keeps(chain'[m].snapshot, p)
              ELSE /\ disk' # None => Keeps(disk', p)
                   /\ \A m \in 1 .. Len(chain') : Keeps(chain'[m].snapshot, p)
  <2>1. p[2] \in Writers
    BY <1>2, <1>16
  <2>2. CASE p[2] = w /\ Underway(p)'
    <3>1. /\ Len(chain) + 1 \in 1 .. Len(chain') /\ chain'[Len(chain) + 1].by = p[2]
          /\ \A m \in Len(chain) + 1 .. Len(chain') : Keeps(chain'[m].snapshot, p)
      BY <1>8, <1>10, <1>11, <1>15, <1>16, <2>2
    <3> QED BY <2>2, <3>1
  <2>3. CASE p[2] # w /\ Underway(p)'
    <3>1. Underway(p) /\ p \in promised
      BY <1>2, <1>16, <2>1, <2>3 DEF Underway
    <3>2. PICK k \in 1 .. Len(chain) :
            /\ chain[k].by = p[2]
            /\ \A m \in k .. Len(chain) : Keeps(chain[m].snapshot, p)
      BY <1>1, <3>1 DEF IssuesInv, PromisesKept
    <3>3. k \in 1 .. Len(chain') /\ chain'[k].by = p[2]
      BY <1>10, <1>11, <3>2
    <3>4. ASSUME NEW m \in k .. Len(chain')
          PROVE  Keeps(chain'[m].snapshot, p)
      <4>1. CASE m = Len(chain) + 1
        BY <1>10, <1>15, <1>16, <4>1
      <4>2. CASE m # Len(chain) + 1
        <5>1. m \in 1 .. Len(chain) /\ m \in k .. Len(chain)
          BY <1>10, <1>11, <3>2, <3>4, <4>2
        <5> QED BY <1>10, <3>2, <5>1
      <4> QED BY <4>1, <4>2
    <3> QED BY <2>3, <3>3, <3>4
  <2>4. CASE ~Underway(p)'
    <3>1. p \in promised
      <4>1. ASSUME p = <<r.issue, w>>, r.does = "comment"
            PROVE  FALSE
        BY <1>2, <1>5, <2>4, <4>1 DEF Underway
      <4> QED BY <1>2, <1>16, <4>1
    <3>2. ~Underway(p)
      <4>1. CASE p[2] = w
        BY <1>4, <4>1 DEF Underway
      <4>2. CASE p[2] # w
        BY <1>2, <2>1, <2>4, <4>2 DEF Underway
      <4> QED BY <4>1, <4>2
    <3>3. /\ disk # None => Keeps(disk, p)
          /\ \A m \in 1 .. Len(chain) : Keeps(chain[m].snapshot, p)
      BY <1>1, <3>1, <3>2 DEF IssuesInv, PromisesKept
    <3>4. ASSUME NEW m \in 1 .. Len(chain')
          PROVE  Keeps(chain'[m].snapshot, p)
      <4>1. CASE m = Len(chain) + 1
        BY <1>10, <1>15, <1>16, <4>1
      <4>2. CASE m # Len(chain) + 1
        <5>1. m \in 1 .. Len(chain)
          BY <1>10, <1>11, <3>4, <4>2
        <5> QED BY <1>10, <3>3, <5>1
      <4> QED BY <4>1, <4>2
    <3> QED BY <1>3, <2>4, <3>3, <3>4
  <2> QED BY <2>2, <2>3, <2>4
<1>17. PromisesKept'
  <2>1. \A s, p : Keeps(s, p)' <=> Keeps(s, p)
    BY DEF Keeps
  <2>2. \A p \in promised' : p[1] \in open' /\ p[2] \in objects'[p[1]]
    BY <1>2
  <2> QED BY <1>16, <2>2 DEF PromisesKept, Keeps
<1> QED BY <1>2, <1>12, <1>14, <1>17 DEF IssuesInv

----------------------------------------------------------------------------
(* The file *)

LEMMA LandedKeepsIssues ==
    ASSUME IssuesInv, NEW n \in 1 .. Len(chain), Turn(n), Landed(n)
    PROVE  IssuesInv'
<1> DEFINE T == [by : Writers, snapshot : Contents]
           v == chain[1].by
<1>1. /\ n = 1 /\ disk' = chain[1].snapshot /\ writers' = [writers EXCEPT ![v].at = "done"]
      /\ chain' = SubSeq(chain, 1, 1 - 1) \o SubSeq(chain, 1 + 1, Len(chain)) /\ torn' = FALSE
      /\ UNCHANGED <<backend, objects, open, promised>>
  BY DEF Turn, Landed
<1>2. chain \in Seq(T) /\ Len(chain) \in Nat /\ Len(chain) >= 1
  BY DEF IssuesInv, IssuesTypeOK
<1>3. chain[1] \in T /\ v \in Writers /\ chain[1].snapshot \in Contents
  <2>1. chain[1] \in T
    BY <1>1, QueueIsTyped DEF IssuesInv
  <2> QED BY <2>1
<1>4. writers[v] # None /\ writers[v].at = "saving" /\ writers[v] \in Writer
  <2>1. AtSave(v)
    BY <1>1 DEF IssuesInv, QueueFits
  <2> QED BY <1>3, <2>1, RequestsAreTyped DEF AtSave, IssuesInv
<1>5. writers \in [Writers -> Writer \cup {None}]
  BY DEF IssuesInv, IssuesTypeOK
<1> HIDE DEF T
<1>6. /\ chain' \in Seq(T) /\ Len(chain') = Len(chain) - 1
      /\ \A m \in 1 .. Len(chain') : chain'[m] = chain[m + 1]
  BY <1>1, <1>2, QueueMovesUp
<1> DEFINE q == [writers[v] EXCEPT !.at = "done"]
<1>7. /\ q \in Writer /\ q.at = "done" /\ q.does = writers[v].does /\ q.issue = writers[v].issue
      /\ q.copy = writers[v].copy
  BY <1>4 DEF Writer
<1>8. writers' = [writers EXCEPT ![v] = q]
  BY <1>1
<1> HIDE DEF q
<1>9. /\ writers'[v] = q /\ \A u \in Writers \ {v} : writers'[u] = writers[u]
      /\ writers' \in [Writers -> Writer \cup {None}]
  BY <1>3, <1>5, <1>7, <1>8
<1>10. q # None
  BY <1>7, IssuesAssumption
<1>11. IssuesTypeOK'
  BY <1>1, <1>3, <1>6, <1>9 DEF IssuesInv, IssuesTypeOK, T
<1>12. OpenAreThere'
  BY <1>1 DEF IssuesInv, OpenAreThere
<1>13. RequestsFit'
  <2> SUFFICES ASSUME NEW u \in Writers, writers'[u] # None
               PROVE  IF writers'[u].does = "create"
                      THEN writers'[u].at = "read" =>
                             /\ objects[writers'[u].issue] = None
                             /\ \A z \in Writers \ {u} : writers'[z] # None
                                                           => writers'[z].issue # writers'[u].issue
                      ELSE objects[writers'[u].issue] # None /\ writers'[u].copy # None
    BY <1>1 DEF RequestsFit
  <2>1. writers[u] # None /\ writers'[u].does = writers[u].does /\ writers'[u].issue = writers[u].issue
          /\ writers'[u].copy = writers[u].copy /\ (writers'[u].at = "read" => writers[u].at = "read")
    BY <1>4, <1>7, <1>9
  <2>2. ASSUME NEW z \in Writers, writers'[z] # None
        PROVE  writers[z] # None /\ writers'[z].issue = writers[z].issue
    BY <1>4, <1>7, <1>9, <2>2
  <2>3. CASE writers[u].does # "create"
    BY <2>1, <2>3 DEF IssuesInv, RequestsFit
  <2>4. CASE writers[u].does = "create" /\ writers[u].at = "read"
    <3>1. /\ objects[writers[u].issue] = None
          /\ \A z \in Writers \ {u} : writers[z] # None => writers[z].issue # writers[u].issue
      BY <2>1, <2>4 DEF IssuesInv, RequestsFit
    <3> QED BY <2>1, <2>2, <2>4, <3>1
  <2> QED BY <2>1, <2>3, <2>4
<1>14. ASSUME NEW m \in 1 .. Len(chain')
       PROVE  m + 1 \in 1 .. Len(chain) /\ chain'[m] = chain[m + 1] /\ chain[m + 1].by \in Writers \ {v}
  <2>1. m + 1 \in 1 .. Len(chain) /\ m + 1 # 1 /\ chain'[m] = chain[m + 1] /\ 1 \in 1 .. Len(chain)
    BY <1>2, <1>6, <1>14
  <2>2. chain[m + 1].by \in Writers
    BY <2>1, QueueIsTyped DEF IssuesInv
  <2>3. chain[m + 1].by # v
    BY <2>1 DEF IssuesInv, QueueFits
  <2> QED BY <2>1, <2>2, <2>3
<1>15. QueueFits'
  <2>1. \A m \in 1 .. Len(chain') : writers'[chain'[m].by] # None /\ writers'[chain'[m].by].at = "saving"
    BY <1>9, <1>14 DEF IssuesInv, QueueFits, AtSave
  <2>2. ASSUME NEW k \in 1 .. Len(chain'), NEW m \in 1 .. Len(chain'), chain'[k].by = chain'[m].by
        PROVE  k = m
    <3>1. k + 1 = m + 1
      BY <1>14, <2>2 DEF IssuesInv, QueueFits
    <3> QED BY <3>1
  <2> QED BY <2>1, <2>2 DEF QueueFits, AtSave
<1>16. ASSUME NEW p \in promised, backend = "json"
       PROVE  IF Underway(p)'
              THEN \E k \in 1 .. Len(chain') :
                     /\ chain'[k].by = p[2]
                     /\ \A m \in k .. Len(chain') : Keeps(chain'[m].snapshot, p)
              ELSE /\ disk' # None => Keeps(disk', p)
                   /\ \A m \in 1 .. Len(chain') : Keeps(chain'[m].snapshot, p)
  <2>1. p[2] \in Writers
    BY DEF IssuesInv, IssuesTypeOK
  <2>2. CASE Underway(p)'
    <3>1. Underway(p) /\ p[2] # v
      BY <1>7, <1>9, <2>1, <2>2 DEF Underway
    <3>2. PICK k \in 1 .. Len(chain) :
            /\ chain[k].by = p[2]
            /\ \A m \in k .. Len(chain) : Keeps(chain[m].snapshot, p)
      BY <1>16, <3>1 DEF IssuesInv, PromisesKept
    <3>3. k # 1
      BY <3>1, <3>2
    <3>4. k - 1 \in 1 .. Len(chain')
      BY <1>2, <1>6, <3>2, <3>3
    <3>5. chain'[k - 1] = chain[k]
      <4>1. chain'[k - 1] = chain[(k - 1) + 1]
        BY <1>6, <3>4
      <4> QED BY <4>1, <3>2
    <3>6. ASSUME NEW m \in k - 1 .. Len(chain')
          PROVE  Keeps(chain'[m].snapshot, p)
      <4>1. m \in 1 .. Len(chain') /\ m + 1 \in k .. Len(chain)
        BY <1>2, <1>6, <3>2, <3>4, <3>6
      <4> QED BY <1>14, <3>2, <4>1
    <3> QED BY <2>2, <3>2, <3>4, <3>5, <3>6
  <2>3. CASE ~Underway(p)'
    <3>1. \A m \in 1 .. Len(chain) : Keeps(chain[m].snapshot, p)
      <4>1. CASE Underway(p)
        <5>1. p[2] = v
          BY <1>9, <2>1, <2>3, <4>1 DEF Underway
        <5>2. PICK k \in 1 .. Len(chain) :
                /\ chain[k].by = p[2]
                /\ \A m \in k .. Len(chain) : Keeps(chain[m].snapshot, p)
          BY <1>16, <4>1 DEF IssuesInv, PromisesKept
        <5>3. k = 1
          BY <1>1, <5>1, <5>2 DEF IssuesInv, QueueFits
        <5> QED BY <5>2, <5>3
      <4>2. CASE ~Underway(p)
        BY <1>16, <4>2 DEF IssuesInv, PromisesKept
      <4> QED BY <4>1, <4>2
    <3>2. Keeps(disk', p)
      BY <1>1, <3>1
    <3>3. \A m \in 1 .. Len(chain') : Keeps(chain'[m].snapshot, p)
      BY <1>14, <3>1
    <3> QED BY <2>3, <3>2, <3>3
  <2> QED BY <2>2, <2>3
<1>17. PromisesKept'
  BY <1>1, <1>16 DEF IssuesInv, PromisesKept, Keeps
<1> QED BY <1>11, <1>12, <1>13, <1>15, <1>17 DEF IssuesInv


LEMMA RefusedKeepsIssues ==
    ASSUME IssuesInv, NEW n \in 1 .. Len(chain), RenameRefused(n)
    PROVE  IssuesInv'
<1>1. /\ disk' = None /\ torn' = TRUE
      /\ UNCHANGED <<backend, objects, open, chain, writers, promised>>
  BY DEF RenameRefused
<1>2. IssuesTypeOK'
  BY <1>1 DEF IssuesInv, IssuesTypeOK
<1>3. OpenAreThere' /\ RequestsFit' /\ QueueFits'
  BY <1>1 DEF IssuesInv, OpenAreThere, RequestsFit, QueueFits, AtSave
<1>4. PromisesKept'
  BY <1>1 DEF IssuesInv, PromisesKept, Keeps, Underway
<1> QED BY <1>2, <1>3, <1>4 DEF IssuesInv

----------------------------------------------------------------------------
(* The process *)

LEMMA RestartKeepsIssues ==
    ASSUME IssuesInv, Restarted
    PROVE  IssuesInv'
<1> DEFINE T == [by : Writers, snapshot : Contents]
<1>1. /\ writers' = [w \in Writers |-> None] /\ chain' = <<>> /\ torn' = FALSE
      /\ backend' = backend /\ disk' = disk
  BY DEF Restarted
<1>2. backend \in {"json", "table"} /\ disk \in Contents \cup {None}
  BY DEF IssuesInv, IssuesTypeOK
<1>3. chain' \in Seq(T) /\ Len(chain') = 0
  <2> HIDE DEF T
  <2> QED BY <1>1
<1>4. writers' \in [Writers -> Writer \cup {None}] /\ \A w \in Writers : writers'[w] = None
  BY <1>1
<1>5. RequestsFit' /\ QueueFits'
  BY <1>3, <1>4 DEF RequestsFit, QueueFits
<1>6. /\ objects \in [Issues -> (SUBSET Writers) \cup {None}] /\ open \subseteq Issues
      /\ promised \subseteq Issues \X Writers
  BY DEF IssuesInv, IssuesTypeOK
<1>7. CASE backend = "json" /\ disk = None
  <2>1. FileContents = [i \in {} |-> {}]
    BY <1>7 DEF FileContents
  <2>2. DOMAIN FileContents = {}
    BY <2>1
  <2>3. open' = {} /\ promised' = {}
    BY <1>7, <2>2 DEF Restarted
  <2>4. objects' = [i \in Issues |-> IF objects[i] = None THEN None ELSE {}]
    BY <1>7, <2>2 DEF Restarted
  <2>5. objects' \in [Issues -> (SUBSET Writers) \cup {None}]
    BY <2>4
  <2>6. IssuesTypeOK'
    BY <1>1, <1>2, <1>3, <1>4, <2>3, <2>5 DEF IssuesTypeOK, T
  <2>7. OpenAreThere' /\ PromisesKept'
    BY <2>3 DEF OpenAreThere, PromisesKept
  <2> QED BY <1>5, <2>6, <2>7 DEF IssuesInv
<1>8. CASE backend = "json" /\ disk # None
  <2>1. FileContents = disk /\ disk \in Contents
    BY <1>2, <1>8 DEF FileContents
  <2>2. /\ DOMAIN disk \in SUBSET Issues
        /\ \A i \in DOMAIN disk : disk[i] \in SUBSET Writers
    BY <2>1, ContentsHaveSets
  <2>3. open' = DOMAIN disk /\ promised' = {p \in promised : ~Underway(p)}
    BY <1>8, <2>1 DEF Restarted
  <2>4. objects' = [i \in Issues |-> IF i \in DOMAIN disk THEN disk[i]
                                     ELSE IF objects[i] = None THEN None ELSE {}]
    BY <1>8, <2>1 DEF Restarted
  <2>5. objects' \in [Issues -> (SUBSET Writers) \cup {None}]
    BY <2>2, <2>4
  <2>6. IssuesTypeOK'
    BY <1>1, <1>2, <1>3, <1>4, <1>6, <2>2, <2>3, <2>5 DEF IssuesTypeOK, T
  <2>7. OpenAreThere'
    BY <2>2, <2>3, <2>4, IssuesAssumption DEF OpenAreThere
  <2>8. ASSUME NEW p \in promised'
        PROVE  /\ p[1] \in open' /\ p[2] \in objects'[p[1]]
               /\ Keeps(disk', p) /\ ~(Underway(p)')
    <3>1. p \in promised /\ ~Underway(p) /\ p[1] \in Issues /\ p[2] \in Writers
      BY <1>6, <2>3
    <3>2. Keeps(disk, p)
      BY <1>8, <3>1 DEF IssuesInv, PromisesKept
    <3>3. p[1] \in open' /\ p[2] \in objects'[p[1]]
      BY <2>3, <2>4, <3>1, <3>2 DEF Keeps
    <3>4. ~(Underway(p)')
      BY <1>4, <3>1 DEF Underway
    <3> QED BY <1>1, <3>2, <3>3, <3>4
  <2>9. PromisesKept'
    BY <1>3, <2>8 DEF PromisesKept
  <2> QED BY <1>5, <2>6, <2>7, <2>9 DEF IssuesInv
<1>9. CASE backend = "table"
  <2>1. UNCHANGED <<open, objects, promised>>
    BY <1>9 DEF Restarted
  <2>2. IssuesTypeOK'
    BY <1>1, <1>2, <1>3, <1>4, <1>6, <2>1 DEF IssuesTypeOK, T
  <2>3. OpenAreThere'
    BY <2>1 DEF IssuesInv, OpenAreThere
  <2>4. PromisesKept'
    BY <1>1, <1>9, <2>1 DEF IssuesInv, PromisesKept
  <2> QED BY <1>5, <2>2, <2>3, <2>4 DEF IssuesInv
<1> QED BY <1>2, <1>7, <1>8, <1>9

----------------------------------------------------------------------------
(* The theorems *)

LEMMA IssuesStart == IssuesInit => IssuesInv
<1> SUFFICES ASSUME IssuesInit PROVE IssuesInv
  OBVIOUS
<1> DEFINE T == [by : Writers, snapshot : Contents]
<1>1. /\ backend \in {"json", "table"} /\ open \in SUBSET Issues
      /\ objects = [i \in Issues |-> IF i \in open THEN {} ELSE None]
      /\ disk = Snapshot(objects, open) /\ chain = <<>> /\ torn = FALSE
      /\ writers = [w \in Writers |-> None] /\ promised = {}
  BY DEF IssuesInit
<1>2. objects \in [Issues -> (SUBSET Writers) \cup {None}]
  BY <1>1
<1>3. \A i \in open : objects[i] = {} /\ objects[i] \in SUBSET Writers
  BY <1>1
<1>4. disk \in Contents
  BY <1>1, <1>3, SnapshotsAreContents
<1>5. chain \in Seq(T) /\ Len(chain) = 0
  <2> HIDE DEF T
  <2> QED BY <1>1
<1>6. IssuesTypeOK
  BY <1>1, <1>2, <1>4, <1>5 DEF IssuesTypeOK, T
<1>7. OpenAreThere
  BY <1>3, IssuesAssumption DEF OpenAreThere
<1>8. RequestsFit /\ QueueFits /\ PromisesKept
  BY <1>1, <1>5 DEF RequestsFit, QueueFits, PromisesKept
<1> QED BY <1>6, <1>7, <1>8 DEF IssuesInv

LEMMA IssuesStep == IssuesInv /\ [IssuesNext]_<<issuesVars, spent>> => IssuesInv'
<1> SUFFICES ASSUME IssuesInv, [IssuesNext]_<<issuesVars, spent>> PROVE IssuesInv'
  OBVIOUS
<1>1. ASSUME NEW w \in Writers, NEW i \in Issues, NEW d \in {"create", "comment", "edit", "delete"},
             Begins(w, d, i)
      PROVE  IssuesInv'
  BY <1>1, BeginsKeepsIssues
<1>2. ASSUME NEW w \in Writers, JsonSaves(w) \/ TableSaves(w) \/ Answers(w)
      PROVE  IssuesInv'
  BY <1>2, JsonSavesKeepsIssues, TableSavesKeepsIssues, AnswersKeepsIssues
<1>3. ASSUME Restarted
      PROVE  IssuesInv'
  BY <1>3, RestartKeepsIssues
<1>4. ASSUME NEW n \in 1 .. Len(chain), FileRenamed(n) \/ RenameRefused(n) \/ WrittenOver(n)
      PROVE  IssuesInv'
  BY <1>4, LandedKeepsIssues, RefusedKeepsIssues DEF FileRenamed, WrittenOver
<1>5. CASE UNCHANGED <<issuesVars, spent>>
  BY <1>5 DEF issuesVars, IssuesInv, IssuesTypeOK, OpenAreThere, RequestsFit, QueueFits, AtSave,
              PromisesKept, Keeps, Underway
<1> QED
  BY <1>1, <1>2, <1>3, <1>4, <1>5 DEF IssuesNext, CallRejected, IssuesCrash

\* The issue log keeps its types: what the collection, the file, the queue
\* of snapshots and the requests hold on either store.
THEOREM IssuesTypeCorrect == IssuesSpec => []IssuesTypeOK
<1>1. IssuesInv => IssuesTypeOK
  BY DEF IssuesInv
<1> QED BY IssuesStart, IssuesStep, <1>1, PTL DEF IssuesSpec

\* A comment answered with 201 stays in its issue and in the file that the
\* next start reads, for any number of requests and issues: the save on
\* which the answer waited is the last that may lack the comment, and every
\* snapshot queued behind it has it.
THEOREM AnsweredIsKeptAlways == IssuesSpec => []AnsweredIsKept
<1>1. IssuesInv => AnsweredIsKept
  BY DEF IssuesInv, PromisesKept, AnsweredIsKept, Keeps
<1> QED BY IssuesStart, IssuesStep, <1>1, PTL DEF IssuesSpec


----------------------------------------------------------------------------
(* The settings *)

KindOps == {"addType", "removeType"}

RequestFits(w) ==
    /\ w.op = "none" => w.key = None
    /\ w.op \in KindOps => w.key \in {"types", "configs"} /\ w.arg \in Kinds
    /\ w.op = "setConfig" => w.key = "configs"
    /\ w.op = "setRule" => w.key \in {"rule", "configs"}
    /\ w.op \in {"putTarget", "postTarget"} => w.key = "targets" /\ w.arg \in Targets /\ w.place \in Places
    /\ w.op = "resolve" => w.key \in {"targets", "active"} /\ w.arg \in Targets /\ w.place \in Places
    /\ w.op = "select" => w.key = "active" /\ w.arg \in Targets /\ w.place \in Places
    /\ w.op = "removeTarget" => w.key \in {"active", "targets"}
    /\ w.key # None => w.copy \in SettingsRecord

Writes(c, k) == requests[c].key = k

\* Memory is ahead of the repository in key k, which request c goes on to write:
\* resolve changes memory when it goes on, the others before.
Owes(c, k) ==
    /\ requests[c].key # None /\ requests[c].op # "resolve"
    /\ NextKey(requests[c].op, requests[c].key) = k

\* Equal, or read alike since the last start.
Same(k) == repo[k] = mem[k] \/ (k = "configs" /\ mem.configs = Shown(repo).configs)

KeyAgrees(k) ==
    k \notin unsure =>
      /\ \A c, d \in Managers : Writes(c, k) /\ Writes(d, k) => c = d
      /\ (\A c \in Managers : ~Owes(c, k)) =>
           /\ \A c \in Managers : Writes(c, k) => requests[c].copy[k] = mem[k]
           /\ (\A c \in Managers : ~Writes(c, k)) => Same(k)

\* What request w about targets knows of the target it is about.
Placed(w) ==
    /\ w.op = "select" => mem.active = w.arg /\ w.place = mem.targets[w.arg]
    /\ w.op = "resolve" => /\ w.place = mem.targets[w.arg]
                           /\ w.key = "active" => mem.active = w.arg
    /\ w.op = "putTarget" => /\ w.place = mem.targets[w.arg]
                             /\ mem.active # w.arg => live.place = PlaceInUse(mem)
    /\ w.op = "postTarget" => live.place = PlaceInUse(mem)

\* One request about targets at a time, and the library where it leaves it.
LiveAgrees ==
    "place" \notin unsure =>
      /\ \A c, d \in Managers : requests[c].op \in TargetOps /\ requests[d].op \in TargetOps => c = d
      /\ NoneOf(TargetOps) => live.place = PlaceInUse(mem)
      /\ \A c \in Managers : Placed(requests[c])

SettingsInv ==
    /\ SettingsTypeOK
    /\ PlaceInUse(mem) # None
    /\ \A c \in Managers : RequestFits(requests[c])
    /\ \A k \in Keys : KeyAgrees(k)
    /\ LiveAgrees
    /\ FoldersFollowTheRule

\* What the start of a request does to memory, whatever it is.
LEMMA StartsFit ==
    ASSUME SettingsInv, NEW c \in Managers, NEW op, NEW x, RequestStarts(c, op, x),
           \/ op \in KindOps \cup {"setConfig"} /\ x \in Kinds
           \/ op = "setRule" /\ x \in Rules
           \/ op \in TargetOps /\ x \in Targets
    PROVE  LET k == KeyOf(op, x)
               w == [op |-> op, arg |-> x, key |-> k, copy |-> mem',
                     place |-> IF op \in TargetOps THEN mem'.targets[x] ELSE None]
           IN  /\ mem' \in SettingsRecord /\ PlaceInUse(mem') # None
               /\ k \in Keys /\ k # NextKey(op, k)
               /\ \A j \in Keys : j # k /\ (op = "resolve" \/ j # NextKey(op, k)) => mem'[j] = mem[j]
               /\ op \notin TargetOps => UNCHANGED <<mem.targets, mem.active>>
               /\ op = "select" => mem'.active = x
               /\ op \in {"putTarget", "postTarget", "resolve"}
                     => mem'.active = mem.active /\ \A y \in Targets \ {x} : mem'.targets[y] = mem.targets[y]
               /\ op = "resolve" => k = "targets"
               /\ op # "setRule" => mem'.rule = mem.rule
               /\ w \in Request /\ RequestFits(w)
<1> DEFINE k == KeyOf(op, x)
           w == [op |-> op, arg |-> x, key |-> k, copy |-> mem',
                 place |-> IF op \in TargetOps THEN mem'.targets[x] ELSE None]
<1>1. mem \in SettingsRecord /\ PlaceInUse(mem) # None
  BY DEF SettingsInv, SettingsTypeOK
<1>2. mem' \in Changed(mem, op, x) /\ Possible(op, x)
  BY DEF RequestStarts
<1> DEFINE Goal == /\ mem' \in SettingsRecord /\ PlaceInUse(mem') # None
                   /\ k \in Keys /\ k # NextKey(op, k)
                   /\ \A j \in Keys : j # k /\ (op = "resolve" \/ j # NextKey(op, k)) => mem'[j] = mem[j]
                   /\ op \notin TargetOps => UNCHANGED <<mem.targets, mem.active>>
                   /\ op = "select" => mem'.active = x
                   /\ op \in {"putTarget", "postTarget", "resolve"}
                         => mem'.active = mem.active /\ \A y \in Targets \ {x} : mem'.targets[y] = mem.targets[y]
                   /\ op = "resolve" => k = "targets"
                   /\ op # "setRule" => mem'.rule = mem.rule
                   /\ w \in Request /\ RequestFits(w)
<1>4. CASE op = "addType" /\ x \in Kinds
  <2>1. k = "types" /\ NextKey(op, k) = "configs"
    BY <1>4 DEF KeyOf, NextKey
  <2>2. mem' = [mem EXCEPT !.types = @ \cup {x}]
    BY <1>2, <1>4 DEF Changed
  <2>3. x \in Kinds
    BY <1>4
  <2>4. /\ mem' \in SettingsRecord
        /\ \A j \in Keys : j # "types" => mem'[j] = mem[j]
    BY <1>1, <1>4, <2>2, <2>3 DEF SettingsRecord, Keys
  <2>5. /\ mem'.targets = mem.targets /\ mem'.active = mem.active
        /\ op # "setRule" => mem'.rule = mem.rule
    BY <1>1, <1>4, <2>2 DEF SettingsRecord
  <2>6. PlaceInUse(mem') = PlaceInUse(mem)
    BY <2>5 DEF PlaceInUse
  <2>7. op \notin TargetOps
    BY <1>4 DEF TargetOps
  <2>8. w.place = None
    BY <2>7
  <2>9. w \in Request /\ RequestFits(w)
    BY <1>4, <2>1, <2>4, <2>7, <2>8 DEF Request, RequestFits, KindOps, Keys
  <2> QED BY <1>1, <1>4, <2>1, <2>4, <2>5, <2>6, <2>7, <2>9, SettingsAssumption DEF Keys, TargetOps
<1>5. CASE op = "removeType" /\ x \in Kinds
  <2>1. k = "types" /\ NextKey(op, k) = "configs"
    BY <1>5 DEF KeyOf, NextKey
  <2>2. mem' = [mem EXCEPT !.types = @ \ {x}]
    BY <1>2, <1>5 DEF Changed
  <2>3. x \in Kinds
    BY <1>5
  <2>4. /\ mem' \in SettingsRecord
        /\ \A j \in Keys : j # "types" => mem'[j] = mem[j]
    BY <1>1, <1>5, <2>2, <2>3 DEF SettingsRecord, Keys
  <2>5. /\ mem'.targets = mem.targets /\ mem'.active = mem.active
        /\ op # "setRule" => mem'.rule = mem.rule
    BY <1>1, <1>5, <2>2 DEF SettingsRecord
  <2>6. PlaceInUse(mem') = PlaceInUse(mem)
    BY <2>5 DEF PlaceInUse
  <2>7. op \notin TargetOps
    BY <1>5 DEF TargetOps
  <2>8. w.place = None
    BY <2>7
  <2>9. w \in Request /\ RequestFits(w)
    BY <1>5, <2>1, <2>4, <2>7, <2>8 DEF Request, RequestFits, KindOps, Keys
  <2> QED BY <1>1, <1>5, <2>1, <2>4, <2>5, <2>6, <2>7, <2>9, SettingsAssumption DEF Keys, TargetOps
<1>6. CASE op = "setConfig" /\ x \in Kinds
  <2>1. k = "configs" /\ NextKey(op, k) = None
    BY <1>6 DEF KeyOf, NextKey
  <2>2. PICK r \in Rules : mem' = [mem EXCEPT !.configs[x] = r]
    BY <1>2, <1>6 DEF Changed
  <2>3. x \in Kinds
    BY <1>6
  <2>4. /\ mem' \in SettingsRecord
        /\ \A j \in Keys : j # "configs" => mem'[j] = mem[j]
    BY <1>1, <1>6, <2>2, <2>3 DEF SettingsRecord, Keys
  <2>5. /\ mem'.targets = mem.targets /\ mem'.active = mem.active
        /\ op # "setRule" => mem'.rule = mem.rule
    BY <1>1, <1>6, <2>2 DEF SettingsRecord
  <2>6. PlaceInUse(mem') = PlaceInUse(mem)
    BY <2>5 DEF PlaceInUse
  <2>7. op \notin TargetOps
    BY <1>6 DEF TargetOps
  <2>8. w.place = None
    BY <2>7
  <2>9. w \in Request /\ RequestFits(w)
    BY <1>6, <2>1, <2>4, <2>7, <2>8 DEF Request, RequestFits, KindOps, Keys
  <2> QED BY <1>1, <1>6, <2>1, <2>4, <2>5, <2>6, <2>7, <2>9, SettingsAssumption DEF Keys, TargetOps
<1>7. CASE op = "setRule" /\ x \in Rules
  <2>1. k = "rule" /\ NextKey(op, k) = "configs"
    BY <1>7 DEF KeyOf, NextKey
  <2> DEFINE g == [t \in Kinds |-> IF mem.configs[t] = mem.rule THEN x ELSE mem.configs[t]]
  <2>2. mem' = [mem EXCEPT !.rule = x, !.configs = g]
    BY <1>2, <1>7 DEF Changed
  <2>3. g \in [Kinds -> Rules \cup {None}]
    BY <1>1, <1>7 DEF SettingsRecord
  <2> HIDE DEF g
  <2>4. /\ mem' \in SettingsRecord
        /\ \A j \in Keys : j \notin {"rule", "configs"} => mem'[j] = mem[j]
    BY <1>1, <1>7, <2>2, <2>3 DEF SettingsRecord, Keys
  <2>5. /\ mem'.targets = mem.targets /\ mem'.active = mem.active
        /\ op # "setRule" => mem'.rule = mem.rule
    BY <1>1, <1>7, <2>2 DEF SettingsRecord
  <2>6. PlaceInUse(mem') = PlaceInUse(mem)
    BY <2>5 DEF PlaceInUse
  <2>7. op \notin TargetOps
    BY <1>7 DEF TargetOps
  <2>8. w.place = None
    BY <2>7
  <2>9. w \in Request /\ RequestFits(w)
    BY <1>7, <2>1, <2>4, <2>7, <2>8 DEF Request, RequestFits, KindOps, Keys
  <2> QED BY <1>1, <1>7, <2>1, <2>4, <2>5, <2>6, <2>7, <2>9, SettingsAssumption DEF Keys, TargetOps
<1>8. CASE op \in {"putTarget", "postTarget", "resolve"} /\ x \in Targets
  <2>1. /\ k = "targets" /\ op \in TargetOps
        /\ NextKey(op, k) = IF op = "resolve" THEN "active" ELSE None
    BY <1>8 DEF KeyOf, NextKey, TargetOps
  <2>2. PICK p \in Places : mem' = TargetSaved(mem, x, p)
    BY <1>2, <1>8 DEF Changed
  <2>3. mem' = [mem EXCEPT !.targets[x] = p] /\ p # None
    BY <2>2, SettingsAssumption DEF TargetSaved
  <2>4. /\ mem' \in SettingsRecord
        /\ \A j \in Keys : j # "targets" => mem'[j] = mem[j]
    BY <1>1, <1>8, <2>3 DEF SettingsRecord, Keys
  <2>5. /\ mem'.active = mem.active /\ mem'.rule = mem.rule /\ mem'.targets[x] = p
        /\ \A y \in Targets \ {x} : mem'.targets[y] = mem.targets[y]
    BY <1>1, <1>8, <2>3 DEF SettingsRecord
  <2>6. PlaceInUse(mem') # None
    BY <1>1, <2>3, <2>5 DEF PlaceInUse, SettingsRecord
  <2>7. w.place = p
    BY <2>1, <2>5
  <2>8. w \in Request /\ RequestFits(w)
    BY <1>8, <2>1, <2>4, <2>7 DEF Request, RequestFits, KindOps, Keys, TargetOps
  <2> QED BY <1>8, <2>1, <2>4, <2>5, <2>6, <2>8, SettingsAssumption DEF Keys
<1>9. CASE op = "select" /\ x \in Targets
  <2>1. k = "active" /\ NextKey(op, k) = None /\ op \in TargetOps
    BY <1>9 DEF KeyOf, NextKey, TargetOps
  <2>2. mem' = [mem EXCEPT !.active = x] /\ mem.targets[x] # None
    BY <1>2, <1>9 DEF Changed, Possible
  <2>4. /\ mem' \in SettingsRecord
        /\ \A j \in Keys : j # "active" => mem'[j] = mem[j]
    BY <1>1, <1>9, <2>2 DEF SettingsRecord, Keys
  <2>5. mem'.active = x /\ mem'.targets = mem.targets /\ mem'.rule = mem.rule
    BY <1>1, <1>9, <2>2 DEF SettingsRecord
  <2>6. PlaceInUse(mem') # None /\ mem.targets[x] \in Places
    BY <1>1, <1>9, <2>2, <2>5 DEF PlaceInUse, SettingsRecord
  <2>7. w.place = mem.targets[x]
    BY <2>1, <2>5
  <2>8. w \in Request /\ RequestFits(w)
    BY <1>9, <2>1, <2>4, <2>6, <2>7 DEF Request, RequestFits, KindOps, Keys, TargetOps
  <2> QED BY <1>9, <2>1, <2>4, <2>5, <2>6, <2>8, SettingsAssumption DEF Keys
<1>10. CASE op = "removeTarget" /\ x \in Targets
  <2>1. /\ k = IF mem.active = x THEN "active" ELSE "targets"
        /\ NextKey(op, k) = IF mem.active = x THEN "targets" ELSE None
        /\ op \in TargetOps
    <3>1. k = IF mem.active = x THEN "active" ELSE "targets"
      BY <1>10 DEF KeyOf
    <3>2. NextKey(op, "active") = "targets" /\ NextKey(op, "targets") = None
      BY <1>10 DEF NextKey
    <3> QED BY <1>10, <3>1, <3>2 DEF TargetOps
  <2>2. PICK y \in Targets \ {x} :
             /\ mem' = [mem EXCEPT !.targets[x] = None, !.active = IF @ = x THEN y ELSE @]
             /\ mem.targets[y] # None
    BY <1>2, <1>10 DEF Changed
  <2>4. /\ mem' \in SettingsRecord
        /\ \A j \in Keys : j \notin {"targets", "active"} => mem'[j] = mem[j]
    BY <1>1, <1>10, <2>2 DEF SettingsRecord, Keys
  <2>5. /\ mem'.active = IF mem.active = x THEN y ELSE mem.active
        /\ mem'["active"] = mem'.active /\ mem["active"] = mem.active
        /\ mem'.rule = mem.rule /\ mem'.targets[x] = None
        /\ \A z \in Targets \ {x} : mem'.targets[z] = mem.targets[z]
    BY <1>1, <1>10, <2>2 DEF SettingsRecord
  <2>6. PlaceInUse(mem') # None
    BY <1>1, <2>2, <2>5 DEF PlaceInUse, SettingsRecord
  <2>7. w.place = None
    BY <2>1, <2>5
  <2>8. w \in Request /\ RequestFits(w)
    BY <1>10, <2>1, <2>4, <2>7 DEF Request, RequestFits, KindOps, Keys, TargetOps
  <2> QED BY <1>10, <2>1, <2>4, <2>5, <2>6, <2>8, SettingsAssumption DEF Keys
<1>11. Goal
  BY <1>4, <1>5, <1>6, <1>7, <1>8, <1>9, <1>10 DEF KindOps, TargetOps
<1> QED BY <1>11

LEMMA RequestStartsKeeps ==
    ASSUME SettingsInv, NEW c \in Managers, NEW op, NEW x, RequestStarts(c, op, x),
           \/ op \in KindOps \cup {"setConfig"} /\ x \in Kinds
           \/ op = "setRule" /\ x \in Rules
           \/ op \in TargetOps /\ x \in Targets
    PROVE  SettingsInv'
<1> DEFINE k == KeyOf(op, x)
           w == [op |-> op, arg |-> x, key |-> k, copy |-> mem',
                 place |-> IF op \in TargetOps THEN mem'.targets[x] ELSE None]
<1>1. /\ mem' \in SettingsRecord /\ PlaceInUse(mem') # None
      /\ k \in Keys /\ k # NextKey(op, k)
      /\ \A j \in Keys : j # k /\ (op = "resolve" \/ j # NextKey(op, k)) => mem'[j] = mem[j]
      /\ op \notin TargetOps => UNCHANGED <<mem.targets, mem.active>>
      /\ op = "select" => mem'.active = x
      /\ op \in {"putTarget", "postTarget", "resolve"}
            => mem'.active = mem.active /\ \A y \in Targets \ {x} : mem'.targets[y] = mem.targets[y]
      /\ op = "resolve" => k = "targets"
      /\ op # "setRule" => mem'.rule = mem.rule
      /\ w \in Request /\ RequestFits(w)
  BY StartsFit
<1>2. /\ requests[c] = NoRequest /\ requests' = [requests EXCEPT ![c] = w]
      /\ unsure' = unsure \cup {j \in {k} : \E d \in Managers \ {c} : requests[d].key = j} \cup Astray(c, op)
      /\ repo' = repo /\ live' = live
  BY DEF RequestStarts, Overlapped
<1>3. /\ w.op = op /\ w.arg = x /\ w.key = k /\ w.copy = mem'
      /\ op \in TargetOps => w.place = mem'.targets[x]
  OBVIOUS
<1>4. /\ requests \in [Managers -> Request] /\ unsure \subseteq Keys \cup {"place", "common"}
      /\ mem \in SettingsRecord /\ repo \in SettingsRecord /\ live \in Library
  BY DEF SettingsInv, SettingsTypeOK
<1> HIDE DEF k, w
<1>5. requests'[c] = w /\ \A d \in Managers \ {c} : requests'[d] = requests[d]
  BY <1>2, <1>4
<1>6. SettingsTypeOK'
  BY <1>1, <1>2, <1>4 DEF SettingsTypeOK, Astray
<1>7. \A d \in Managers : RequestFits(requests'[d])
  BY <1>1, <1>5 DEF SettingsInv
<1>8. requests[c].op = "none" /\ requests[c].key = None
  BY <1>2 DEF NoRequest
<1>9. k # None
  BY <1>1, SettingsAssumption
<1>10. ASSUME NEW j \in Keys
       PROVE  KeyAgrees(j)'
  <2> SUFFICES ASSUME j \notin unsure'
               PROVE  /\ \A d, e \in Managers : requests'[d].key = j /\ requests'[e].key = j => d = e
                      /\ (\A d \in Managers : ~(requests'[d].key # None /\ requests'[d].op # "resolve"
                                                 /\ NextKey(requests'[d].op, requests'[d].key) = j)) =>
                           /\ \A d \in Managers : requests'[d].key = j => requests'[d].copy[j] = mem'[j]
                           /\ (\A d \in Managers : requests'[d].key # j)
                                => repo'[j] = mem'[j] \/ (j = "configs" /\ mem'.configs = Shown(repo').configs)
    BY DEF KeyAgrees, Writes, Owes, Same
  <2>1. j \notin unsure
    BY <1>2
  <2>2. KeyAgrees(j)
    BY DEF SettingsInv
  <2>3. \A d, e \in Managers : requests[d].key = j /\ requests[e].key = j => d = e
    BY <2>1, <2>2 DEF KeyAgrees, Writes
  <2>4. CASE j = k
    <3>1. \A d \in Managers \ {c} : requests'[d].key # j
      BY <1>2, <1>5, <2>4
    <3>2. requests'[c].copy[j] = mem'[j] /\ requests'[c].key = j
      BY <1>3, <1>5, <2>4
    <3> QED BY <3>1, <3>2
  <2>5. CASE j # k
    <3>1. \A d \in Managers : requests'[d].key = j => d # c /\ requests[d].key = j
      BY <1>3, <1>5, <2>5
    <3>2. ASSUME \A d \in Managers : ~(requests'[d].key # None /\ requests'[d].op # "resolve"
                                        /\ NextKey(requests'[d].op, requests'[d].key) = j)
          PROVE  /\ \A d \in Managers : requests'[d].key = j => requests'[d].copy[j] = mem'[j]
                 /\ (\A d \in Managers : requests'[d].key # j)
                      => repo'[j] = mem'[j] \/ (j = "configs" /\ mem'.configs = Shown(repo').configs)
      <4>1. \A d \in Managers : ~Owes(d, j)
        BY <1>5, <1>8, <3>2 DEF Owes
      <4>2. op = "resolve" \/ NextKey(op, k) # j
        BY <1>3, <1>5, <1>9, <3>2
      <4>3. mem'[j] = mem[j]
        BY <1>1, <2>5, <4>2
      <4>4. \A d \in Managers : requests'[d].key = j => requests'[d].copy[j] = mem'[j]
        BY <1>5, <2>1, <2>2, <3>1, <4>1, <4>3 DEF KeyAgrees, Writes
      <4>5. ASSUME \A d \in Managers : requests'[d].key # j
            PROVE  repo'[j] = mem'[j] \/ (j = "configs" /\ mem'.configs = Shown(repo').configs)
        <5>1. \A d \in Managers : ~Writes(d, j)
          BY <1>5, <1>8, <4>5, SettingsAssumption DEF Writes
        <5>2. Same(j)
          BY <2>1, <2>2, <4>1, <5>1 DEF KeyAgrees
        <5>3. j = "configs" => mem'.configs = mem.configs
          BY <4>3
        <5> QED BY <1>2, <4>3, <5>2, <5>3 DEF Same
      <4> QED BY <4>4, <4>5
    <3> QED BY <2>3, <3>1, <3>2
  <2> QED BY <2>4, <2>5
<1>11. LiveAgrees'
  <2> SUFFICES ASSUME "place" \notin unsure'
               PROVE  /\ \A d, e \in Managers : requests'[d].op \in TargetOps /\ requests'[e].op \in TargetOps => d = e
                      /\ (\A d \in Managers : requests'[d].op \notin TargetOps) => live'.place = PlaceInUse(mem')
                      /\ \A d \in Managers : Placed(requests[d])'
    BY DEF LiveAgrees, NoneOf
  <2>1. "place" \notin unsure /\ "place" \notin Astray(c, op)
    BY <1>2
  <2>2. /\ \A d, e \in Managers : requests[d].op \in TargetOps /\ requests[e].op \in TargetOps => d = e
        /\ (\A d \in Managers : requests[d].op \notin TargetOps) => live.place = PlaceInUse(mem)
        /\ \A d \in Managers : Placed(requests[d])
    BY <2>1 DEF SettingsInv, LiveAgrees, NoneOf
  <2>3. requests'[c].op = op /\ requests[c].op \notin TargetOps
    BY <1>3, <1>5, <1>8 DEF TargetOps
  <2>4. CASE op \notin TargetOps
    <3>1. mem'.targets = mem.targets /\ mem'.active = mem.active
      BY <1>1, <2>4
    <3>2. PlaceInUse(mem') = PlaceInUse(mem)
      BY <3>1 DEF PlaceInUse
    <3>3. \A d \in Managers : requests'[d].op \in TargetOps <=> requests[d].op \in TargetOps
      BY <1>5, <2>3, <2>4
    <3>4. ASSUME NEW d \in Managers
          PROVE  Placed(requests[d])'
      <4>1. CASE d = c
        BY <2>3, <2>4, <4>1 DEF Placed, TargetOps
      <4>2. CASE d # c
        <5>1. requests'[d] = requests[d]
          BY <1>5, <4>2
        <5> QED BY <1>2, <2>2, <3>1, <3>2, <5>1 DEF Placed
      <4> QED BY <4>1, <4>2
    <3> QED BY <1>2, <2>2, <3>2, <3>3, <3>4
  <2>5. CASE op \in TargetOps
    <3>1. \A d \in Managers \ {c} : requests[d].op \notin TargetOps
      BY <2>1, <2>5 DEF Astray
    <3>2. op = "postTarget" => PlaceInUse(mem') = PlaceInUse(mem)
      BY <2>1, <2>5 DEF Astray
    <3>3. live.place = PlaceInUse(mem)
      BY <2>2, <2>3, <3>1
    <3>4. \A d \in Managers \ {c} : requests'[d].op \notin TargetOps
      BY <1>5, <3>1
    <3>5. op = "putTarget" /\ mem'.active # x => PlaceInUse(mem') = PlaceInUse(mem)
      BY <1>1, <1>4 DEF PlaceInUse, SettingsRecord
    <3>6. /\ requests'[c].op = op /\ requests'[c].arg = x /\ requests'[c].key = k
          /\ requests'[c].place = mem'.targets[x]
      BY <1>3, <1>5, <2>5
    <3>7. \A d \in Managers : Placed(requests[d])'
      <4>1. Placed(requests[c])'
        BY <1>1, <1>2, <3>2, <3>3, <3>5, <3>6 DEF Placed
      <4>2. \A d \in Managers \ {c} : Placed(requests[d])'
        BY <3>4 DEF Placed, TargetOps
      <4> QED BY <4>1, <4>2
    <3> QED BY <2>3, <2>5, <3>4, <3>7
  <2> QED BY <2>4, <2>5
<1>12. FoldersFollowTheRule'
  <2> SUFFICES ASSUME \A d \in Managers : requests'[d].op # "setRule", "common" \notin unsure'
               PROVE  live'.common = mem'.rule
    BY DEF FoldersFollowTheRule, NoneOf
  <2>1. \A d \in Managers : requests[d].op # "setRule"
    BY <1>5, <1>8
  <2>2. op # "setRule"
    BY <1>3, <1>5
  <2>3. "common" \notin unsure
    BY <1>2
  <2> QED BY <1>1, <1>2, <2>1, <2>2, <2>3 DEF SettingsInv, FoldersFollowTheRule, NoneOf
<1> QED BY <1>1, <1>6, <1>7, <1>10, <1>11, <1>12 DEF SettingsInv

LEMMA RepositoryTakesAKey ==
    ASSUME NEW r \in SettingsRecord, NEW q \in SettingsRecord, NEW k \in Keys,
           NEW s, s = [r EXCEPT ![k] = q[k]]
    PROVE  /\ s \in SettingsRecord /\ s[k] = q[k]
           /\ \A j \in Keys : j # k => s[j] = r[j]
           /\ k \in {"targets", "active"} => s.configs = r.configs /\ Shown(s).configs = Shown(r).configs
<1>1. s \in SettingsRecord /\ s[k] = q[k] /\ \A j \in Keys : j # k => s[j] = r[j]
  BY DEF SettingsRecord, Keys
<1>2. CASE k \in {"targets", "active"}
  <2>1. s["types"] = r["types"] /\ s["configs"] = r["configs"] /\ s["rule"] = r["rule"]
    BY <1>1, <1>2 DEF Keys
  <2>2. s.types = r.types /\ s.configs = r.configs /\ s.rule = r.rule
    BY <2>1
  <2>3. Shown(s).configs = Shown(r).configs
    BY <1>1, <2>2 DEF Shown, SettingsRecord
  <2> QED BY <1>1, <2>2, <2>3
<1> QED BY <1>1, <1>2

\* Which key a request writes, and which one after it.
LEMMA KeysOfRequests ==
    ASSUME SettingsInv, NEW c \in Managers, requests[c].key # None
    PROVE  LET w == requests[c]
               n == NextKey(w.op, w.key)
           IN  /\ w \in Request /\ w.key \in Keys /\ w.copy \in SettingsRecord /\ w.op # "none"
               /\ n # None => /\ \/ w.key = "types" /\ n = "configs" /\ w.op \in KindOps /\ w.arg \in Kinds
                                 \/ w.key = "rule" /\ n = "configs" /\ w.op = "setRule"
                                 \/ w.key = "active" /\ n = "targets" /\ w.op = "removeTarget"
                                 \/ w.key = "targets" /\ n = "active" /\ w.op = "resolve"
                              /\ n \in Keys /\ n # w.key /\ NextKey(w.op, n) = None
               /\ n = None => w.key \in {"configs", "targets", "active"}
<1> DEFINE w == requests[c]
           n == NextKey(w.op, w.key)
<1>1. w \in Request /\ RequestFits(w)
  BY DEF SettingsInv, SettingsTypeOK
<1>2. w.key \in Keys /\ w.copy \in SettingsRecord /\ w.op # "none"
  BY <1>1 DEF RequestFits, Request
<1>3. /\ n = CASE w.op \in {"addType", "removeType"} /\ w.key = "types" -> "configs"
               [] w.op = "setRule" /\ w.key = "rule"                    -> "configs"
               [] w.op = "resolve" /\ w.key = "targets"                 -> "active"
               [] w.op = "removeTarget" /\ w.key = "active"             -> "targets"
               [] OTHER                                                 -> None
      /\ \A o : NextKey(o, "configs") = None
      /\ \A o : o # "resolve" => NextKey(o, "targets") = None
      /\ \A o : o # "removeTarget" => NextKey(o, "active") = None
  BY DEF NextKey
<1>4. w.op \in {"addType", "removeType", "setConfig", "setRule", "putTarget", "postTarget", "resolve",
                "select", "removeTarget"}
  BY <1>1, <1>2 DEF Request, TargetOps
<1>5. CASE w.op \in KindOps
  BY <1>1, <1>2, <1>3, <1>5, SettingsAssumption DEF RequestFits, KindOps, Keys
<1>6. CASE w.op \in {"setConfig", "putTarget", "postTarget", "select"}
  BY <1>1, <1>2, <1>3, <1>6, SettingsAssumption DEF RequestFits, KindOps, Keys
<1>7. CASE w.op = "setRule"
  BY <1>1, <1>2, <1>3, <1>7, SettingsAssumption DEF RequestFits, KindOps, Keys
<1>8. CASE w.op = "removeTarget"
  BY <1>1, <1>2, <1>3, <1>8, SettingsAssumption DEF RequestFits, KindOps, Keys
<1>9. CASE w.op = "resolve"
  BY <1>1, <1>2, <1>3, <1>9, SettingsAssumption DEF RequestFits, KindOps, Keys
<1> QED BY <1>4, <1>5, <1>6, <1>7, <1>8, <1>9 DEF KindOps

LEMMA ContinuedFits ==
    ASSUME NEW m \in SettingsRecord, NEW op, NEW x, op \in KindOps => x \in Kinds,
           op = "resolve" => x \in Targets /\ m.targets[x] # None
    PROVE  LET q == Continued(m, op, x)
           IN  /\ q \in SettingsRecord
               /\ op \in KindOps => /\ \A j \in Keys : j # "configs" => q[j] = m[j]
                                    /\ q.targets = m.targets /\ q.active = m.active /\ q.rule = m.rule
               /\ op = "resolve" => /\ \A j \in Keys : j # "active" => q[j] = m[j]
                                    /\ q.targets = m.targets /\ q.active = x /\ q.rule = m.rule
                                    /\ q.configs = m.configs
               /\ op \notin KindOps \cup {"resolve"} => q = m
<1>1. CASE op = "addType"
  <2>1. Continued(m, op, x) = [m EXCEPT !.configs[x] = IF @ = None THEN m.rule ELSE @]
    BY <1>1 DEF Continued, WithConfig
  <2>2. m.rule \in Rules /\ m.configs[x] \in Rules \cup {None} /\ x \in Kinds
    BY <1>1 DEF SettingsRecord, KindOps
  <2> QED BY <1>1, <2>1, <2>2 DEF SettingsRecord, Keys, KindOps
<1>2. CASE op = "removeType"
  <2>1. Continued(m, op, x) = [m EXCEPT !.configs[x] = None]
    BY <1>2 DEF Continued
  <2> QED BY <1>2, <2>1 DEF SettingsRecord, Keys, KindOps
<1>3. CASE op = "resolve"
  <2>1. Continued(m, op, x) = [m EXCEPT !.active = x]
    BY <1>3 DEF Continued
  <2> QED BY <1>3, <2>1 DEF SettingsRecord, Keys, KindOps
<1>4. CASE op \notin KindOps \cup {"resolve"}
  BY <1>4 DEF Continued, KindOps
<1> QED BY <1>1, <1>2, <1>3, <1>4 DEF KindOps

LEMMA WriteLandsKeeps ==
    ASSUME SettingsInv, NEW c \in Managers, WriteLands(c)
    PROVE  SettingsInv'
<1> DEFINE w == requests[c]
           k == w.key
           n == NextKey(w.op, k)
<1>1. k # None
  BY DEF WriteLands
<1>2. /\ w \in Request /\ k \in Keys /\ w.copy \in SettingsRecord /\ w.op # "none"
      /\ n # None => /\ \/ k = "types" /\ n = "configs" /\ w.op \in KindOps /\ w.arg \in Kinds
                        \/ k = "rule" /\ n = "configs" /\ w.op = "setRule"
                        \/ k = "active" /\ n = "targets" /\ w.op = "removeTarget"
                        \/ k = "targets" /\ n = "active" /\ w.op = "resolve"
                     /\ n \in Keys /\ n # k /\ NextKey(w.op, n) = None
      /\ n = None => k \in {"configs", "targets", "active"}
  BY <1>1, KeysOfRequests
<1>3. /\ requests \in [Managers -> Request] /\ unsure \subseteq Keys \cup {"place", "common"}
      /\ mem \in SettingsRecord /\ repo \in SettingsRecord /\ live \in Library /\ PlaceInUse(mem) # None
      /\ \A d \in Managers : RequestFits(requests[d])
  BY DEF SettingsInv, SettingsTypeOK
<1>4. repo' = [repo EXCEPT ![k] = w.copy[k]]
  BY DEF WriteLands
<1>5. /\ repo' \in SettingsRecord /\ repo'[k] = w.copy[k]
      /\ \A j \in Keys : j # k => repo'[j] = repo[j]
      /\ k \in {"targets", "active"} => Shown(repo').configs = Shown(repo).configs
  <2>1. w.copy \in SettingsRecord /\ k \in Keys /\ repo \in SettingsRecord
    BY <1>2, <1>3
  <2> DEFINE q == w.copy
  <2> HIDE DEF k, q
  <2>2. repo' = [repo EXCEPT ![k] = q[k]]
    BY <1>4 DEF q
  <2>3. /\ repo' \in SettingsRecord /\ repo'[k] = q[k]
        /\ \A j \in Keys : j # k => repo'[j] = repo[j]
        /\ k \in {"targets", "active"} => Shown(repo').configs = Shown(repo).configs
    <3>1. q \in SettingsRecord
      BY <2>1 DEF q
    <3> DEFINE s == [repo EXCEPT ![k] = q[k]]
    <3>2. /\ s \in SettingsRecord /\ s[k] = q[k]
          /\ \A j \in Keys : j # k => s[j] = repo[j]
          /\ k \in {"targets", "active"} => Shown(s).configs = Shown(repo).configs
      BY <2>1, <3>1, RepositoryTakesAKey
    <3>3. repo' = s
      BY <2>2
    <3> HIDE DEF s
    <3> QED BY <3>2, <3>3
  <2> QED BY <2>3 DEF q
<1>6. CASE GoesOn(w)
  <2>0. n # None /\ (w.op = "resolve" => w.arg \in Targets /\ mem.targets[w.arg] # None)
    BY <1>3, <1>6 DEF GoesOn, RequestFits
  <2> DEFINE q == [w EXCEPT !.key = n, !.copy = mem']
  <2>1. /\ mem' = Continued(mem, w.op, w.arg)
        /\ requests' = [requests EXCEPT ![c].key = n, ![c].copy = mem']
        /\ unsure' = unsure \cup {j \in {n} : \E d \in Managers \ {c} : requests[d].key = j}
        /\ live' = live
    BY <1>6 DEF WriteLands, Overlapped
  <2>2. /\ mem' \in SettingsRecord
        /\ w.op \in KindOps => /\ \A j \in Keys : j # "configs" => mem'[j] = mem[j]
                               /\ mem'.targets = mem.targets /\ mem'.active = mem.active
                               /\ mem'.rule = mem.rule
        /\ w.op = "resolve" => /\ \A j \in Keys : j # "active" => mem'[j] = mem[j]
                               /\ mem'.targets = mem.targets /\ mem'.active = w.arg
                               /\ mem'.rule = mem.rule /\ mem'.configs = mem.configs
        /\ w.op \notin KindOps \cup {"resolve"} => mem' = mem
    BY <1>2, <1>3, <2>0, <2>1, ContinuedFits DEF KindOps
  <2>3. /\ mem'.targets = mem.targets /\ mem'.rule = mem.rule
        /\ w.op # "resolve" => mem'.active = mem.active
        /\ \A j \in Keys : j # n => mem'[j] = mem[j]
    BY <1>2, <2>0, <2>2 DEF KindOps
  <2>4. PlaceInUse(mem') # None
    BY <1>3, <2>0, <2>2, <2>3 DEF PlaceInUse
  <2>5. /\ q \in Request /\ q.op = w.op /\ q.arg = w.arg /\ q.key = n /\ q.copy = mem'
        /\ q.place = w.place
    BY <1>2, <2>0, <2>2 DEF Request
  <2>6. requests' = [requests EXCEPT ![c] = q]
    BY <1>3, <2>1
  <2> HIDE DEF q
  <2>7. /\ requests'[c] = q /\ \A d \in Managers \ {c} : requests'[d] = requests[d]
        /\ requests' \in [Managers -> Request]
    BY <1>3, <2>5, <2>6
  <2>8. SettingsTypeOK'
    BY <1>2, <1>3, <1>5, <2>0, <2>1, <2>2, <2>7 DEF SettingsTypeOK
  <2>9. RequestFits(q)
    <3>1. RequestFits(w)
      BY <1>3
    <3> QED BY <1>2, <2>0, <2>2, <2>5, <3>1 DEF RequestFits, KindOps
  <2>10. \A d \in Managers : RequestFits(requests'[d])
    BY <1>3, <2>7, <2>9
  <2>11. ASSUME NEW j \in Keys
         PROVE  KeyAgrees(j)'
    <3> SUFFICES ASSUME j \notin unsure'
                 PROVE  /\ \A d, e \in Managers : requests'[d].key = j /\ requests'[e].key = j => d = e
                        /\ (\A d \in Managers : ~(requests'[d].key # None /\ requests'[d].op # "resolve"
                                                   /\ NextKey(requests'[d].op, requests'[d].key) = j)) =>
                             /\ \A d \in Managers : requests'[d].key = j => requests'[d].copy[j] = mem'[j]
                             /\ (\A d \in Managers : requests'[d].key # j)
                                  => repo'[j] = mem'[j] \/ (j = "configs" /\ mem'.configs = Shown(repo').configs)
      BY DEF KeyAgrees, Writes, Owes, Same
    <3>1. j \notin unsure /\ j # None
      BY <2>1, SettingsAssumption
    <3>2. KeyAgrees(j)
      BY DEF SettingsInv
    <3>3. \A d, e \in Managers : requests[d].key = j /\ requests[e].key = j => d = e
      BY <3>1, <3>2 DEF KeyAgrees, Writes
    <3>4. CASE j = n
      <4>1. \A d \in Managers \ {c} : requests'[d].key # j
        BY <2>1, <2>7, <3>4
      <4>2. requests'[c].copy[j] = mem'[j] /\ requests'[c].key = j
        BY <2>5, <2>7, <3>4
      <4> QED BY <4>1, <4>2
    <3>5. CASE j # n
      <4>1. \A d \in Managers : requests'[d].key = j => d # c /\ requests[d].key = j
        BY <2>5, <2>7, <3>5
      <4>2. ASSUME \A d \in Managers : ~(requests'[d].key # None /\ requests'[d].op # "resolve"
                                          /\ NextKey(requests'[d].op, requests'[d].key) = j)
            PROVE  /\ \A d \in Managers : requests'[d].key = j => requests'[d].copy[j] = mem'[j]
                   /\ (\A d \in Managers : requests'[d].key # j)
                        => repo'[j] = mem'[j] \/ (j = "configs" /\ mem'.configs = Shown(repo').configs)
        <5>1. \A d \in Managers : ~Owes(d, j)
          BY <2>7, <3>5, <4>2 DEF Owes
        <5>2. mem'[j] = mem[j]
          BY <2>3, <3>5
        <5>3. \A d \in Managers : Writes(d, j) => requests[d].copy[j] = mem[j]
          BY <3>1, <3>2, <5>1 DEF KeyAgrees
        <5>4. \A d \in Managers : requests'[d].key = j => requests'[d].copy[j] = mem'[j]
          BY <2>7, <4>1, <5>2, <5>3 DEF Writes
        <5>5. ASSUME \A d \in Managers : requests'[d].key # j
              PROVE  repo'[j] = mem'[j] \/ (j = "configs" /\ mem'.configs = Shown(repo').configs)
          <6>1. CASE j = k
            <7>1. Writes(c, j)
              BY <6>1 DEF Writes
            <7> QED BY <1>5, <5>2, <5>3, <6>1, <7>1
          <6>2. CASE j # k
            <7>1. \A d \in Managers : ~Writes(d, j)
              BY <2>7, <5>5, <6>2 DEF Writes
            <7>2. Same(j)
              BY <3>1, <3>2, <5>1, <7>1 DEF KeyAgrees
            <7>3. repo'[j] = repo[j]
              BY <1>5, <6>2
            <7>4. j = "configs" => mem'.configs = mem.configs /\ Shown(repo').configs = Shown(repo).configs
              BY <1>2, <1>5, <2>0, <3>5, <5>2
            <7> QED BY <5>2, <7>2, <7>3, <7>4 DEF Same
          <6> QED BY <6>1, <6>2
        <5> QED BY <5>4, <5>5
      <4> QED BY <3>3, <4>1, <4>2
    <3> QED BY <3>4, <3>5
  <2>12. LiveAgrees'
    <3> SUFFICES ASSUME "place" \notin unsure'
                 PROVE  /\ \A d, e \in Managers : requests'[d].op \in TargetOps /\ requests'[e].op \in TargetOps => d = e
                        /\ (\A d \in Managers : requests'[d].op \notin TargetOps) => live'.place = PlaceInUse(mem')
                        /\ \A d \in Managers : Placed(requests[d])'
      BY DEF LiveAgrees, NoneOf
    <3>1. "place" \notin unsure
      BY <2>1
    <3>2. /\ \A d, e \in Managers : requests[d].op \in TargetOps /\ requests[e].op \in TargetOps => d = e
          /\ (\A d \in Managers : requests[d].op \notin TargetOps) => live.place = PlaceInUse(mem)
          /\ \A d \in Managers : Placed(requests[d])
      BY <3>1 DEF SettingsInv, LiveAgrees, NoneOf
    <3>3. \A d \in Managers : requests'[d].op = requests[d].op
      BY <2>5, <2>7
    <3>4. CASE w.op = "resolve"
      <4>1. \A d \in Managers \ {c} : requests'[d].op \notin TargetOps
        BY <3>2, <3>3, <3>4 DEF TargetOps
      <4>2. Placed(requests[c])'
        BY <2>2, <2>3, <2>5, <2>7, <3>2, <3>4 DEF Placed
      <4>3. \A d \in Managers \ {c} : Placed(requests[d])'
        BY <4>1 DEF Placed, TargetOps
      <4>4. requests'[c].op \in TargetOps
        BY <3>3, <3>4 DEF TargetOps
      <4> QED BY <3>2, <3>3, <4>2, <4>3, <4>4
    <3>5. CASE w.op # "resolve"
      <4>1. mem'.targets = mem.targets /\ mem'.active = mem.active /\ PlaceInUse(mem') = PlaceInUse(mem)
        BY <2>3, <3>5 DEF PlaceInUse
      <4>2. Placed(requests[c])'
        BY <2>1, <2>5, <2>7, <3>2, <3>5, <4>1 DEF Placed
      <4>3. ASSUME NEW d \in Managers \ {c}
            PROVE  Placed(requests[d])'
        <5>1. requests'[d] = requests[d]
          BY <2>7
        <5> QED BY <2>1, <3>2, <4>1, <5>1 DEF Placed
      <4> QED BY <2>1, <3>2, <3>3, <4>1, <4>2, <4>3
    <3> QED BY <3>4, <3>5
  <2>13. FoldersFollowTheRule'
    <3>1. \A d \in Managers : requests'[d].op = requests[d].op
      BY <2>5, <2>7
    <3>2. unsure \subseteq unsure'
      BY <2>1
    <3> QED BY <2>1, <2>3, <3>1, <3>2 DEF SettingsInv, FoldersFollowTheRule, NoneOf
  <2> QED BY <2>4, <2>8, <2>10, <2>11, <2>12, <2>13 DEF SettingsInv
<1>7. CASE ~GoesOn(w)
  <2>0. w.op = "resolve" \/ n = None
    BY <1>7 DEF GoesOn
  <2>1. /\ live' = HandedOn(w) /\ requests' = [requests EXCEPT ![c] = NoRequest]
        /\ mem' = mem /\ unsure' = unsure \ (IF w.op = "setRule" THEN {"common"} ELSE {})
    BY <1>7 DEF WriteLands
  <2>2. NoRequest \in Request /\ NoRequest.key = None /\ NoRequest.op = "none"
    BY DEF NoRequest, Request
  <2>3. /\ requests'[c] = NoRequest /\ \A d \in Managers \ {c} : requests'[d] = requests[d]
        /\ requests' \in [Managers -> Request]
    BY <1>3, <2>1, <2>2
  <2>4. /\ live'.place = Routed(w)
        /\ live'.common = IF w.op = "setRule" THEN mem.rule ELSE live.common
    BY <2>1 DEF HandedOn
  <2>5. live' \in Library
    <3>1. RequestFits(w)
      BY <1>3
    <3>2. PlaceInUse(mem) \in Places /\ mem.rule \in Rules /\ live.place \in Places /\ live.common \in Rules
      BY <1>3 DEF SettingsRecord, PlaceInUse, Library
    <3>3. Routed(w) \in Places
      BY <3>1, <3>2 DEF Routed, RequestFits
    <3> QED BY <2>1, <3>2, <3>3 DEF HandedOn, Library
  <2>6. SettingsTypeOK'
    BY <1>3, <1>5, <2>1, <2>3, <2>5 DEF SettingsTypeOK
  <2>7. \A d \in Managers : RequestFits(requests'[d])
    <3>1. RequestFits(NoRequest)
      BY <2>2 DEF RequestFits, KindOps
    <3> QED BY <1>3, <2>3, <3>1
  <2>8. ASSUME NEW j \in Keys
        PROVE  KeyAgrees(j)'
    <3> SUFFICES ASSUME j \notin unsure
                 PROVE  /\ \A d, e \in Managers : requests'[d].key = j /\ requests'[e].key = j => d = e
                        /\ (\A d \in Managers : ~(requests'[d].key # None /\ requests'[d].op # "resolve"
                                                   /\ NextKey(requests'[d].op, requests'[d].key) = j)) =>
                             /\ \A d \in Managers : requests'[d].key = j => requests'[d].copy[j] = mem[j]
                             /\ (\A d \in Managers : requests'[d].key # j)
                                  => repo'[j] = mem[j] \/ (j = "configs" /\ mem.configs = Shown(repo').configs)
      BY <2>1, SettingsAssumption DEF KeyAgrees, Writes, Owes, Same, Keys
    <3>1. j # None /\ KeyAgrees(j)
      BY SettingsAssumption DEF SettingsInv
    <3>2. \A d \in Managers : requests'[d].key = j => d # c /\ requests[d].key = j
      BY <2>2, <2>3, <3>1
    <3>3. \A d, e \in Managers : requests'[d].key = j /\ requests'[e].key = j => d = e
      BY <3>1, <3>2 DEF KeyAgrees, Writes
    <3>4. ASSUME \A d \in Managers : ~(requests'[d].key # None /\ requests'[d].op # "resolve"
                                        /\ NextKey(requests'[d].op, requests'[d].key) = j)
          PROVE  /\ \A d \in Managers : requests'[d].key = j => requests'[d].copy[j] = mem[j]
                 /\ (\A d \in Managers : requests'[d].key # j)
                      => repo'[j] = mem[j] \/ (j = "configs" /\ mem.configs = Shown(repo').configs)
      <4>1. \A d \in Managers : ~Owes(d, j)
        BY <2>0, <2>3, <3>1, <3>4 DEF Owes
      <4>2. \A d \in Managers : Writes(d, j) => requests[d].copy[j] = mem[j]
        BY <3>1, <4>1 DEF KeyAgrees
      <4>3. \A d \in Managers : requests'[d].key = j => requests'[d].copy[j] = mem[j]
        BY <2>3, <3>2, <4>2 DEF Writes
      <4>4. ASSUME \A d \in Managers : requests'[d].key # j
            PROVE  repo'[j] = mem[j] \/ (j = "configs" /\ mem.configs = Shown(repo').configs)
        <5>1. CASE j = k
          <6>1. Writes(c, j)
            BY <5>1 DEF Writes
          <6> QED BY <1>5, <4>2, <5>1, <6>1
        <5>2. CASE j # k
          <6>1. \A d \in Managers : ~Writes(d, j)
            BY <2>3, <4>4, <5>2 DEF Writes
          <6>2. Same(j)
            BY <3>1, <4>1, <6>1 DEF KeyAgrees
          <6>3. repo'[j] = repo[j]
            BY <1>5, <5>2
          <6>4. j = "configs" => Shown(repo').configs = Shown(repo).configs
            <7>1. w.op = "resolve" => k \in {"targets", "active"}
              BY <1>3 DEF RequestFits
            <7> QED BY <1>2, <1>5, <2>0, <5>2, <7>1
          <6> QED BY <6>2, <6>3, <6>4 DEF Same
        <5> QED BY <5>1, <5>2
      <4> QED BY <4>3, <4>4
    <3> QED BY <3>3, <3>4
  <2>9. LiveAgrees'
    <3> SUFFICES ASSUME "place" \notin unsure'
                 PROVE  /\ \A d, e \in Managers : requests'[d].op \in TargetOps /\ requests'[e].op \in TargetOps => d = e
                        /\ (\A d \in Managers : requests'[d].op \notin TargetOps) => live'.place = PlaceInUse(mem')
                        /\ \A d \in Managers : Placed(requests[d])'
      BY DEF LiveAgrees, NoneOf
    <3>1. "place" \notin unsure
      BY <2>1
    <3>2. /\ \A d, e \in Managers : requests[d].op \in TargetOps /\ requests[e].op \in TargetOps => d = e
          /\ (\A d \in Managers : requests[d].op \notin TargetOps) => live.place = PlaceInUse(mem)
          /\ \A d \in Managers : Placed(requests[d])
      BY <3>1 DEF SettingsInv, LiveAgrees, NoneOf
    <3>3. requests'[c].op \notin TargetOps
      BY <2>2, <2>3 DEF TargetOps
    <3>4. Placed(requests[c])'
      BY <3>3 DEF Placed, TargetOps
    <3>5. CASE w.op \in TargetOps
      <4>1. \A d \in Managers \ {c} : requests'[d].op \notin TargetOps
        BY <2>3, <3>2, <3>5
      <4>2. \A d \in Managers \ {c} : Placed(requests[d])'
        BY <4>1 DEF Placed, TargetOps
      <4>3. Routed(w) = PlaceInUse(mem)
        <5>1. Placed(w) /\ RequestFits(w)
          BY <1>3, <3>2
        <5>0. Routed(w) = IF \/ w.op = "select"
                             \/ w.op = "resolve" /\ w.key = "active"
                             \/ w.op = "putTarget" /\ mem.active = w.arg
                          THEN w.place
                          ELSE IF w.op = "removeTarget" THEN PlaceInUse(mem) ELSE live.place
          BY DEF Routed
        <5>2. CASE w.op = "select"
          BY <5>0, <5>1, <5>2 DEF Placed, PlaceInUse
        <5>3. CASE w.op = "resolve"
          <6>1. n # None => mem.targets[w.arg] = None
            BY <1>7, <5>3 DEF GoesOn
          <6>2. w.place # None
            BY <5>1, <5>3, SettingsAssumption DEF RequestFits
          <6>3. w.key \in {"targets", "active"} /\ w.place = mem.targets[w.arg]
            BY <5>1, <5>3 DEF RequestFits, Placed
          <6>4. w.key = "targets" => n = "active"
            BY <5>3 DEF NextKey
          <6>5. w.key = "active"
            BY <6>1, <6>2, <6>3, <6>4, SettingsAssumption DEF Keys
          <6>6. mem.active = w.arg
            BY <5>1, <5>3, <6>5 DEF Placed
          <6> QED BY <5>0, <5>3, <6>3, <6>5, <6>6 DEF PlaceInUse
        <5>4. CASE w.op = "putTarget"
          <6>1. w.place = mem.targets[w.arg] /\ (mem.active # w.arg => live.place = PlaceInUse(mem))
            BY <5>1, <5>4 DEF Placed
          <6> QED BY <5>0, <5>4, <6>1 DEF PlaceInUse
        <5>5. CASE w.op = "postTarget"
          <6>1. live.place = PlaceInUse(mem)
            BY <5>1, <5>5 DEF Placed
          <6> QED BY <5>0, <5>5, <6>1
        <5>6. CASE w.op = "removeTarget"
          BY <5>0, <5>6
        <5> QED BY <3>5, <5>2, <5>3, <5>4, <5>5, <5>6 DEF TargetOps
      <4> QED BY <2>1, <2>4, <3>3, <3>4, <4>1, <4>2, <4>3
    <3>6. CASE w.op \notin TargetOps
      <4>1. \A d \in Managers : requests'[d].op \in TargetOps <=> requests[d].op \in TargetOps
        BY <2>3, <3>3, <3>6
      <4>2. live'.place = live.place
        BY <2>4, <3>6 DEF Routed, TargetOps
      <4>3. ASSUME NEW d \in Managers \ {c}
            PROVE  Placed(requests[d])'
        <5>1. requests'[d] = requests[d]
          BY <2>3
        <5> QED BY <2>1, <3>2, <4>2, <5>1 DEF Placed
      <4> QED BY <2>1, <3>2, <3>4, <4>1, <4>2, <4>3
    <3> QED BY <3>5, <3>6
  <2>10. FoldersFollowTheRule'
    <3> SUFFICES ASSUME \A d \in Managers : requests'[d].op # "setRule", "common" \notin unsure'
                 PROVE  live'.common = mem'.rule
      BY DEF FoldersFollowTheRule, NoneOf
    <3>1. CASE w.op = "setRule"
      BY <2>1, <2>4, <3>1
    <3>2. CASE w.op # "setRule"
      <4>1. \A d \in Managers : requests[d].op # "setRule"
        BY <2>3, <3>2
      <4>2. "common" \notin unsure
        BY <2>1, <3>2
      <4> QED BY <2>1, <2>4, <3>2, <4>1, <4>2 DEF SettingsInv, FoldersFollowTheRule, NoneOf
    <3> QED BY <3>1, <3>2
  <2> QED BY <1>3, <2>1, <2>6, <2>7, <2>8, <2>9, <2>10 DEF SettingsInv
<1> QED BY <1>6, <1>7

LEMMA WriteRejectedKeeps ==
    ASSUME SettingsInv, NEW c \in Managers, WriteRejected(c)
    PROVE  SettingsInv'
<1> DEFINE w == requests[c]
           k == w.key
           n == NextKey(w.op, k)
<1>1. /\ k # None /\ requests' = [requests EXCEPT ![c] = NoRequest]
      /\ unsure' = unsure \cup KeysInDoubt(w)
      /\ UNCHANGED <<mem, repo, live>>
  BY DEF WriteRejected
<1>2. k \in Keys /\ (n # None => n \in Keys) /\ w.op # "none"
  BY <1>1, KeysOfRequests
<1>3. /\ requests \in [Managers -> Request] /\ unsure \subseteq Keys \cup {"place", "common"}
      /\ \A d \in Managers : RequestFits(requests[d])
  BY DEF SettingsInv, SettingsTypeOK
<1>4. NoRequest \in Request /\ NoRequest.key = None /\ NoRequest.op = "none"
  BY DEF NoRequest, Request
<1>5. /\ requests'[c] = NoRequest /\ \A d \in Managers \ {c} : requests'[d] = requests[d]
      /\ requests' \in [Managers -> Request]
  BY <1>1, <1>3, <1>4
<1>6. /\ KeysInDoubt(w) \subseteq Keys \cup {"place", "common"}
      /\ k \in KeysInDoubt(w) /\ (n # None => n \in KeysInDoubt(w))
      /\ w.op \in TargetOps /\ (w.op \in {"putTarget", "postTarget"} => mem.active = w.arg)
            => "place" \in KeysInDoubt(w)
      /\ w.op = "setRule" => "common" \in KeysInDoubt(w)
  <2>1. k \in KeysInDoubt(w) /\ (n # None => n \in KeysInDoubt(w))
    BY <1>2 DEF KeysInDoubt
  <2>2. HandsOn(w.op) \in {"place", "common", None} /\ None \notin {"place", "common"}
        /\ (w.op \in TargetOps => HandsOn(w.op) = "place")
        /\ (w.op = "setRule" => HandsOn(w.op) = "common")
    BY SettingsAssumption DEF HandsOn, TargetOps
  <2> QED BY <1>2, <2>1, <2>2 DEF KeysInDoubt
<1>7. SettingsTypeOK'
  BY <1>1, <1>3, <1>5, <1>6 DEF SettingsInv, SettingsTypeOK
<1>8. \A d \in Managers : RequestFits(requests'[d])
  <2>1. RequestFits(NoRequest)
    BY <1>4 DEF RequestFits, KindOps
  <2> QED BY <1>3, <1>5, <2>1
<1>9. ASSUME NEW j \in Keys
      PROVE  KeyAgrees(j)'
  <2>1. CASE j \in unsure'
    BY <2>1 DEF KeyAgrees
  <2>2. CASE j \notin unsure'
    <3>1. j \notin unsure /\ j # k /\ j # n /\ j # None
      BY <1>1, <1>6, <2>2, SettingsAssumption
    <3>2. \A d \in Managers : /\ Writes(d, j)' <=> Writes(d, j)
                              /\ Owes(d, j)' <=> Owes(d, j)
                              /\ Writes(d, j) => requests'[d].copy[j] = requests[d].copy[j]
      BY <1>4, <1>5, <3>1 DEF Writes, Owes
    <3>3. KeyAgrees(j)
      BY DEF SettingsInv
    <3> QED BY <1>1, <3>1, <3>2, <3>3 DEF KeyAgrees, Same
  <2> QED BY <2>1, <2>2
<1>10. LiveAgrees'
  <2> SUFFICES ASSUME "place" \notin unsure'
               PROVE  /\ \A d, e \in Managers : requests'[d].op \in TargetOps /\ requests'[e].op \in TargetOps => d = e
                      /\ (\A d \in Managers : requests'[d].op \notin TargetOps) => live'.place = PlaceInUse(mem')
                      /\ \A d \in Managers : Placed(requests[d])'
    BY DEF LiveAgrees, NoneOf
  <2>1. "place" \notin unsure /\ "place" \notin KeysInDoubt(w)
    BY <1>1
  <2>2. /\ \A d, e \in Managers : requests[d].op \in TargetOps /\ requests[e].op \in TargetOps => d = e
        /\ (\A d \in Managers : requests[d].op \notin TargetOps) => live.place = PlaceInUse(mem)
        /\ \A d \in Managers : Placed(requests[d])
    BY <2>1 DEF SettingsInv, LiveAgrees, NoneOf
  <2>3. requests'[c].op \notin TargetOps
    BY <1>4, <1>5 DEF TargetOps
  <2>4. \A d, e \in Managers : requests'[d].op \in TargetOps /\ requests'[e].op \in TargetOps => d = e
    BY <1>5, <2>2, <2>3
  <2>5. ASSUME NEW d \in Managers
        PROVE  Placed(requests[d])'
    <3>1. CASE d = c
      BY <2>3, <3>1 DEF Placed, TargetOps
    <3>2. CASE d # c
      <4>1. requests'[d] = requests[d]
        BY <1>5, <3>2
      <4> QED BY <1>1, <2>2, <4>1 DEF Placed
    <3> QED BY <3>1, <3>2
  <2>6. ASSUME \A d \in Managers : requests'[d].op \notin TargetOps
        PROVE  live.place = PlaceInUse(mem)
    <3>1. CASE w.op \in TargetOps
      <4>1. w.op \in {"putTarget", "postTarget"} /\ mem.active # w.arg
        BY <1>6, <2>1, <3>1
      <4>2. Placed(w)
        BY <2>2
      <4> QED BY <4>1, <4>2 DEF Placed
    <3>2. CASE w.op \notin TargetOps
      BY <1>5, <2>2, <2>6, <3>2
    <3> QED BY <3>1, <3>2
  <2> QED BY <1>1, <2>4, <2>5, <2>6 DEF PlaceInUse
<1>11. FoldersFollowTheRule'
  <2> SUFFICES ASSUME \A d \in Managers : requests'[d].op # "setRule", "common" \notin unsure'
               PROVE  live'.common = mem'.rule
    BY DEF FoldersFollowTheRule, NoneOf
  <2>1. w.op # "setRule" /\ "common" \notin unsure
    BY <1>1, <1>6
  <2>2. \A d \in Managers : requests[d].op # "setRule"
    BY <1>5, <2>1
  <2> QED BY <1>1, <2>1, <2>2 DEF SettingsInv, FoldersFollowTheRule, NoneOf
<1> QED BY <1>1, <1>7, <1>8, <1>9, <1>10, <1>11 DEF SettingsInv, PlaceInUse

LEMMA SettingsCrashKeeps ==
    ASSUME SettingsInv, SettingsCrash
    PROVE  SettingsInv'
<1>1. /\ mem' \in Loaded(repo) /\ repo' = [repo EXCEPT !.active = mem'.active]
      /\ live' = [place |-> PlaceInUse(mem'), common |-> mem'.rule] /\ requests' = [c \in Managers |-> NoRequest] /\ unsure' = {}
  BY DEF SettingsCrash
<1>2. repo \in SettingsRecord
  BY DEF SettingsInv, SettingsTypeOK
<1> DEFINE g == [t \in Kinds |-> IF t \notin repo.types THEN None
                                 ELSE IF repo.configs[t] = None THEN repo.rule ELSE repo.configs[t]]
<1>3. Shown(repo) = [repo EXCEPT !.configs = g]
  BY DEF Shown
<1>4. g \in [Kinds -> Rules \cup {None}]
  BY <1>2 DEF SettingsRecord
<1> HIDE DEF g
<1>5. /\ Shown(repo) \in SettingsRecord /\ Shown(repo).configs = g
      /\ \A k \in Keys : k # "configs" => Shown(repo)[k] = repo[k]
      /\ Shown(repo).active = repo.active /\ Shown(repo).targets = repo.targets
  BY <1>2, <1>3, <1>4 DEF SettingsRecord, Keys
<1>6. /\ mem' \in SettingsRecord /\ PlaceInUse(mem') # None
      /\ mem'.configs = g
      /\ \A k \in Keys : k \notin {"configs", "active"} => mem'[k] = repo[k]
  <2>1. CASE PlaceInUse(repo) # None
    <3>1. mem' = Shown(repo)
      BY <1>1, <2>1 DEF Loaded
    <3> QED BY <1>5, <2>1, <3>1 DEF PlaceInUse
  <2>2. CASE PlaceInUse(repo) = None
    <3>1. PICK y \in Targets : /\ mem' = [Shown(repo) EXCEPT !.active = y]
                               /\ repo.targets[y] # None
      BY <1>1, <2>2 DEF Loaded
    <3>2. y \in Targets
      OBVIOUS
    <3> DEFINE s == Shown(repo)
    <3>3. s \in SettingsRecord /\ s.configs = g /\ s.targets = repo.targets
            /\ \A k \in Keys : k # "configs" => s[k] = repo[k]
      BY <1>5
    <3>4. mem' = [s EXCEPT !.active = y]
      BY <3>1
    <3> HIDE DEF s
    <3>5. /\ mem' \in SettingsRecord /\ mem'.active = y /\ mem'.targets = s.targets
          /\ mem'.configs = s.configs /\ \A k \in Keys : k # "active" => mem'[k] = s[k]
      BY <3>2, <3>3, <3>4 DEF SettingsRecord, Keys
    <3> QED BY <3>1, <3>3, <3>5 DEF PlaceInUse
  <2> QED BY <2>1, <2>2
<1>7. /\ mem'.active \in Targets
      /\ live' \in Library /\ live'.place = PlaceInUse(mem') /\ live'.common = mem'.rule
  BY <1>1, <1>6 DEF SettingsRecord, PlaceInUse, Library
<1>8. /\ repo' \in SettingsRecord /\ repo'["active"] = mem'["active"]
      /\ \A k \in Keys : k # "active" => repo'[k] = repo[k]
      /\ repo'.types = repo.types /\ repo'.configs = repo.configs /\ repo'.rule = repo.rule
  <2> DEFINE y == mem'.active
  <2>1. repo' = [repo EXCEPT !.active = y] /\ y = mem'["active"]
    BY <1>1
  <2> HIDE DEF y
  <2> QED BY <1>2, <1>7, <2>1 DEF SettingsRecord, Keys, y
<1>9. Shown(repo').configs = g
  <2>1. Shown(repo') = [repo' EXCEPT !.configs = g]
    BY <1>8 DEF Shown, g
  <2> QED BY <1>8, <2>1 DEF SettingsRecord
<1>10. \A c \in Managers : requests'[c].op = "none" /\ requests'[c].key = None /\ requests'[c] \in Request
  BY <1>1 DEF NoRequest, Request
<1>11. SettingsTypeOK'
  <2>1. requests' \in [Managers -> Request]
    BY <1>1, <1>10
  <2>2. unsure' \subseteq Keys \cup {"place", "common"} /\ live' \in Library
    BY <1>1, <1>7
  <2> QED BY <1>6, <1>8, <2>1, <2>2 DEF SettingsTypeOK
<1>12. \A c \in Managers : RequestFits(requests'[c])
  BY <1>10 DEF RequestFits, KindOps
<1>13. ASSUME NEW k \in Keys
       PROVE  KeyAgrees(k)'
  <2>1. \A c \in Managers : requests'[c].key # k
    BY <1>10, SettingsAssumption
  <2>2. repo'[k] = mem'[k] \/ (k = "configs" /\ mem'.configs = Shown(repo').configs)
    BY <1>6, <1>8, <1>9
  <2> QED BY <2>1, <2>2 DEF KeyAgrees, Writes, Same
<1>14. LiveAgrees'
  BY <1>7, <1>10 DEF LiveAgrees, NoneOf, Placed, TargetOps
<1>15. FoldersFollowTheRule'
  BY <1>7 DEF FoldersFollowTheRule
<1> QED BY <1>6, <1>11, <1>12, <1>13, <1>14, <1>15 DEF SettingsInv

LEMMA SettingsStart == SettingsInit => SettingsInv
<1> SUFFICES ASSUME SettingsInit PROVE SettingsInv
  OBVIOUS
<1>1. /\ mem \in SettingsRecord /\ PlaceInUse(mem) # None /\ repo = mem
      /\ live = [place |-> PlaceInUse(mem), common |-> mem.rule]
      /\ requests = [c \in Managers |-> NoRequest] /\ unsure = {}
  BY DEF SettingsInit
<1>2. \A c \in Managers : requests[c].op = "none" /\ requests[c].key = None /\ requests[c] \in Request
  BY <1>1 DEF NoRequest, Request
<1>3. SettingsTypeOK
  <2>1. requests \in [Managers -> Request]
    BY <1>1, <1>2
  <2>2. live \in Library
    BY <1>1 DEF SettingsRecord, PlaceInUse, Library
  <2> QED BY <1>1, <2>1, <2>2 DEF SettingsTypeOK
<1>4. \A c \in Managers : RequestFits(requests[c])
  BY <1>2 DEF RequestFits, KindOps
<1>5. \A k \in Keys : KeyAgrees(k)
  BY <1>1, <1>2, SettingsAssumption DEF KeyAgrees, Writes, Same
<1>6. LiveAgrees /\ FoldersFollowTheRule
  BY <1>1, <1>2 DEF LiveAgrees, NoneOf, Placed, TargetOps, FoldersFollowTheRule
<1> QED BY <1>1, <1>3, <1>4, <1>5, <1>6 DEF SettingsInv

LEMMA SettingsStep == SettingsInv /\ [SettingsNext]_<<settingsVars, spent>> => SettingsInv'
<1> SUFFICES ASSUME SettingsInv, [SettingsNext]_<<settingsVars, spent>> PROVE SettingsInv'
  OBVIOUS
<1>1. ASSUME NEW c \in Managers, NEW op \in {"addType", "removeType", "setConfig"}, NEW t \in Kinds,
             RequestStarts(c, op, t)
      PROVE  SettingsInv'
  BY <1>1, RequestStartsKeeps DEF KindOps
<1>2. ASSUME NEW c \in Managers, NEW r \in Rules, RequestStarts(c, "setRule", r)
      PROVE  SettingsInv'
  BY <1>2, RequestStartsKeeps
<1>3. ASSUME NEW c \in Managers, NEW op \in TargetOps, NEW t \in Targets,
             RequestStarts(c, op, t)
      PROVE  SettingsInv'
  BY <1>3, RequestStartsKeeps
<1>4. ASSUME NEW c \in Managers, WriteLands(c) \/ WriteRejected(c)
      PROVE  SettingsInv'
  BY <1>4, WriteLandsKeeps, WriteRejectedKeeps
<1>5. CASE SettingsCrash
  BY <1>5, SettingsCrashKeeps
<1>6. CASE UNCHANGED <<settingsVars, spent>>
  BY <1>6 DEF settingsVars, SettingsInv, SettingsTypeOK, KeyAgrees, Writes, Owes, Same, LiveAgrees,
              NoneOf, Placed, PlaceInUse, FoldersFollowTheRule
<1> QED BY <1>1, <1>2, <1>3, <1>4, <1>5, <1>6 DEF SettingsNext

LEMMA AgreementSuffices == SettingsInv => SettingsAgree
<1> SUFFICES ASSUME SettingsInv PROVE SettingsAgree
  OBVIOUS
<1>1. mem \in SettingsRecord /\ repo \in SettingsRecord /\ PlaceInUse(mem) # None
  BY DEF SettingsInv, SettingsTypeOK
<1>2. ASSUME NEW j \in Keys, Settled(j), j \notin unsure
      PROVE  Same(j)
  <2>1. j # None
    BY SettingsAssumption
  <2>2. \A c \in Managers : ~Owes(c, j) /\ ~Writes(c, j)
    BY <1>2, <2>1 DEF Settled, Owes, Writes
  <2>3. KeyAgrees(j)
    BY DEF SettingsInv
  <2> QED BY <1>2, <2>2, <2>3 DEF KeyAgrees
<1>3. ASSUME NEW m \in SettingsRecord
      PROVE  /\ \A k \in Keys : k # "configs" => Shown(m)[k] = m[k]
             /\ Shown(m).configs = [t \in Kinds |-> IF t \notin m.types THEN None
                                     ELSE IF m.configs[t] = None THEN m.rule ELSE m.configs[t]]
             /\ Shown(m) \in SettingsRecord /\ Shown(m)["configs"] = Shown(m).configs
  <2> DEFINE g == [t \in Kinds |-> IF t \notin m.types THEN None
                                   ELSE IF m.configs[t] = None THEN m.rule ELSE m.configs[t]]
  <2>1. g \in [Kinds -> Rules \cup {None}]
    BY DEF SettingsRecord
  <2>2. Shown(m) = [m EXCEPT !.configs = g]
    BY DEF Shown
  <2> HIDE DEF g
  <2>3. /\ \A k \in Keys : k # "configs" => Shown(m)[k] = m[k]
        /\ Shown(m).configs = g /\ Shown(m) \in SettingsRecord
        /\ Shown(m)["configs"] = Shown(m).configs
    BY <2>1, <2>2 DEF SettingsRecord, Keys
  <2> QED BY <2>3 DEF g
<1>4. ASSUME NEW k \in Keys, \A j \in Decide(k) : Settled(j) /\ j \notin unsure, NEW m \in Loaded(repo)
      PROVE  m[k] = Shown(mem)[k]
  <2>1. \A j \in Decide(k) \cap Keys : Same(j)
    BY <1>2, <1>4
  <2>2. k # "active" => m[k] = Shown(repo)[k]
    <3>1. CASE m = Shown(repo)
      BY <3>1
    <3>2. CASE m # Shown(repo)
      <4>1. PICK y \in Targets : m = [Shown(repo) EXCEPT !.active = y]
        BY <1>4, <3>2 DEF Loaded
      <4> DEFINE s == Shown(repo)
      <4>2. s \in SettingsRecord /\ m = [s EXCEPT !.active = y]
        BY <1>1, <1>3, <4>1
      <4> HIDE DEF s
      <4>3. k # "active" => m[k] = s[k]
        BY <4>2 DEF SettingsRecord, Keys
      <4> QED BY <4>3 DEF s
    <3> QED BY <3>1, <3>2
  <2>3. CASE k \in {"types", "rule", "targets"}
    <3>1. k \in Decide(k)
      BY <2>3 DEF Decide
    <3>2. repo[k] = mem[k]
      BY <2>1, <2>3, <3>1 DEF Same
    <3> QED BY <1>1, <1>3, <2>2, <2>3, <3>2
  <2>4. CASE k = "active"
    <3>1. Decide(k) = {"targets", "active"}
      BY <2>4 DEF Decide
    <3>2. repo["targets"] = mem["targets"] /\ repo["active"] = mem["active"]
      BY <2>1, <3>1 DEF Same, Keys
    <3>3. PlaceInUse(repo) # None
      BY <1>1, <3>2 DEF PlaceInUse
    <3>4. m = Shown(repo)
      BY <1>4, <3>3 DEF Loaded
    <3> QED BY <1>1, <1>3, <2>4, <3>2, <3>4
  <2>5. CASE k = "configs"
    <3>1. Decide(k) = {"types", "configs", "rule"}
      BY <2>5 DEF Decide
    <3>2. repo["types"] = mem["types"] /\ repo["rule"] = mem["rule"] /\ Same("configs")
      BY <2>1, <3>1 DEF Same, Keys
    <3>3. repo.types = mem.types /\ repo.rule = mem.rule
      BY <3>2
    <3>4. CASE repo["configs"] = mem["configs"]
      <4>1. repo.configs = mem.configs
        BY <3>4
      <4>2. /\ Shown(repo).configs = [t \in Kinds |-> IF t \notin mem.types THEN None
                              ELSE IF mem.configs[t] = None THEN mem.rule ELSE mem.configs[t]]
            /\ Shown(mem).configs = [t \in Kinds |-> IF t \notin mem.types THEN None
                              ELSE IF mem.configs[t] = None THEN mem.rule ELSE mem.configs[t]]
        BY <1>1, <1>3, <3>3, <4>1
      <4>3. Shown(repo).configs = Shown(mem).configs
        BY <4>2
      <4> QED BY <1>1, <1>3, <2>2, <2>5, <4>3
    <3>5. CASE mem.configs = Shown(repo).configs
      <4>1. /\ Shown(repo).configs = [t \in Kinds |-> IF t \notin mem.types THEN None
                              ELSE IF repo.configs[t] = None THEN mem.rule ELSE repo.configs[t]]
            /\ Shown(mem).configs = [t \in Kinds |-> IF t \notin mem.types THEN None
                              ELSE IF mem.configs[t] = None THEN mem.rule ELSE mem.configs[t]]
        BY <1>1, <1>3, <3>3
      <4>2. mem.rule \in Rules /\ mem.rule # None
        BY <1>1, SettingsAssumption DEF SettingsRecord
      <4>3. Shown(mem).configs = mem.configs
        BY <3>5, <4>1, <4>2
      <4> QED BY <1>1, <1>3, <2>2, <2>5, <3>5, <4>3
    <3> QED BY <3>2, <3>4, <3>5 DEF Same
  <2> QED BY <2>3, <2>4, <2>5 DEF Keys
<1>5. UploadsGoToActiveTarget /\ FoldersFollowTheRule
  BY DEF SettingsInv, LiveAgrees, UploadsGoToActiveTarget
<1> QED BY <1>4, <1>5 DEF SettingsAgree, RestartKeepsSettings

\* Memory, repository, library and requests keep their types.
THEOREM SettingsTypeCorrect == SettingsSpec => []SettingsTypeOK
<1>1. SettingsInv => SettingsTypeOK
  BY DEF SettingsInv
<1> QED BY SettingsStart, SettingsStep, <1>1, PTL DEF SettingsSpec

\* What the office set is what a restart reads, and the library works with it,
\* for any number of kinds, rules, targets, places and managers at work: a key
\* that nobody is writing or still owes a write is in the repository as it is
\* in memory, unless two writes of it overlapped or one was rejected; uploads
\* go to the place of the target in use, edited ones too, unless requests about
\* targets overlapped or failed or a POST replaced it; and folders follow the
\* common rule unless the last request that set it failed.
THEOREM SettingsAgreeAlways == SettingsSpec => []SettingsAgree
BY SettingsStart, SettingsStep, AgreementSuffices, PTL DEF SettingsSpec


----------------------------------------------------------------------------
(* The shell of the client *)

ShellSpec == ShellInit /\ NothingSpent /\ [][ShellNext]_<<shellVars, spent>>

\* What holds however hasty the user is.
ShellHolds ==
    /\ view \in MasterOnly => session = "MASTER"
    /\ view = "admin-detail" => session # None
    /\ view = "completed" => submitted
    /\ checking => session = None /\ \A r \in awaited : r.does # "login"
    /\ \A r \in awaited : r.does = "session"
         => checking /\ r = [does |-> "session", site |-> None, as |-> None]
    /\ \A r \in awaited : r.does = "site" => r.site \in Sites

\* What the shell shows while it waits for r alone, so that every answer
\* leads to a screen.
Waits(r) ==
    /\ r.does = "session" => view = "register"
    /\ r.does = "login" => view = "admin-login"
    /\ r.does = "sites" => view \in {"admin-sites", "admin-logs"}
    /\ r.does = "site" => view = "admin-detail" /\ r.site = selected /\ r.as = session

PatientHolds == \/ awaited = {} /\ Drawn
                \/ \E r \in ShellRequest : awaited = {r} /\ Waits(r)

ShellInv == ShellTypeOK /\ ShellHolds /\ (~hasty => PatientHolds)


LEMMA LandingFits ==
    ASSUME NEW v \in Views, NEW s \in Roles \cup {None}
    PROVE  /\ Landing(v, s) \in Views
           /\ Landing(v, s) \in MasterOnly => s = "MASTER" /\ Landing(v, s) = v
           /\ v \notin MasterOnly => Landing(v, s) = v
           /\ v \in MasterOnly /\ s = "MASTER" => Landing(v, s) = v
           /\ v \in MasterOnly /\ s # "MASTER" => Landing(v, s) = IF s = None THEN "register" ELSE "history"
           /\ Landing(v, s) \in {v, "register", "history"}
BY DEF Landing, Views, MasterOnly

LEMMA FetchesFit ==
    ASSUME NEW v, NEW s \in Roles \cup {None}
    PROVE  \/ Fetches(v, s) = {}
           \/ /\ Fetches(v, s) = {[does |-> "sites", site |-> None, as |-> s]}
              /\ [does |-> "sites", site |-> None, as |-> s] \in ShellRequest
              /\ v \in {"admin-sites", "admin-logs"} /\ s = "MASTER"
BY DEF Fetches, ShellRequest

LEMMA AsksFits ==
    ASSUME ShellTypeOK, NEW d \in {"session", "login", "logout", "sites", "site"}, NEW s \in Sites \cup {None}
    PROVE  /\ Asks(d, s) \in ShellRequest
           /\ Asks(d, s).does = d /\ Asks(d, s).site = s /\ Asks(d, s).as = session
BY DEF Asks, ShellRequest, ShellTypeOK

\* A move of the user from a shell that waits for nothing.
LEMMA MovesFit ==
    ASSUME ShellInv, NEW v \in Views, NEW extra \in SUBSET ShellRequest, Moves(v, extra)
    PROVE  /\ view' = Landing(v, session) /\ view' \in Views /\ session' = session
           /\ awaited' \in SUBSET ShellRequest /\ hasty' \in BOOLEAN
           /\ view' \in MasterOnly => session = "MASTER"
           /\ \A r \in awaited' : \/ r \in awaited \/ r \in extra
                                  \/ r.does = "sites"
           /\ ~hasty' => /\ awaited' = extra \cup Fetches(v, session)
<1>1. /\ view' = Landing(v, session) /\ session' = session
      /\ awaited' = (awaited \cup extra) \cup Fetches(v, session) /\ hasty' = (awaited # {})
  BY DEF Moves, TurnTo
<1>2. session \in Roles \cup {None} /\ awaited \subseteq ShellRequest
  BY DEF ShellInv, ShellTypeOK
<1>3. \/ Fetches(v, session) = {}
      \/ /\ Fetches(v, session) = {[does |-> "sites", site |-> None, as |-> session]}
         /\ [does |-> "sites", site |-> None, as |-> session] \in ShellRequest
  BY <1>2, FetchesFit
<1>4. view' \in Views /\ (view' \in MasterOnly => session = "MASTER")
  BY <1>1, <1>2, LandingFits
<1>5. awaited' \in SUBSET ShellRequest
  BY <1>1, <1>2, <1>3
<1>6. \A r \in awaited' : r \in awaited \/ r \in extra \/ r.does = "sites"
  BY <1>1, <1>3
<1>7. ~hasty' => awaited' = extra \cup Fetches(v, session)
  BY <1>1
<1> QED BY <1>1, <1>4, <1>5, <1>6, <1>7

LEMMA OneAwaited ==
    ASSUME NEW q \in ShellRequest, awaited' = {q}, Waits(q)'
    PROVE  PatientHolds'
BY DEF PatientHolds

LEMMA SitesAwaited ==
    ASSUME NEW v, NEW s \in Roles \cup {None}, awaited' = Fetches(v, s), v = view', Fetches(v, s) # {}
    PROVE  PatientHolds'
<1>1. PICK q \in ShellRequest : /\ awaited' = {q} /\ q.does = "sites"
                                /\ v \in {"admin-sites", "admin-logs"}
  BY FetchesFit
<1>2. Waits(q)'
  BY <1>1 DEF Waits
<1> QED BY <1>1, <1>2, OneAwaited

LEMMA NavigateKeeps ==
    ASSUME ShellInv, NEW v \in Views, Navigate(v)
    PROVE  ShellInv'
<1> DEFINE z == CASE v # "register" /\ session = None -> "admin-login"
                  [] v \in MasterOnly /\ session = "TECH" -> "history"
                  [] OTHER -> v
<1>1. /\ v \in MasterOnly \cup {"register", "history", "technicians"}
      /\ Moves(z, {}) /\ UNCHANGED <<checking, sites, selected, submitted>>
  BY DEF Navigate
<1>2. session \in {"MASTER", "TECH", None} /\ "MASTER" # None /\ "TECH" # None
  BY AppShellAssumption DEF ShellInv, ShellTypeOK, Roles
<1>3. \/ v = "register" /\ z = v
      \/ v # "register" /\ session = None /\ z = "admin-login"
      \/ v \in MasterOnly /\ session = "TECH" /\ z = "history"
      \/ v \in MasterOnly /\ session = "MASTER" /\ z = v
      \/ v \in {"history", "technicians"} /\ session # None /\ z = v
  <2>1. CASE v = "register"
    BY <2>1 DEF MasterOnly
  <2>2. CASE v # "register" /\ session = None
    BY <1>2, <2>2
  <2>3. CASE v \in MasterOnly /\ session = "TECH"
    BY <1>2, <2>3
  <2>4. CASE v # "register" /\ session # None /\ ~(v \in MasterOnly /\ session = "TECH")
    BY <1>1, <1>2, <2>4
  <2> QED BY <1>2, <2>1, <2>2, <2>3, <2>4
<1> HIDE DEF z
<1>4. z \in Views
  BY <1>3 DEF Views
<1>5. /\ view' = Landing(z, session) /\ view' \in Views /\ session' = session
      /\ awaited' \in SUBSET ShellRequest /\ hasty' \in BOOLEAN
      /\ view' \in MasterOnly => session = "MASTER"
      /\ \A r \in awaited' : r \in awaited \/ r \in {} \/ r.does = "sites"
      /\ ~hasty' => awaited' = {} \cup Fetches(z, session)
  BY <1>1, <1>4, MovesFit
<1>6. view' = z
  <2>1. session \in Roles \cup {None}
    BY <1>2 DEF Roles
  <2>2. z \in MasterOnly => session = "MASTER"
    BY <1>3 DEF MasterOnly
  <2> QED BY <1>4, <1>5, <2>1, <2>2, LandingFits
<1>7. ShellTypeOK'
  BY <1>1, <1>5 DEF ShellInv, ShellTypeOK
<1>8. z # "admin-detail" /\ z # "completed"
  BY <1>3 DEF MasterOnly
<1>9. ShellHolds'
  BY <1>1, <1>5, <1>6, <1>8 DEF ShellInv, ShellHolds
<1>10. Drawn'
  BY <1>1, <1>2, <1>3, <1>5, <1>6 DEF Drawn, MasterOnly
<1>11. ASSUME ~hasty'
       PROVE  PatientHolds'
  <2>1. CASE Fetches(z, session) = {}
    BY <1>5, <1>10, <1>11, <2>1 DEF PatientHolds
  <2>2. CASE Fetches(z, session) # {}
    BY <1>5, <1>6, <1>11, <2>2, SitesAwaited DEF ShellInv, ShellTypeOK
  <2> QED BY <2>1, <2>2
<1> QED BY <1>7, <1>9, <1>11 DEF ShellInv


\* A move that leads to a screen, or waits for one answer that will.
LEMMA MoveKeeps ==
    ASSUME ShellInv, NEW v \in Views, NEW extra \in SUBSET ShellRequest, Moves(v, extra),
           checking' = checking, sites' = sites, selected' \in Sites \cup {None}, submitted' \in BOOLEAN,
           v \in MasterOnly => session = "MASTER",
           v = "admin-detail" => session # None,
           v = "completed" => submitted',
           \A r \in extra : /\ r.does # "session" /\ (r.does = "login" => ~checking)
                            /\ r.does = "site" => r.site \in Sites,
           \/ extra = {} /\ (view' = v /\ session' = session => Drawn')
           \/ \E q \in extra : /\ extra = {q}
                               /\ view' = v /\ session' = session => Waits(q)'
                               /\ Fetches(v, session) = {}
    PROVE  ShellInv'
<1>1. /\ view' = Landing(v, session) /\ view' \in Views /\ session' = session
      /\ awaited' \in SUBSET ShellRequest /\ hasty' \in BOOLEAN
      /\ view' \in MasterOnly => session = "MASTER"
      /\ \A r \in awaited' : r \in awaited \/ r \in extra \/ r.does = "sites"
      /\ ~hasty' => awaited' = extra \cup Fetches(v, session)
  BY MovesFit
<1>2. session \in Roles \cup {None} /\ checking \in BOOLEAN /\ sites \subseteq Sites
  BY DEF ShellInv, ShellTypeOK
<1>3. view' = v
  BY <1>1, <1>2, LandingFits
<1>4. ShellTypeOK'
  BY <1>1, <1>2 DEF ShellTypeOK
<1>5. ShellHolds'
  BY <1>1, <1>3 DEF ShellInv, ShellHolds
<1>6. ASSUME ~hasty'
      PROVE  PatientHolds'
  <2>1. CASE extra = {} /\ Fetches(v, session) = {} /\ (view' = v /\ session' = session => Drawn')
    BY <1>1, <1>3, <1>6, <2>1 DEF PatientHolds
  <2>2. CASE extra = {} /\ Fetches(v, session) # {}
    BY <1>1, <1>2, <1>3, <1>6, <2>2, SitesAwaited
  <2>3. CASE extra # {}
    <3>1. PICK q \in extra : /\ extra = {q}
                             /\ view' = v /\ session' = session => Waits(q)'
                             /\ Fetches(v, session) = {}
      BY <2>3
    <3> QED BY <1>1, <1>3, <1>6, <3>1, OneAwaited
  <2> QED BY <2>1, <2>2, <2>3
<1> QED BY <1>4, <1>5, <1>6 DEF ShellInv

LEMMA FetchesNothing ==
    ASSUME NEW v, v = view \/ v \notin {"admin-sites", "admin-logs"}
    PROVE  Fetches(v, session) = {}
BY DEF Fetches

LEMMA LoginMovesKeep ==
    ASSUME ShellInv, SubmitsLogin \/ CancelsLogin
    PROVE  ShellInv'
<1>1. /\ ShellTypeOK /\ view = "admin-login" /\ ~checking
      /\ UNCHANGED <<checking, sites, selected, submitted>>
  BY DEF SubmitsLogin, CancelsLogin, ShellInv
<1>2. /\ selected' \in Sites \cup {None} /\ submitted' \in BOOLEAN
      /\ "admin-login" \in Views /\ "register" \in Views
      /\ "admin-login" \notin MasterOnly /\ "register" \notin MasterOnly
  BY <1>1 DEF ShellTypeOK, Views, MasterOnly
<1>3. CASE SubmitsLogin
  <2>1. PICK q \in ShellRequest : q = Asks("login", None) /\ q.does = "login"
    BY <1>1, AsksFits
  <2>2. Moves(view, {q}) /\ Fetches(view, session) = {}
    BY <1>3, <2>1, FetchesNothing DEF SubmitsLogin
  <2>3. view' = view => Waits(q)'
    BY <1>1, <2>1 DEF Waits
  <2> QED BY <1>1, <1>2, <2>1, <2>2, <2>3, MoveKeeps
<1>4. CASE CancelsLogin
  <2>1. Moves("register", {})
    BY <1>4 DEF CancelsLogin
  <2>2. view' = "register" => Drawn'
    BY DEF Drawn, MasterOnly
  <2> QED BY <1>1, <1>2, <2>1, <2>2, MoveKeeps
<1> QED BY <1>3, <1>4

LEMMA OpenSiteKeeps ==
    ASSUME ShellInv, NEW s \in Sites, OpenSite(s)
    PROVE  ShellInv'
<1>1. /\ ShellTypeOK /\ ShellHolds /\ UNCHANGED <<checking, sites, submitted>> /\ selected' = s
  BY DEF OpenSite, ShellInv
<1>2. /\ selected' \in Sites \cup {None} /\ submitted' \in BOOLEAN
      /\ "admin-detail" \in Views /\ "admin-detail" \notin MasterOnly
  BY <1>1 DEF ShellTypeOK, Views, MasterOnly
<1>3. session # None
  <2>1. CASE view = "history" /\ session # None
    BY <2>1
  <2>2. CASE view \in {"admin-sites", "admin-logs"}
    BY <1>1, <2>2, AppShellAssumption DEF ShellHolds, MasterOnly, Roles
  <2> QED BY <2>1, <2>2 DEF OpenSite
<1>4. CASE s \in sites
  <2>1. Moves("admin-detail", {})
    BY <1>4 DEF OpenSite
  <2>2. view' = "admin-detail" /\ session' = session => Drawn'
    BY <1>1, <1>3, <1>4 DEF Drawn, MasterOnly
  <2> QED BY <1>1, <1>2, <1>3, <2>1, <2>2, MoveKeeps
<1>5. CASE s \notin sites
  <2>1. PICK q \in ShellRequest : /\ q = Asks("site", s) /\ q.does = "site" /\ q.site = s /\ q.as = session
    BY <1>1, AsksFits
  <2>2. Moves("admin-detail", {q}) /\ Fetches("admin-detail", session) = {}
    BY <1>5, <2>1, FetchesNothing DEF OpenSite
  <2>3. view' = "admin-detail" /\ session' = session => Waits(q)'
    BY <1>1, <2>1 DEF Waits
  <2> QED BY <1>1, <1>2, <1>3, <2>1, <2>2, <2>3, MoveKeeps
<1> QED BY <1>4, <1>5

LEMMA GoesBackKeeps ==
    ASSUME ShellInv, GoesBack
    PROVE  ShellInv'
<1>1. /\ ShellTypeOK /\ ShellHolds /\ UNCHANGED <<checking, sites, selected, submitted>>
      /\ view = "admin-detail"
  BY DEF GoesBack, ShellInv
<1>2. selected' \in Sites \cup {None} /\ submitted' \in BOOLEAN /\ session # None
  BY <1>1 DEF ShellTypeOK, ShellHolds
<1> DEFINE v == IF session = "MASTER" THEN "admin-sites" ELSE "history"
<1>3. /\ v \in Views /\ (v \in MasterOnly => session = "MASTER") /\ v # "admin-detail" /\ v # "completed"
      /\ v \in {"admin-sites", "history"}
  BY DEF Views, MasterOnly
<1>4. Moves(v, {})
  BY DEF GoesBack
<1> HIDE DEF v
<1>5. view' = v /\ session' = session => Drawn'
  BY <1>2, <1>3 DEF Drawn, MasterOnly
<1> QED BY <1>1, <1>2, <1>3, <1>4, <1>5, MoveKeeps

LEMMA ListMovesKeep ==
    ASSUME ShellInv, RefreshesSites \/ HandleLogout
    PROVE  ShellInv'
<1>1. /\ ShellTypeOK /\ ShellHolds /\ UNCHANGED <<checking, sites, selected, submitted>>
  BY DEF RefreshesSites, HandleLogout, ShellInv
<1>2. selected' \in Sites \cup {None} /\ submitted' \in BOOLEAN /\ view \in Views
  BY <1>1 DEF ShellTypeOK
<1>3. /\ view \in MasterOnly => session = "MASTER"
      /\ view = "admin-detail" => session # None
      /\ view = "completed" => submitted'
  BY <1>1 DEF ShellHolds
<1>4. CASE RefreshesSites
  <2>1. PICK q \in ShellRequest : q = Asks("sites", None) /\ q.does = "sites"
    BY <1>1, AsksFits
  <2>2. Moves(view, {q}) /\ Fetches(view, session) = {} /\ view = "admin-sites"
    BY <1>4, <2>1, FetchesNothing DEF RefreshesSites
  <2>3. view' = view => Waits(q)'
    BY <2>1, <2>2 DEF Waits
  <2> QED BY <1>1, <1>2, <1>3, <2>1, <2>2, <2>3, MoveKeeps
<1>5. CASE HandleLogout
  <2>1. PICK q \in ShellRequest : q = Asks("logout", None) /\ q.does = "logout"
    BY <1>1, AsksFits
  <2>2. Moves(view, {q}) /\ Fetches(view, session) = {}
    BY <1>5, <2>1, FetchesNothing DEF HandleLogout
  <2>3. Waits(q)'
    BY <2>1 DEF Waits
  <2> QED BY <1>1, <1>2, <1>3, <2>1, <2>2, <2>3, MoveKeeps
<1> QED BY <1>4, <1>5

LEMMA SubmissionMovesKeep ==
    ASSUME ShellInv, SubmissionAccepted \/ NewSubmission
    PROVE  ShellInv'
<1>1. /\ ShellTypeOK /\ ShellHolds /\ UNCHANGED <<checking, sites, selected>> /\ submitted' \in BOOLEAN
  BY DEF SubmissionAccepted, NewSubmission, ShellInv
<1>2. /\ selected' \in Sites \cup {None}
      /\ "completed" \in Views /\ "register" \in Views
      /\ "completed" \notin MasterOnly /\ "register" \notin MasterOnly
  BY <1>1 DEF ShellTypeOK, Views, MasterOnly
<1>3. CASE SubmissionAccepted
  <2>1. Moves("completed", {}) /\ submitted'
    BY <1>3 DEF SubmissionAccepted
  <2>2. view' = "completed" => Drawn'
    BY <2>1 DEF Drawn, MasterOnly
  <2> QED BY <1>1, <1>2, <2>1, <2>2, MoveKeeps
<1>4. CASE NewSubmission
  <2>1. Moves("register", {})
    BY <1>4 DEF NewSubmission
  <2>2. view' = "register" => Drawn'
    BY DEF Drawn, MasterOnly
  <2> QED BY <1>1, <1>2, <2>1, <2>2, MoveKeeps
<1> QED BY <1>3, <1>4


\* An answer turns the shell to v and s; if it was the only one awaited,
\* there is a screen to show.
LEMMA AnswerKeeps ==
    ASSUME ShellInv, NEW r \in awaited, NEW v \in Views, NEW s \in Roles \cup {None},
           TurnTo(v, s, awaited \ {r}), hasty' = hasty, submitted' = submitted,
           sites' \in SUBSET Sites, selected' \in Sites \cup {None}, checking' \in BOOLEAN,
           v = "admin-detail" => s # None,
           v = "completed" => submitted,
           checking' => checking /\ s = None,
           \A q \in awaited \ {r} : q.does = "session" => checking',
           (Waits(r) /\ PatientHolds /\ view' = Landing(v, s) /\ session' = s) => (view' = v /\ Drawn')
    PROVE  ShellInv'
<1>1. /\ view' = Landing(v, s) /\ session' = s /\ awaited' = (awaited \ {r}) \cup Fetches(v, s)
  BY DEF TurnTo
<1>2. ShellTypeOK /\ ShellHolds /\ (~hasty => PatientHolds)
  BY DEF ShellInv
<1>3. \/ Fetches(v, s) = {}
      \/ /\ Fetches(v, s) = {[does |-> "sites", site |-> None, as |-> s]}
         /\ [does |-> "sites", site |-> None, as |-> s] \in ShellRequest
  BY FetchesFit
<1>4. /\ view' \in Views /\ (view' \in MasterOnly => s = "MASTER")
      /\ view' \in {v, "register", "history"}
  BY <1>1, LandingFits
<1>5. ShellTypeOK'
  BY <1>1, <1>2, <1>3, <1>4 DEF ShellTypeOK
<1>6. \A q \in awaited' : q \in awaited \ {r} \/ q.does = "sites"
  BY <1>1, <1>3
<1>7. ShellHolds'
  BY <1>1, <1>2, <1>4, <1>6 DEF ShellHolds
<1>8. ASSUME ~hasty
      PROVE  PatientHolds'
  <2>1. awaited = {r} /\ Waits(r)
    BY <1>2, <1>8 DEF PatientHolds
  <2>2. awaited' = Fetches(v, s)
    BY <1>1, <2>1
  <2>3. view' = v /\ Drawn'
    BY <1>1, <1>2, <1>8, <2>1
  <2>4. CASE Fetches(v, s) = {}
    BY <2>2, <2>3, <2>4 DEF PatientHolds
  <2>5. CASE Fetches(v, s) # {}
    BY <2>2, <2>3, <2>5, SitesAwaited
  <2> QED BY <2>4, <2>5
<1> QED BY <1>5, <1>7, <1>8 DEF ShellInv

LEMMA SessionRestoredKeeps ==
    ASSUME ShellInv, NEW s \in Roles \cup {None}, SessionRestored(s)
    PROVE  ShellInv'
<1>1. PICK r \in awaited : /\ r.does = "session" /\ checking' = FALSE
                           /\ TurnTo(view, s, awaited \ {r})
                           /\ UNCHANGED <<sites, selected, submitted, hasty>>
  BY DEF SessionRestored
<1>2. ShellTypeOK /\ ShellHolds
  BY DEF ShellInv
<1>3. /\ view \in Views /\ sites' \in SUBSET Sites /\ selected' \in Sites \cup {None}
      /\ session = None /\ view # "admin-detail" /\ (view = "completed" => submitted)
  BY <1>1, <1>2 DEF ShellTypeOK, ShellHolds
<1>4. \A q \in awaited \ {r} : q.does # "session"
  BY <1>1, <1>2 DEF ShellHolds
<1>5. Waits(r) /\ view' = Landing(view, s) => (view' = view /\ Drawn')
  BY <1>1 DEF Waits, Landing, Drawn, MasterOnly
<1> QED BY <1>1, <1>3, <1>4, <1>5, AnswerKeeps

LEMMA LoginAnsweredKeeps ==
    ASSUME ShellInv, NEW s \in Roles \cup {None}, LoginAnswered(s)
    PROVE  ShellInv'
<1>1. PICK r \in awaited :
        /\ r.does = "login"
        /\ IF s = None THEN TurnTo(view, session, awaited \ {r})
           ELSE TurnTo(IF s = "MASTER" THEN "admin-sites" ELSE "history", s, awaited \ {r})
        /\ UNCHANGED <<checking, sites, selected, submitted, hasty>>
  BY DEF LoginAnswered
<1>2. ShellTypeOK /\ ShellHolds
  BY DEF ShellInv
<1>3. /\ view \in Views /\ session \in Roles \cup {None} /\ checking' \in BOOLEAN /\ ~checking
      /\ sites' \in SUBSET Sites /\ selected' \in Sites \cup {None}
      /\ view = "admin-detail" => session # None
      /\ view = "completed" => submitted
      /\ \A q \in awaited : q.does # "session"
  BY <1>1, <1>2 DEF ShellTypeOK, ShellHolds
<1>4. CASE s = None
  <2>1. Waits(r) /\ view' = Landing(view, session) => (view' = view /\ Drawn')
    BY <1>1 DEF Waits, Landing, Drawn, MasterOnly
  <2> QED BY <1>1, <1>3, <1>4, <2>1, AnswerKeeps
<1>5. CASE s # None
  <2> DEFINE v == IF s = "MASTER" THEN "admin-sites" ELSE "history"
  <2>1. v \in Views /\ v \in {"admin-sites", "history"} /\ (v = "admin-sites" => s = "MASTER")
    BY DEF Views, MasterOnly
  <2>2. TurnTo(v, s, awaited \ {r})
    BY <1>1, <1>5
  <2> HIDE DEF v
  <2>3. view' = Landing(v, s) /\ session' = s => (view' = v /\ Drawn')
    BY <1>5, <2>1 DEF Landing, Drawn, MasterOnly
  <2> QED BY <1>1, <1>3, <1>5, <2>1, <2>2, <2>3, AnswerKeeps
<1> QED BY <1>4, <1>5

LEMMA LogoutAnsweredKeeps ==
    ASSUME ShellInv, LogoutAnswered
    PROVE  ShellInv'
<1>1. PICK r \in awaited :
        /\ r.does = "logout" /\ sites' = {} /\ selected' = None
        /\ TurnTo("register", None, awaited \ {r})
        /\ UNCHANGED <<checking, submitted, hasty>>
  BY DEF LogoutAnswered
<1>2. ShellTypeOK /\ ShellHolds
  BY DEF ShellInv
<1>3. /\ "register" \in Views /\ sites' \in SUBSET Sites /\ selected' \in Sites \cup {None}
      /\ checking' \in BOOLEAN /\ None \in Roles \cup {None}
      /\ \A q \in awaited : q.does = "session" => checking
  BY <1>1, <1>2 DEF ShellTypeOK, ShellHolds, Views
<1>4. view' = Landing("register", None) => (view' = "register" /\ Drawn')
  BY DEF Landing, Drawn, MasterOnly
<1> QED BY <1>1, <1>3, <1>4, AnswerKeeps

LEMMA SitesArriveKeeps ==
    ASSUME ShellInv, SitesArrive
    PROVE  ShellInv'
<1>1. PICK r \in awaited :
        /\ r.does = "sites" /\ sites' = RecentSites
        /\ TurnTo(view, session, awaited \ {r})
        /\ UNCHANGED <<checking, selected, submitted, hasty>>
  BY DEF SitesArrive
<1>2. ShellTypeOK /\ ShellHolds
  BY DEF ShellInv
<1>3. /\ view \in Views /\ session \in Roles \cup {None} /\ checking' \in BOOLEAN
      /\ sites' \in SUBSET Sites /\ selected' \in Sites \cup {None}
      /\ view = "admin-detail" => session # None
      /\ view = "completed" => submitted
      /\ checking' => checking /\ session = None
      /\ \A q \in awaited : q.does = "session" => checking'
      /\ view \in MasterOnly => session = "MASTER"
  BY <1>1, <1>2, AppShellAssumption DEF ShellTypeOK, ShellHolds
<1>4. Waits(r) /\ view' = Landing(view, session) /\ session' = session => (view' = view /\ Drawn')
  BY <1>1, <1>3 DEF Waits, Landing, Drawn, MasterOnly
<1> QED BY <1>1, <1>3, <1>4, AnswerKeeps

LEMMA SitesFailKeeps ==
    ASSUME ShellInv, NEW ended \in BOOLEAN, SitesFail(ended)
    PROVE  ShellInv'
<1>1. PICK r \in awaited :
        /\ r.does = "sites"
        /\ IF ended THEN TurnTo("admin-login", None, awaited \ {r})
           ELSE TurnTo(view, session, awaited \ {r})
        /\ UNCHANGED <<checking, sites, selected, submitted, hasty>>
  BY DEF SitesFail
<1>2. ShellTypeOK /\ ShellHolds
  BY DEF ShellInv
<1>3. /\ view \in Views /\ session \in Roles \cup {None} /\ checking' \in BOOLEAN
      /\ sites' \in SUBSET Sites /\ selected' \in Sites \cup {None}
      /\ view = "admin-detail" => session # None
      /\ view = "completed" => submitted
      /\ checking' => checking /\ session = None
      /\ \A q \in awaited : q.does = "session" => checking'
      /\ view \in MasterOnly => session = "MASTER"
      /\ "admin-login" \in Views
  BY <1>1, <1>2 DEF ShellTypeOK, ShellHolds, Views
<1>4. CASE ended
  <2>1. view' = Landing("admin-login", None) => (view' = "admin-login" /\ Drawn')
    BY DEF Landing, Drawn, MasterOnly
  <2> QED BY <1>1, <1>3, <1>4, <2>1, AnswerKeeps
<1>5. CASE ~ended
  <2>1. Waits(r) /\ view' = Landing(view, session) /\ session' = session => (view' = view /\ Drawn')
    BY <1>1, <1>3 DEF Waits, Landing, Drawn, MasterOnly
  <2> QED BY <1>1, <1>3, <1>5, <2>1, AnswerKeeps
<1> QED BY <1>4, <1>5

LEMMA SiteArrivesKeeps ==
    ASSUME ShellInv, SiteArrives
    PROVE  ShellInv'
<1>1. PICK r \in awaited :
        /\ r.does = "site" /\ sites' = sites \cup {r.site}
        /\ TurnTo(view, session, awaited \ {r})
        /\ UNCHANGED <<checking, selected, submitted, hasty>>
  BY DEF SiteArrives
<1>2. ShellTypeOK /\ ShellHolds
  BY DEF ShellInv
<1>3. /\ view \in Views /\ session \in Roles \cup {None} /\ checking' \in BOOLEAN
      /\ sites' \in SUBSET Sites /\ selected' \in Sites \cup {None}
      /\ view = "admin-detail" => session # None
      /\ view = "completed" => submitted
      /\ checking' => checking /\ session = None
      /\ \A q \in awaited : q.does = "session" => checking'
  BY <1>1, <1>2 DEF ShellTypeOK, ShellHolds
<1>4. Waits(r) /\ view' = Landing(view, session) /\ session' = session => (view' = view /\ Drawn')
  BY <1>1, <1>3 DEF Waits, Landing, Drawn, MasterOnly
<1> QED BY <1>1, <1>3, <1>4, AnswerKeeps

LEMMA SiteFailsKeeps ==
    ASSUME ShellInv, SiteFails
    PROVE  ShellInv'
<1>1. PICK r \in awaited :
        /\ r.does = "site"
        /\ TurnTo(Retreat(r), session, awaited \ {r})
        /\ UNCHANGED <<checking, sites, selected, submitted, hasty>>
  BY DEF SiteFails
<1>2. ShellTypeOK /\ ShellHolds
  BY DEF ShellInv
<1>3. /\ view \in Views /\ session \in Roles \cup {None} /\ checking' \in BOOLEAN
      /\ sites' \in SUBSET Sites /\ selected' \in Sites \cup {None}
      /\ view = "admin-detail" => session # None
      /\ checking' => checking /\ session = None
      /\ \A q \in awaited : q.does = "session" => checking'
  BY <1>1, <1>2 DEF ShellTypeOK, ShellHolds
<1> DEFINE v == Retreat(r)
<1>4. /\ v \in {"admin-sites", "history"} /\ v \in Views
      /\ v = IF r.as = "MASTER" THEN "admin-sites" ELSE "history"
  BY DEF Retreat, Views, MasterOnly
<1>5. TurnTo(v, session, awaited \ {r})
  BY <1>1
<1> HIDE DEF v
<1>6. Waits(r) /\ view' = Landing(v, session) /\ session' = session => (view' = v /\ Drawn')
  BY <1>1, <1>3, <1>4 DEF Waits, Landing, Drawn, MasterOnly
<1>7. (Waits(r) => session # None) /\ v # "admin-detail" /\ v # "completed"
  BY <1>1, <1>3, <1>4 DEF Waits
<1> QED BY <1>1, <1>3, <1>4, <1>5, <1>6, <1>7, AnswerKeeps

LEMMA ShellStart == ShellInit => ShellInv
<1> SUFFICES ASSUME ShellInit PROVE ShellInv
  OBVIOUS
<1> DEFINE q == [does |-> "session", site |-> None, as |-> None]
<1>1. /\ view = "register" /\ session = None /\ checking = TRUE
      /\ sites = {} /\ selected = None /\ submitted = FALSE
      /\ awaited = {q} /\ hasty = FALSE
  BY DEF ShellInit
<1>2. q \in ShellRequest /\ q.does = "session"
  BY DEF ShellRequest
<1>3. ShellTypeOK
  BY <1>1, <1>2 DEF ShellTypeOK, Views
<1>4. ShellHolds
  BY <1>1, <1>2 DEF ShellHolds, MasterOnly
<1> HIDE DEF q
<1>5. Waits(q)
  BY <1>1, <1>2 DEF Waits
<1> QED BY <1>1, <1>2, <1>3, <1>4, <1>5 DEF ShellInv, PatientHolds

LEMMA ShellStep == ShellInv /\ [ShellNext]_<<shellVars, spent>> => ShellInv'
<1> SUFFICES ASSUME ShellInv, [ShellNext]_<<shellVars, spent>> PROVE ShellInv'
  OBVIOUS
<1>1. ASSUME NEW v \in Views, Navigate(v) PROVE ShellInv'
  BY <1>1, NavigateKeeps
<1>2. CASE SubmitsLogin \/ CancelsLogin
  BY <1>2, LoginMovesKeep
<1>3. ASSUME NEW s \in Sites, OpenSite(s) PROVE ShellInv'
  BY <1>3, OpenSiteKeeps
<1>4. CASE GoesBack
  BY <1>4, GoesBackKeeps
<1>5. CASE RefreshesSites \/ HandleLogout
  BY <1>5, ListMovesKeep
<1>6. CASE SubmissionAccepted \/ NewSubmission
  BY <1>6, SubmissionMovesKeep
<1>7. ASSUME NEW s \in Roles \cup {None}, SessionRestored(s) \/ LoginAnswered(s) PROVE ShellInv'
  BY <1>7, SessionRestoredKeeps, LoginAnsweredKeeps
<1>8. CASE LogoutAnswered
  BY <1>8, LogoutAnsweredKeeps
<1>9. CASE SitesArrive \/ SiteArrives \/ SiteFails
  BY <1>9, SitesArriveKeeps, SiteArrivesKeeps, SiteFailsKeeps
<1>10. ASSUME NEW ended \in BOOLEAN, SitesFail(ended) PROVE ShellInv'
  BY <1>10, SitesFailKeeps
<1>11. CASE UNCHANGED <<shellVars, spent>>
  BY <1>11 DEF shellVars, ShellInv, ShellTypeOK, ShellHolds, PatientHolds, Waits, Drawn
<1> QED
  BY <1>1, <1>2, <1>3, <1>4, <1>5, <1>6, <1>7, <1>8, <1>9, <1>10, <1>11 DEF ShellNext

\* The shell's screen, session, list and requests keep their types.
THEOREM ShellTypeCorrect == ShellSpec => []ShellTypeOK
<1>1. ShellInv => ShellTypeOK
  BY DEF ShellInv
<1> QED BY ShellStart, ShellStep, <1>1, PTL DEF ShellSpec

\* A user whose last move was made while nothing was under way ends on a
\* screen, however many sites and requests there are: one who does not move
\* in between has at most one request under way, and shows a screen from
\* which each of its answers leads to another.
THEOREM NoBlankScreenAlways == ShellSpec => []NoBlankScreen
<1>1. ShellInv => NoBlankScreen
  BY DEF ShellInv, PatientHolds, NoBlankScreen
<1> QED BY ShellStart, ShellStep, <1>1, PTL DEF ShellSpec


----------------------------------------------------------------------------
(* The submission form *)

FormSpec == FormInit /\ NothingSpent /\ [][FormNext]_<<formVars, spent>>

\* A form under way has a 시공종류; what was filed from it before was filed
\* by requests whose answers were lost, or by saves that failed.
FormInv ==
    /\ FormTypeOK
    /\ IsABag(spent)
    /\ post # None => form.type # None
    /\ filed <= Happened("reply") + Happened("call") + (IF post = "accepted" THEN 1 ELSE 0)
    /\ last # None => (last.order = None \/ OrderType[last.order] = last.type)


LEMMA SpendCounts ==
    ASSUME IsABag(spent), NEW k, Spend(k)
    PROVE  /\ IsABag(spent)' /\ Happened(k)' = Happened(k) + 1
           /\ \A j : j # k => Happened(j)' = Happened(j)
           /\ \A j : Happened(j) \in Nat /\ Happened(j)' \in Nat
<1>1. /\ \A j \in DOMAIN spent : spent[j] \in Nat /\ spent[j] > 0
      /\ spent = [j \in DOMAIN spent |-> spent[j]]
  BY DEF IsABag
<1>2. spent' = [j \in (DOMAIN spent \cup {k}) |->
                   (IF j \in DOMAIN spent THEN spent[j] ELSE 0) + (IF j = k THEN 1 ELSE 0)]
  BY DEF Spend, (+), SetToBag
<1>3. /\ DOMAIN spent' = DOMAIN spent \cup {k}
      /\ spent'[k] = (IF k \in DOMAIN spent THEN spent[k] ELSE 0) + 1
      /\ \A j \in DOMAIN spent \ {k} : spent'[j] = spent[j]
  BY <1>1, <1>2
<1>4. IsABag(spent)'
  BY <1>1, <1>2, <1>3 DEF IsABag
<1>5. Happened(k)' = Happened(k) + 1
  BY <1>3 DEF Happened, BagIn, BagToSet
<1>6. ASSUME NEW j PROVE /\ j # k => Happened(j)' = Happened(j)
                         /\ Happened(j) \in Nat /\ Happened(j)' \in Nat
  <2>1. Happened(j) \in Nat
    BY <1>1 DEF Happened, BagIn, BagToSet
  <2>2. CASE j = k
    BY <1>5, <2>1, <2>2
  <2>3. CASE j # k
    BY <1>3, <2>1, <2>3 DEF Happened, BagIn, BagToSet
  <2> QED BY <2>1, <2>2, <2>3
<1> QED BY <1>4, <1>5, <1>6

LEMMA HappenedIsNat == ASSUME IsABag(spent), NEW k PROVE Happened(k) \in Nat
<1>1. \A j \in DOMAIN spent : spent[j] \in Nat
  BY DEF IsABag
<1> QED BY <1>1 DEF Happened, BagIn, BagToSet

\* A change of the form that keeps it a form; the picker follows.
LEMMA FormBecomesKeeps ==
    ASSUME FormInv, NEW f \in Form, FormBecomes(f)
    PROVE  FormInv'
<1>1. /\ post = None /\ form' = f /\ PickerFollows(f)
      /\ UNCHANGED <<office, screen, enrolled, crew, store, post, filed, last, spent>>
  BY DEF FormBecomes
<1>2. list \subseteq FormOrders /\ asked \subseteq FormTypes /\ f.type \in FormTypes \cup {None}
  BY DEF FormInv, FormTypeOK, Form
<1>3. PickerShown(f) => f.type \in FormTypes
  BY <1>2 DEF PickerShown
<1>4. list' \subseteq FormOrders /\ asked' \subseteq FormTypes
  BY <1>1, <1>2, <1>3 DEF PickerFollows
<1>5. FormTypeOK'
  BY <1>1, <1>4 DEF FormInv, FormTypeOK
<1>6. Happened("reply")' = Happened("reply") /\ Happened("call")' = Happened("call")
  BY <1>1 DEF Happened
<1> QED BY <1>1, <1>5, <1>6 DEF FormInv

LEMMA ClearedIsAForm ==
    ASSUME NEW f \in Form
    PROVE  Cleared(f) \in Form
BY DEF Cleared, Form

LEMMA TypingKeeps ==
    ASSUME FormInv,
           \/ \E t \in FormTypes : ChooseType(t)
           \/ \E k \in Inputs : Fill(k)
           \/ \E o \in FormOrders : ChooseOrder(o)
           \/ \E p \in FormTechs : PickTechnician(p)
           \/ PickFiles \/ ClearOrder \/ EnterByHand \/ BackToList
    PROVE  FormInv'
<1>1. form \in Form
  BY DEF FormInv, FormTypeOK
<1>2. ASSUME NEW t \in FormTypes, ChooseType(t) PROVE FormInv'
  <2> DEFINE f == [form EXCEPT !.type = t, !.order = None, !.manual = FALSE,
                               !.filled = @ \ {"siteFields"}]
  <2>1. FormBecomes(f)
    BY <1>2 DEF ChooseType
  <2>2. f \in Form
    BY <1>1 DEF Form
  <2> HIDE DEF f
  <2> QED BY <2>1, <2>2, FormBecomesKeeps
<1>3. ASSUME NEW k \in Inputs, Fill(k) PROVE FormInv'
  <2> DEFINE f == [form EXCEPT !.filled = @ \cup {k}]
             g == [form EXCEPT !.filled = @ \ {k}]
  <2>1. FormBecomes(f) \/ FormBecomes(g)
    BY <1>3 DEF Fill
  <2>2. f \in Form /\ g \in Form
    BY <1>1 DEF Form
  <2> HIDE DEF f, g
  <2> QED BY <2>1, <2>2, FormBecomesKeeps
<1>4. ASSUME NEW o \in FormOrders, ChooseOrder(o) PROVE FormInv'
  <2> DEFINE f == [form EXCEPT !.order = o, !.manual = FALSE,
                               !.filled = (@ \ ManualInputs) \cup (OrderHas[o] \cap Inputs)]
  <2>1. FormBecomes(f)
    BY <1>4 DEF ChooseOrder
  <2>2. f \in Form
    BY <1>1 DEF Form
  <2> HIDE DEF f
  <2> QED BY <2>1, <2>2, FormBecomesKeeps
<1>5. ASSUME PickFiles PROVE FormInv'
  <2>1. PICK b \in BOOLEAN : FormBecomes([form EXCEPT !.files = b])
    BY <1>5 DEF PickFiles
  <2> DEFINE f == [form EXCEPT !.files = b]
  <2>2. f \in Form /\ FormBecomes(f)
    BY <1>1, <2>1 DEF Form
  <2> HIDE DEF f
  <2> QED BY <2>2, FormBecomesKeeps
<1>6. ASSUME ClearOrder PROVE FormInv'
  BY <1>1, <1>6, ClearedIsAForm, FormBecomesKeeps DEF ClearOrder
<1>7. ASSUME EnterByHand PROVE FormInv'
  <2> DEFINE f == [form EXCEPT !.manual = TRUE]
  <2>1. FormBecomes(Cleared(f))
    BY <1>7 DEF EnterByHand
  <2>2. f \in Form
    BY <1>1 DEF Form
  <2> HIDE DEF f
  <2> QED BY <2>1, <2>2, ClearedIsAForm, FormBecomesKeeps
<1>8. ASSUME BackToList PROVE FormInv'
  <2> DEFINE f == [form EXCEPT !.manual = FALSE]
  <2>1. FormBecomes(f) /\ f \in Form
    BY <1>1, <1>8 DEF BackToList, Form
  <2> HIDE DEF f
  <2> QED BY <2>1, FormBecomesKeeps
<1>9. ASSUME NEW p \in FormTechs, PickTechnician(p) PROVE FormInv'
  <2> DEFINE f == [form EXCEPT !.techs = @ \cup {p}]
             g == [form EXCEPT !.techs = @ \ {p}]
  <2>1. FormBecomes(f) \/ FormBecomes(g)
    BY <1>9 DEF PickTechnician
  <2>2. f \in Form /\ g \in Form
    BY <1>1 DEF Form
  <2> HIDE DEF f, g
  <2> QED BY <2>1, <2>2, FormBecomesKeeps
<1> QED BY <1>2, <1>3, <1>4, <1>5, <1>6, <1>7, <1>8, <1>9

LEMMA ReloadKeeps ==
    ASSUME FormInv, Reload \/ Answered202
    PROVE  FormInv'
<1>1. /\ form' = Blank /\ list' = {} /\ asked' = {} /\ filed' = 0
      /\ screen' \in {screen, office} /\ crew' \in {crew, enrolled} /\ post' = None
      /\ UNCHANGED <<office, enrolled, store, last, spent>>
  BY DEF Reload, Answered202
<1>2. Blank \in Form
  BY DEF Blank, Form
<1>3. FormTypeOK'
  BY <1>1, <1>2 DEF FormInv, FormTypeOK
<1>4. /\ Happened("reply")' = Happened("reply") /\ Happened("reply") \in Nat
      /\ Happened("call")' = Happened("call") /\ Happened("call") \in Nat
  BY <1>1, HappenedIsNat DEF Happened, FormInv
<1> QED BY <1>1, <1>3, <1>4 DEF FormInv

\* What the picker's answers and the office change is neither the form nor a
\* filing.
LEMMA MeanwhileKeeps ==
    ASSUME FormInv,
           \/ \E t \in FormTypes : PickerAnswered(t) \/ PickerFails(t) \/ OfficeChanges(t)
           \/ \E o \in FormOrders : OrderGoes(o)
           \/ \E p \in FormTechs : TechnicianLeaves(p)
    PROVE  FormInv'
<1>1. /\ UNCHANGED <<screen, crew, form, post, filed, last>>
      /\ spent' = spent \/ Spend("query") \/ Spend("office")
  BY DEF PickerAnswered, PickerFails, OfficeChanges, OrderGoes, TechnicianLeaves
<1>2. IsABag(spent)' /\ Happened("reply")' = Happened("reply") /\ Happened("call")' = Happened("call")
  BY <1>1, SpendCounts DEF FormInv, Happened
<1>3. FormTypeOK
  BY DEF FormInv
<1>4. /\ office' \in [FormTypes -> FormLayout \cup {None}] /\ store' \subseteq FormOrders
      /\ list' \subseteq FormOrders /\ asked' \subseteq FormTypes /\ enrolled' \subseteq FormTechs
  <2>1. ASSUME NEW t \in FormTypes, PickerAnswered(t) \/ PickerFails(t)
        PROVE  /\ office' = office /\ store' = store /\ asked' \subseteq asked /\ enrolled' = enrolled
               /\ list' = list \/ list' \subseteq store
    BY <2>1 DEF PickerAnswered, PickerFails
  <2>2. ASSUME NEW t \in FormTypes, OfficeChanges(t)
        PROVE  /\ \E l \in FormLayout \cup {None} : office' = [office EXCEPT ![t] = l]
               /\ UNCHANGED <<enrolled, store, list, asked>>
    BY <2>2, SubmissionFormAssumption DEF OfficeChanges
  <2>3. ASSUME NEW o \in FormOrders, OrderGoes(o)
        PROVE  store' \subseteq store /\ UNCHANGED <<office, enrolled, list, asked>>
    BY <2>3 DEF OrderGoes
  <2>4. ASSUME NEW p \in FormTechs, TechnicianLeaves(p)
        PROVE  enrolled' \subseteq enrolled /\ UNCHANGED <<office, store, list, asked>>
    BY <2>4 DEF TechnicianLeaves
  <2> QED BY <1>3, <2>1, <2>2, <2>3, <2>4 DEF FormTypeOK
<1>5. FormTypeOK'
  BY <1>1, <1>3, <1>4 DEF FormTypeOK
<1> QED BY <1>1, <1>2, <1>5 DEF FormInv

LEMMA SendingKeeps ==
    ASSUME FormInv, Submit \/ ServerTakes \/ ServerRefuses \/ ServerFails \/ AnsweredError \/ ReplyLost
    PROVE  FormInv'
<1>1. /\ FormTypeOK /\ IsABag(spent) /\ (post # None => form.type # None)
      /\ filed <= Happened("reply") + Happened("call") + (IF post = "accepted" THEN 1 ELSE 0)
      /\ last # None => (last.order = None \/ OrderType[last.order] = last.type)
      /\ filed \in Nat /\ form \in Form /\ Happened("reply") \in Nat /\ Happened("call") \in Nat
  BY HappenedIsNat DEF FormInv, FormTypeOK
<1>2. UNCHANGED <<office, screen, enrolled, crew, store, form, list, asked>>
  BY DEF Submit, ServerTakes, ServerRefuses, ServerFails, AnsweredError, ReplyLost
<1>3. CASE Submit
  <2>1. post = None /\ post' = "sent" /\ form.type # None /\ UNCHANGED <<filed, last, spent>>
    BY <1>3 DEF Submit, Ready, Validated
  <2>2. post # "accepted" \/ post = "accepted"
    OBVIOUS
  <2>3. Happened("reply")' = Happened("reply") /\ Happened("call")' = Happened("call")
    BY <2>1 DEF Happened
  <2>4. FormTypeOK'
    BY <1>1, <1>2, <2>1 DEF FormTypeOK
  <2>5. filed' <= Happened("reply")' + Happened("call")' + 0
    BY <1>1, <2>1, <2>3, SubmissionFormAssumption
  <2> QED BY <1>1, <1>2, <2>1, <2>4, <2>5 DEF FormInv
<1>4. CASE ServerTakes
  <2>1. /\ post = "sent" /\ post' = "accepted" /\ filed' = filed + 1
        /\ last' = [type |-> form.type, order |-> form.order] /\ spent' = spent
        /\ Fitting(form) /\ office[form.type] # None
    BY <1>4 DEF ServerTakes, Accepted, IsFiled
  <2>2. Happened("reply")' = Happened("reply") /\ Happened("call")' = Happened("call")
    BY <2>1 DEF Happened
  <2>3. form.type \in FormTypes /\ form.order \in FormOrders \cup {None}
    <3>1. post # None => form.type # None
      BY <1>1
    <3> QED BY <1>1, <2>1, <3>1, SubmissionFormAssumption DEF Form
  <2>4. last' \in [type : FormTypes, order : FormOrders \cup {None}]
        /\ (last'.order = None \/ OrderType[last'.order] = last'.type)
    BY <2>1, <2>3 DEF Fitting
  <2>5. FormTypeOK'
    BY <1>1, <1>2, <2>1, <2>4 DEF FormTypeOK
  <2>6. filed' <= Happened("reply")' + Happened("call")' + 1
    BY <1>1, <2>1, <2>2
  <2>7. post' # None => form'.type # None
    BY <1>1, <1>2, <2>1, SubmissionFormAssumption
  <2> QED BY <1>1, <1>2, <2>1, <2>4, <2>5, <2>6, <2>7 DEF FormInv
<1>5. CASE ServerRefuses \/ AnsweredError
  <2>1. post # "accepted" /\ post' \in {None, "refused"} /\ post # None /\ UNCHANGED <<filed, last, spent>>
    BY <1>1, <1>5, SubmissionFormAssumption DEF ServerRefuses, AnsweredError
  <2>2. Happened("reply")' = Happened("reply") /\ Happened("call")' = Happened("call")
    BY <2>1 DEF Happened
  <2>3. FormTypeOK'
    BY <1>1, <1>2, <2>1 DEF FormTypeOK
  <2> QED BY <1>1, <1>2, <2>1, <2>2, <2>3 DEF FormInv
<1>6. CASE ReplyLost
  <2>1. Spend("reply") /\ post' = None /\ UNCHANGED <<filed, last>>
    BY <1>6 DEF ReplyLost
  <2>2. IsABag(spent)' /\ Happened("reply")' = Happened("reply") + 1 /\ Happened("call")' = Happened("call")
    BY <1>1, <2>1, SpendCounts
  <2>3. FormTypeOK'
    BY <1>1, <1>2, <2>1 DEF FormTypeOK
  <2> QED BY <1>1, <1>2, <2>1, <2>2, <2>3 DEF FormInv
<1>7. CASE ServerFails
  <2>1. /\ post = "sent" /\ post' = "refused" /\ Spend("call")
        /\ \/ UNCHANGED <<filed, last>>
           \/ /\ filed' = filed + 1 /\ last' = [type |-> form.type, order |-> form.order]
              /\ Fitting(form)
    BY <1>7 DEF ServerFails, Accepted, IsFiled
  <2>2. IsABag(spent)' /\ Happened("call")' = Happened("call") + 1 /\ Happened("reply")' = Happened("reply")
    BY <1>1, <2>1, SpendCounts
  <2>3. form.type \in FormTypes /\ form.order \in FormOrders \cup {None}
    <3>1. post # None => form.type # None
      BY <1>1
    <3> QED BY <1>1, <2>1, <3>1, SubmissionFormAssumption DEF Form
  <2>4. /\ last' \in [type : FormTypes, order : FormOrders \cup {None}] \cup {None}
        /\ last' # None => (last'.order = None \/ OrderType[last'.order] = last'.type)
    <3>1. CASE last' = last
      BY <1>1, <3>1 DEF FormTypeOK
    <3>2. CASE last' = [type |-> form.type, order |-> form.order] /\ Fitting(form)
      BY <2>3, <3>2 DEF Fitting
    <3> QED BY <2>1, <3>1, <3>2
  <2>5. filed' \in Nat /\ filed' <= Happened("reply")' + Happened("call")'
    BY <1>1, <2>1, <2>2
  <2>6. FormTypeOK'
    BY <1>1, <1>2, <2>1, <2>4, <2>5 DEF FormTypeOK
  <2>7. (post' # None => form'.type # None) /\ post' # "accepted" /\ form.type # None
    BY <1>1, <1>2, <2>1, SubmissionFormAssumption
  <2> QED BY <1>1, <1>2, <2>2, <2>4, <2>5, <2>6, <2>7 DEF FormInv
<1> QED BY <1>3, <1>4, <1>5, <1>6, <1>7

LEMMA FormStart == FormInit /\ NothingSpent => FormInv
<1> SUFFICES ASSUME FormInit, NothingSpent PROVE FormInv
  OBVIOUS
<1>1. IsABag(spent) /\ Happened("reply") = 0 /\ Happened("call") = 0
  BY DEF NothingSpent, EmptyBag, SetToBag, IsABag, Happened, BagIn, BagToSet
<1>2. Blank \in Form
  BY DEF Blank, Form
<1>3. /\ office \in [FormTypes -> UNION {Layouts[t] : t \in FormTypes}]
      /\ screen = office /\ enrolled = FormTechs /\ crew = enrolled /\ store = FormOrders /\ form = Blank
      /\ list = {} /\ asked = {} /\ post = None /\ filed = 0 /\ last = None
  BY DEF FormInit
<1>4. office \in [FormTypes -> FormLayout \cup {None}]
  BY <1>3, SubmissionFormAssumption
<1>5. FormTypeOK
  BY <1>2, <1>3, <1>4 DEF FormTypeOK
<1> QED BY <1>1, <1>3, <1>5 DEF FormInv

LEMMA FormStep == FormInv /\ [FormNext]_<<formVars, spent>> => FormInv'
<1> SUFFICES ASSUME FormInv, [FormNext]_<<formVars, spent>> PROVE FormInv'
  OBVIOUS
<1>1. CASE UNCHANGED <<formVars, spent>>
  BY <1>1 DEF formVars, FormInv, FormTypeOK, Happened
<1>2. CASE FormNext
  BY <1>2, TypingKeeps, ReloadKeeps, MeanwhileKeeps, SendingKeeps DEF FormNext
<1> QED BY <1>1, <1>2

\* The form, the picker's list and the two copies of the layouts keep their
\* types.
THEOREM FormTypeCorrect == FormSpec => []FormTypeOK
<1>1. FormInv => FormTypeOK
  BY DEF FormInv
<1> QED BY FormStart, FormStep, <1>1, PTL DEF FormSpec

\* One filling of the form files at most one submission more than answers
\* were lost and calls of the server failed, and never one that names an order of another 시공종류, for any
\* layouts, orders and settings: every filing but the last had its answer
\* lost, since any other answer ends the filling.
THEOREM FilingsAreMeantAlways == FormSpec => []FilingsAreMeant
<1>1. FormInv => FilingsAreMeant
  <2> SUFFICES ASSUME FormInv PROVE FilingsAreMeant
    OBVIOUS
  <2>1. Happened("reply") \in Nat /\ Happened("call") \in Nat /\ filed \in Nat
    BY HappenedIsNat DEF FormInv, FormTypeOK
  <2> QED BY <2>1 DEF FormInv, FilingsAreMeant
<1> QED BY FormStart, FormStep, <1>1, PTL DEF FormSpec


\* What the technician chose is on the screen, and a form that was sent had
\* passed the screen's check.
ScreenFits ==
    /\ form.type # None => screen[form.type] # None
    /\ form.order # None => form.type # None /\ screen[form.type].mode = "order"
    /\ post = "sent" => Validated(form)

LEMMA ScreenStart == FormInit => ScreenFits
BY SubmissionFormAssumption DEF FormInit, ScreenFits, Blank

LEMMA ScreenStep == FormInv /\ ScreenFits /\ [FormNext]_<<formVars, spent>> => ScreenFits'
<1> SUFFICES ASSUME FormInv, ScreenFits, [FormNext]_<<formVars, spent>> PROVE ScreenFits'
  OBVIOUS
<1>1. form \in Form /\ None \notin {"sent", "accepted", "refused"}
  BY SubmissionFormAssumption DEF FormInv, FormTypeOK
<1>2. ASSUME NEW f, FormBecomes(f), f.type # None => screen[f.type] # None,
             f.order # None => f.type # None /\ screen[f.type].mode = "order"
      PROVE  ScreenFits'
  BY <1>1, <1>2 DEF FormBecomes, ScreenFits
<1>3. ASSUME NEW f, FormBecomes(f), f.type = form.type, f.order = form.order \/ f.order = None
      PROVE  ScreenFits'
  BY <1>2, <1>3 DEF ScreenFits
<1>4. ASSUME NEW t \in FormTypes, ChooseType(t) PROVE ScreenFits'
  <2> DEFINE f == [form EXCEPT !.type = t, !.order = None, !.manual = FALSE,
                               !.filled = @ \ {"siteFields"}]
  <2>1. FormBecomes(f) /\ screen[t] # None
    BY <1>4 DEF ChooseType
  <2>2. f.type = t /\ f.order = None
    BY <1>1 DEF Form
  <2> HIDE DEF f
  <2> QED BY <1>2, <2>1, <2>2
<1>5. ASSUME NEW o \in FormOrders, ChooseOrder(o) PROVE ScreenFits'
  <2> DEFINE f == [form EXCEPT !.order = o, !.manual = FALSE,
                               !.filled = (@ \ ManualInputs) \cup (OrderHas[o] \cap Inputs)]
  <2>1. FormBecomes(f) /\ form.type # None /\ screen[form.type].mode = "order"
    BY <1>5 DEF ChooseOrder, PickerShown
  <2>2. f.type = form.type
    BY <1>1 DEF Form
  <2> HIDE DEF f
  <2> QED BY <1>2, <2>1, <2>2 DEF ScreenFits
<1>6. ASSUME NEW k \in Inputs, Fill(k) PROVE ScreenFits'
  <2> DEFINE f == [form EXCEPT !.filled = @ \cup {k}]
             g == [form EXCEPT !.filled = @ \ {k}]
  <2>1. FormBecomes(f) \/ FormBecomes(g)
    BY <1>6 DEF Fill
  <2>2. f.type = form.type /\ f.order = form.order /\ g.type = form.type /\ g.order = form.order
    BY <1>1 DEF Form
  <2> HIDE DEF f, g
  <2> QED BY <1>3, <2>1, <2>2
<1>7. ASSUME PickFiles PROVE ScreenFits'
  <2>1. PICK b \in BOOLEAN : FormBecomes([form EXCEPT !.files = b])
    BY <1>7 DEF PickFiles
  <2> DEFINE f == [form EXCEPT !.files = b]
  <2>2. FormBecomes(f) /\ f.type = form.type /\ f.order = form.order
    BY <1>1, <2>1 DEF Form
  <2> HIDE DEF f
  <2> QED BY <1>3, <2>2
<1>8. ASSUME ClearOrder PROVE ScreenFits'
  <2>1. FormBecomes(Cleared(form)) /\ Cleared(form).type = form.type /\ Cleared(form).order = None
    BY <1>1, <1>8 DEF ClearOrder, Cleared, Form
  <2> QED BY <1>3, <2>1
<1>9. ASSUME EnterByHand PROVE ScreenFits'
  <2> DEFINE f == [form EXCEPT !.manual = TRUE]
  <2>1. FormBecomes(Cleared(f)) /\ f \in Form /\ f.type = form.type
    BY <1>1, <1>9 DEF EnterByHand, Form
  <2> HIDE DEF f
  <2>2. Cleared(f).type = form.type /\ Cleared(f).order = None
    BY <2>1 DEF Cleared, Form
  <2> QED BY <1>3, <2>1, <2>2
<1>10. ASSUME BackToList PROVE ScreenFits'
  <2> DEFINE f == [form EXCEPT !.manual = FALSE]
  <2>1. FormBecomes(f) /\ f.type = form.type /\ f.order = form.order
    BY <1>1, <1>10 DEF BackToList, Form
  <2> HIDE DEF f
  <2> QED BY <1>3, <2>1
<1>11. ASSUME Reload \/ Answered202 PROVE ScreenFits'
  <2>1. form' = Blank /\ post' = None
    BY <1>11 DEF Reload, Answered202
  <2>2. Blank.type = None /\ Blank.order = None
    BY DEF Blank
  <2> QED BY <1>1, <2>1, <2>2 DEF ScreenFits
<1>12. ASSUME UNCHANGED <<screen, form>>, post' # "sent" \/ post' = post \/ Validated(form)
       PROVE  ScreenFits'
  BY <1>12 DEF ScreenFits, Validated, ManualOnly, Entered
<1>13. ASSUME NEW t \in FormTypes, PickerAnswered(t) \/ PickerFails(t) \/ OfficeChanges(t) PROVE ScreenFits'
  <2>1. UNCHANGED <<screen, form, post>>
    BY <1>13 DEF PickerAnswered, PickerFails, OfficeChanges
  <2> QED BY <1>12, <2>1
<1>14. ASSUME NEW o \in FormOrders, OrderGoes(o) PROVE ScreenFits'
  BY <1>12, <1>14 DEF OrderGoes
<1>15. ASSUME Submit \/ ServerTakes \/ ServerRefuses \/ ServerFails \/ AnsweredError \/ ReplyLost PROVE ScreenFits'
  <2>1. UNCHANGED <<screen, form>> /\ (post' # "sent" \/ Validated(form))
    BY <1>1, <1>15 DEF Submit, ServerTakes, ServerRefuses, ServerFails, AnsweredError, ReplyLost
  <2> QED BY <1>12, <2>1
<1>17. ASSUME NEW p \in FormTechs, PickTechnician(p) PROVE ScreenFits'
  <2> DEFINE f == [form EXCEPT !.techs = @ \cup {p}]
             g == [form EXCEPT !.techs = @ \ {p}]
  <2>1. FormBecomes(f) \/ FormBecomes(g)
    BY <1>17 DEF PickTechnician
  <2>2. /\ f.type = form.type /\ f.order = form.order
        /\ g.type = form.type /\ g.order = form.order
    BY <1>1 DEF Form
  <2> HIDE DEF f, g
  <2> QED BY <1>3, <2>1, <2>2
<1>18. ASSUME NEW p \in FormTechs, TechnicianLeaves(p) PROVE ScreenFits'
  BY <1>12, <1>18 DEF TechnicianLeaves
<1>16. CASE UNCHANGED <<formVars, spent>>
  BY <1>12, <1>16 DEF formVars
<1> QED
  BY <1>4, <1>5, <1>6, <1>7, <1>8, <1>9, <1>10, <1>11, <1>13, <1>14, <1>15, <1>16, <1>17, <1>18 DEF FormNext

\* What the server's check asks beyond the screen's.
LEMMA ScreenAndServerAgree ==
    ASSUME FormInv, ScreenFits, post = "sent", form.files, screen[form.type] = office[form.type],
           ~( /\ IsRequired(office[form.type], "technicians")
              /\ form.techs # {} /\ form.techs \cap enrolled = {} ),
           form.order = None \/ ( /\ form.order \in store
                                  /\ OrderType[form.order] = form.type
                                  /\ {"address", "constructionDate"} \subseteq OrderHas[form.order] )
    PROVE  Accepted(form)
<1> DEFINE l == office[form.type]
<1>1. Validated(form) /\ form.type # None
  BY DEF ScreenFits, Validated
<1>2. l # None /\ (form.order # None => l.mode = "order")
  BY <1>1 DEF ScreenFits
<1>3. Fitting(form)
  BY <1>2 DEF Fitting
<1>4. l.site => "siteFields" \in form.filled
  BY <1>1 DEF Validated
<1>5. ASSUME NEW k \in Inputs \ {"siteFields"}, IsRequired(l, k)
      PROVE  k \in Known(form) \/ (k = "customerName" /\ form.order # None)
  <2> DEFINE own == form.filled \cup (IF form.techs \cap enrolled = {} THEN {} ELSE {"technicians"})
  <2>1. k \in own \/ (k \in ManualInputs /\ ~ManualOnly(form))
    <3>1. k \in Entered(form) \/ (k \in ManualInputs /\ ~ManualOnly(form))
      BY <1>1, <1>5 DEF Validated
    <3>2. k \in Entered(form) => k \in own
      BY <1>5 DEF Entered
    <3> QED BY <3>1, <3>2
  <2>2. form.order # None \/ ManualOnly(form)
    BY <1>1 DEF Validated
  <2>3. CASE form.order = None
    BY <2>1, <2>2, <2>3 DEF Known
  <2>4. CASE form.order # None
    <3>1. Known(form) = (own \ {"address"}) \cup OrderHas[form.order]
      BY <2>4 DEF Known
    <3>2. "address" \in OrderHas[form.order] /\ "constructionDate" \in OrderHas[form.order]
      BY <2>4
    <3> QED BY <2>1, <2>4, <3>1, <3>2 DEF ManualInputs
  <2> QED BY <2>3, <2>4
<1> QED BY <1>2, <1>3, <1>4, <1>5 DEF Accepted

\* Screen and server judge a form alike, for any layouts and orders: a form
\* that passed the screen's check is refused only for one of the reasons the
\* property names.
THEOREM ValidFormsAreAcceptedAlways == FormSpec => ValidFormsAreAccepted
<1> DEFINE Reasons == (post = "sent" /\ post' = "refused") =>
                        \/ ~form.files
                        \/ screen[form.type] # office[form.type]
                        \/ /\ IsRequired(office[form.type], "technicians")
                           /\ form.techs # {} /\ form.techs \cap enrolled = {}
                        \/ /\ form.order # None
                           /\ \/ form.order \notin store
                              \/ OrderType[form.order] # form.type
                              \/ ~({"address", "constructionDate"} \subseteq OrderHas[form.order])
                        \/ spent' # spent
<1>1. FormInv /\ ScreenFits /\ [FormNext]_<<formVars, spent>> => [Reasons]_formVars
  <2> SUFFICES ASSUME FormInv, ScreenFits, [FormNext]_<<formVars, spent>>, post = "sent", post' = "refused"
               PROVE  Reasons
    OBVIOUS
  <2>1. None \notin {"sent", "accepted", "refused"}
    BY SubmissionFormAssumption
  <2>2. ASSUME post' = post \/ post' # "refused" PROVE FALSE
    BY <2>2
  <2>3. ServerRefuses \/ ServerFails
    <3>1. CASE UNCHANGED <<formVars, spent>>
      BY <2>2, <3>1 DEF formVars
    <3>2. ASSUME NEW f, FormBecomes(f) PROVE FALSE
      BY <2>2, <3>2 DEF FormBecomes
    <3>3. ASSUME NEW t \in FormTypes, ChooseType(t) \/ PickerAnswered(t) \/ PickerFails(t) \/ OfficeChanges(t)
          PROVE  FALSE
      BY <2>2, <3>2, <3>3 DEF ChooseType, PickerAnswered, PickerFails, OfficeChanges
    <3>4. ASSUME NEW k \in Inputs, Fill(k) PROVE FALSE
      BY <3>2, <3>4 DEF Fill
    <3>5. ASSUME NEW o \in FormOrders, ChooseOrder(o) \/ OrderGoes(o) PROVE FALSE
      BY <2>2, <3>2, <3>5 DEF ChooseOrder, OrderGoes
    <3>6. ASSUME PickFiles \/ ClearOrder \/ EnterByHand \/ BackToList PROVE FALSE
      BY <3>2, <3>6 DEF PickFiles, ClearOrder, EnterByHand, BackToList
    <3>7. ASSUME Reload \/ Answered202 \/ Submit \/ ServerTakes \/ AnsweredError \/ ReplyLost PROVE FALSE
      BY <2>1, <2>2, <3>7 DEF Reload, Answered202, Submit, ServerTakes, AnsweredError, ReplyLost
    <3>8. ASSUME NEW p \in FormTechs, PickTechnician(p) \/ TechnicianLeaves(p) PROVE FALSE
      BY <2>2, <3>2, <3>8 DEF PickTechnician, TechnicianLeaves
    <3> QED BY <3>1, <3>3, <3>4, <3>5, <3>6, <3>7, <3>8 DEF FormNext
  <2>4. CASE ServerRefuses
    <3>1. ~Accepted(form) \/ screen[form.type] # office[form.type]
      BY <2>4 DEF ServerRefuses, ChoiceGone
    <3> QED BY <3>1, ScreenAndServerAgree
  <2>5. CASE ServerFails
    <3>1. Happened("call")' = Happened("call") + 1 /\ Happened("call") \in Nat
      BY <2>5, SpendCounts DEF ServerFails, FormInv
    <3>2. spent' # spent
      BY <3>1 DEF Happened
    <3> QED BY <3>2
  <2> QED BY <2>3, <2>4, <2>5
<1> QED BY FormStart, FormStep, ScreenStart, ScreenStep, <1>1, PTL DEF FormSpec, ValidFormsAreAccepted
=============================================================================
