----------------------------- MODULE Orders_proofs -----------------------------
(***************************************************************************)
(* Theorems about WorkOrders, for any number of keys, sheets, tabs, values *)
(* and identities and any assignment of keys to sheets; about SiteNumbers, *)
(* for any number of submissions, series and probes; and about OrderSheet  *)
(* and OrderReview, for any texts, whatever they are taken for, sheets of  *)
(* any size and any changes people make to them; all for any budget.       *)
(***************************************************************************)
EXTENDS WorkOrders, SiteNumbers, OrderReview, TLAPS, FiniteSetTheorems, WellFoundedInduction

----------------------------------------------------------------------------
(* Orders: definitions *)

Saves(p) == imports[p].phase = "save"
Busy(e)  == edits[e].op # "none"

\* An order read from a sheet belongs to the sheet its key is on.
LinkFits(o) == o.source = "GOOGLE_SHEET" => o.link = LinkOf[o.key]

\* What an import under way looks like in each phase.
ImportFits(p, w) ==
    /\ w.phase = "idle" => w = IdleImport
    /\ IF w.phase = "save"
       THEN /\ w.key \in OrderKeys /\ w.drafts[w.key] \in RowValues
            /\ w.id # None => /\ w.id \in OrderIds /\ w.copy \in Orders
                              /\ w.copy.key = w.key /\ LinkFits(w.copy)
                              /\ w.copy.status # "SUBMITTED"
       ELSE w.id = None
    /\ w.phase # "remove" => w.doomed = {}
    /\ \A k \in OrderKeys : p # "file" /\ w.drafts[k] # None => w.link = LinkOf[k]
    /\ IF p = "file" THEN w.phase # "remove" ELSE w.phase # "idle" => w.link \in SheetLinks

EditFits(e, w) ==
    IF w.op # "none" THEN /\ w.id \in OrderIds /\ w.copy \in Orders /\ LinkFits(w.copy)
                          /\ e = "submission" => w.op = "submit"
                     ELSE w = IdleEdit

\* Actor a is about to save an order under key k.
Holds(a, k) == IF a \in Editors THEN Busy(a) /\ edits[a].copy.key = k
                                ELSE Saves(a) /\ imports[a].key = k

\* Who has deleted a row has the order it was.
MoversFit ==
    \A a \in moving : IF a \in Editors THEN Busy(a) ELSE Saves(a) /\ imports[a].id # None

HoldersFit ==
    /\ \A p \in Importers : ImportFits(p, imports[p])
    /\ \A e \in Editors : EditFits(e, edits[e])
    /\ \A i \in OrderIds : orders[i] # None => LinkFits(orders[i])

\* The keys under which anybody knows identity i.
KeysBy(i) ==
    {orders[j].key : j \in {i} \cap Listed}
    \cup {imports[p].key : p \in {q \in Importers : Saves(q) /\ imports[q].id = i}}
    \cup {edits[e].copy.key : e \in {f \in Editors : Busy(f) /\ edits[f].id = i}}

IdsHaveOneKey == \A i \in OrderIds : \A k, j \in KeysBy(i) : k = j

\* Nothing has been passed over and no link was changed so far.
AllRead == Happened("tab") = 0 /\ Happened("link") = 0

\* A key of its sheet that a complete sync has not seen has been off its sheet.
UnseenFit(w) ==
    w.phase # "idle" /\ ~w.failed
    => \A k \in OrderKeys : LinkOf[k] = w.link /\ w.drafts[k] = None => k \in gone

\* While all is read, what a sync is about to delete is known under such keys.
UnseenAreGone ==
    /\ \A k \in OrderKeys : sheet[k] = None => k \in gone
    /\ AllRead =>
        /\ links = SheetLinks
        /\ \A p \in Importers \ {"file"} :
              /\ UnseenFit(imports[p])
              /\ \A i \in imports[p].doomed : KeysBy(i) \subseteq gone

\* Who holds an answer about key k has the one the store would give, or would
\* have given before the holder took the order out.
ImportAnswers(w, out, k) ==
    /\ w.phase = "save" /\ w.key = k
       => IF w.id = None \/ out THEN WithKey(k) = {} ELSE orders[w.id] = w.copy
    /\ \A i \in w.doomed : i \in WithKey(k) => orders[i].status # "SUBMITTED"

EditAnswers(w, out, k) ==
    w.op # "none" /\ w.copy.key = k => IF out THEN WithKey(k) = {} ELSE orders[w.id] = w.copy

AnswersHold(k) ==
    /\ \A p \in Importers : ImportAnswers(imports[p], p \in moving, k)
    /\ \A e \in Editors : EditAnswers(edits[e], e \in moving, k)
    /\ \A i, j \in WithKey(k) : i = j

\* An order of key k is taken out by one actor, and nobody is to delete it.
MoverAlone(k) ==
    \A a \in moving : Holds(a, k) =>
        /\ \A b \in moving : Holds(b, k) => b = a
        /\ \A p \in Importers : CarriedId(a) \notin imports[p].doomed

\* A submission changes no day: it moves an order only after another writer did.
SubmissionsCross == "submission" \in moving => edits["submission"].copy.key \in crossed

\* The inductive invariant: whether a write keeps the orders apart and undoes
\* nothing depends on what its writer read, under which identity and key.
OrdersInv ==
    /\ OrdersTypeOK /\ IsABag(spent) /\ HoldersFit /\ MoversFit
    /\ IdsHaveOneKey /\ UnseenAreGone /\ SubmissionsCross
    /\ \A k \in OrderKeys \ crossed : AnswersHold(k) /\ MoverAlone(k)

----------------------------------------------------------------------------
(* Counting rare events *)

LEMMA SpendCounts ==
    ASSUME IsABag(spent), NEW k, Spend(k)
    PROVE  /\ IsABag(spent)' /\ Happened(k)' > 0
           /\ \A j : j # k => Happened(j)' = Happened(j)
           /\ \A j : Happened(j) \in Nat /\ Happened(j)' \in Nat
           /\ \A j : Happened(j)' = 0 => Happened(j) = 0
<1>1. /\ \A j \in DOMAIN spent : spent[j] \in Nat /\ spent[j] > 0
      /\ spent = [j \in DOMAIN spent |-> spent[j]]
  BY DEF IsABag
<1>2. spent' = [j \in (DOMAIN spent \cup {k}) |->
                   (IF j \in DOMAIN spent THEN spent[j] ELSE 0) + (IF j = k THEN 1 ELSE 0)]
  BY DEF Spend, (+), SetToBag
<1>3. /\ DOMAIN spent' = DOMAIN spent \cup {k}
      /\ spent'[k] > 0 /\ spent'[k] \in Nat
      /\ \A j \in DOMAIN spent \ {k} : spent'[j] = spent[j]
  BY <1>1, <1>2
<1>4. IsABag(spent)'
  BY <1>1, <1>2, <1>3 DEF IsABag
<1>5. Happened(k)' > 0
  BY <1>3 DEF Happened, BagIn, BagToSet
<1>6. ASSUME NEW j PROVE /\ j # k => Happened(j)' = Happened(j)
                         /\ Happened(j) \in Nat /\ Happened(j)' \in Nat
                         /\ Happened(j)' = 0 => Happened(j) = 0
  <2>1. Happened(j) \in Nat
    BY <1>1 DEF Happened, BagIn, BagToSet
  <2>2. CASE j = k
    BY <1>3, <1>5, <2>1, <2>2 DEF Happened, BagIn, BagToSet
  <2>3. CASE j # k
    BY <1>3, <2>1, <2>3 DEF Happened, BagIn, BagToSet
  <2> QED BY <2>1, <2>2, <2>3
<1> QED BY <1>4, <1>5, <1>6

\* The types of the orders, imports and edits together say what a step made.
LEMMA ImportType == IdleImport \in Import /\ \A p \in Importers : ImportFits(p, IdleImport)
BY DEF IdleImport, Import, Rows, ImportFits

----------------------------------------------------------------------------
(* Types, and what every holder is like *)

LEMMA OrdersInvInit == OrdersInit /\ NothingSpent => OrdersInv
<1> SUFFICES ASSUME OrdersInit, NothingSpent PROVE OrdersInv
  OBVIOUS
<1>1. IsABag(spent) /\ Happened("tab") = 0 /\ Happened("link") = 0
  BY DEF NothingSpent, EmptyBag, SetToBag, IsABag, Happened, BagIn, BagToSet
<1>2. OrdersTypeOK
  BY ImportType DEF OrdersInit, OrdersTypeOK, Rows, IdleEdit, Edit
<1>3. HoldersFit
  BY ImportType DEF OrdersInit, HoldersFit, EditFits, IdleEdit
<1>4. /\ \A p \in Importers : imports[p] = IdleImport
      /\ \A e \in Editors : ~Busy(e)
      /\ \A k \in OrderKeys : WithKey(k) = {}
  BY DEF OrdersInit, Busy, IdleEdit, WithKey, Listed
<1>5. IdsHaveOneKey
  BY <1>4 DEF IdsHaveOneKey, KeysBy, OrdersInit, Listed, Saves, IdleImport
<1>6. UnseenAreGone
  BY <1>4 DEF UnseenAreGone, UnseenFit, OrdersInit, IdleImport
<1>7. \A k \in OrderKeys : AnswersHold(k)
  BY <1>4 DEF AnswersHold, ImportAnswers, EditAnswers, Busy, IdleImport
<1>8. MoversFit /\ SubmissionsCross /\ \A k \in OrderKeys : MoverAlone(k)
  BY DEF OrdersInit, MoversFit, SubmissionsCross, MoverAlone
<1> QED BY <1>1, <1>2, <1>3, <1>5, <1>6, <1>7, <1>8 DEF OrdersInv

\* A row as it was read by p, merged into an order or made into one.
LEMMA RowTypes ==
    ASSUME OrdersTypeOK, HoldersFit, NEW p \in Importers, Saves(p)
    PROVE  /\ NewOrder(p) \in Orders /\ LinkFits(NewOrder(p))
           /\ NewOrder(p).key = imports[p].key
           /\ imports[p].id # None =>
                 LET new == Merged(p, imports[p].drafts[imports[p].key], imports[p].copy) IN
                 /\ new \in Orders /\ LinkFits(new) /\ new.key = imports[p].key
                 /\ new.edited = imports[p].copy.edited
                 /\ imports[p].copy.edited /\ p # "file" => new.value = imports[p].copy.value
<1> DEFINE w == imports[p]
<1>1. /\ w \in Import /\ ImportFits(p, w) /\ w.phase = "save"
  BY DEF OrdersTypeOK, HoldersFit, Saves
<1>2. /\ w.key \in OrderKeys /\ w.drafts[w.key] \in RowValues /\ w.link \in SheetLinks \cup {None}
      /\ None \notin RowValues \cup SheetLinks
      /\ p # "file" => w.link = LinkOf[w.key]
      /\ LinkOf[w.key] \in SheetLinks
  BY <1>1, WorkOrdersAssumption DEF ImportFits, Import
<1>3. /\ NewOrder(p) \in Orders /\ LinkFits(NewOrder(p)) /\ NewOrder(p).key = w.key
  BY <1>2 DEF NewOrder, Orders, LinkFits
<1>4. ASSUME w.id # None
      PROVE  LET new == Merged(p, w.drafts[w.key], w.copy) IN
                 /\ new \in Orders /\ LinkFits(new) /\ new.key = w.key
                 /\ new.edited = w.copy.edited
                 /\ w.copy.edited /\ p # "file" => new.value = w.copy.value
  <2>1. w.copy \in Orders /\ w.copy.key = w.key /\ LinkFits(w.copy)
    BY <1>1, <1>4 DEF ImportFits
  <2> DEFINE row == w.drafts[w.key]
             new == Merged(p, row, w.copy)
  <2>2. new = [w.copy EXCEPT !.value = IF w.copy.edited /\ p # "file" THEN w.copy.value ELSE row,
                             !.link = IF w.copy.link # None THEN w.copy.link ELSE w.link]
    BY <2>1 DEF Merged, Orders
  <2>3. new \in Orders
    BY ZenonT(40), <1>2, <2>1, <2>2 DEF Orders
  <2>4. /\ new.key = w.copy.key /\ new.source = w.copy.source /\ new.edited = w.copy.edited
        /\ w.copy.link # None => new.link = w.copy.link
        /\ w.copy.edited /\ p # "file" => new.value = w.copy.value
    BY <2>1, <2>2 DEF Orders
  <2>5. LinkFits(new)
    BY <1>2, <2>1, <2>4 DEF LinkFits
  <2> QED BY <2>1, <2>3, <2>4, <2>5
<1> QED BY <1>3, <1>4

\* What an editor makes of its copy.
LEMMA WrittenTypes ==
    ASSUME OrdersTypeOK, HoldersFit, NEW e \in Editors, Busy(e)
    PROVE  LET new == Written(edits[e].op, edits[e].copy) IN
           /\ edits[e].op = "remove" => new = None
           /\ edits[e].op # "remove" =>
                /\ new \in Orders /\ LinkFits(new) /\ new.key = edits[e].copy.key
                /\ edits[e].op # "update" => new.value = edits[e].copy.value
           /\ edits[e].op = "submit" => new = [edits[e].copy EXCEPT !.status = "SUBMITTED"]
<1> DEFINE op == edits[e].op
           copy == edits[e].copy
<1>1. op \in OfficeOps \cup {"submit"} /\ copy \in Orders /\ LinkFits(copy)
  BY DEF OrdersTypeOK, HoldersFit, EditFits, Edit, Busy
<1>2. CASE op = "update"
  <2>1. Written(op, copy) = [copy EXCEPT !.value = HandValue, !.edited = copy.edited \/ copy.value # HandValue]
    BY <1>1, <1>2 DEF Written, Orders
  <2>2. Written(op, copy) \in Orders
    BY <1>1, <2>1 DEF Orders
  <2> QED BY <1>1, <1>2, <2>1, <2>2 DEF LinkFits, Orders
<1>3. CASE op \in {"reopen", "cancel", "close", "submit"}
  <2>1. PICK s \in {"OPEN", "CANCELLED", "SUBMITTED"} :
           Written(op, copy) = [copy EXCEPT !.status = s] /\ (op = "submit" => s = "SUBMITTED")
    BY <1>3 DEF Written
  <2>2. Written(op, copy) \in Orders
    BY <1>1, <2>1 DEF Orders
  <2> QED BY <1>1, <1>3, <2>1, <2>2 DEF LinkFits, Orders
<1>4. CASE op = "remove"
  BY <1>4 DEF Written
<1> QED BY <1>1, <1>2, <1>3, <1>4 DEF OfficeOps

\* A save that finds the row of another day deletes it.
LEMMA MoveSays ==
    ASSUME OrdersTypeOK, HoldersFit, NEW a,
           (a \in Importers /\ RowMoves(a)) \/ (a \in Editors /\ WriteMoves(a))
    PROVE  \E i \in OrderIds, k \in OrderKeys :
               /\ TakeOut(a, i, k) /\ Holds(a, k) /\ CarriedId(a) = i /\ orders[i] # None /\ a \notin moving
               /\ a \in Editors \/ imports[a].id # None
               /\ UNCHANGED <<sheet, gone, linkState, imports, edits, spent>>
<1>1. CASE a \in Importers /\ RowMoves(a)
  <2>1. a \notin Editors
    BY <1>1 DEF Importers, Editors
  <2>2. /\ TakeOut(a, imports[a].id, imports[a].key) /\ imports[a].id # None /\ imports[a].phase = "save"
        /\ orders[imports[a].id] # None /\ a \notin moving
        /\ UNCHANGED <<sheet, gone, linkState, imports, edits, spent>>
    BY <1>1 DEF RowMoves, Displaced
  <2>3. imports[a].id \in OrderIds /\ imports[a].key \in OrderKeys
    BY <1>1, <2>2 DEF HoldersFit, ImportFits
  <2> QED BY <2>1, <2>2, <2>3 DEF Holds, Saves, CarriedId
<1>2. CASE a \in Editors /\ WriteMoves(a)
  <2>1. /\ TakeOut(a, edits[a].id, edits[a].copy.key) /\ edits[a].op # "none"
        /\ orders[edits[a].id] # None /\ a \notin moving
        /\ UNCHANGED <<sheet, gone, linkState, imports, edits, spent>>
    BY <1>2 DEF WriteMoves, Displaced
  <2>2. edits[a].id \in OrderIds /\ edits[a].copy.key \in OrderKeys
    BY <1>2, <2>1 DEF HoldersFit, EditFits, Orders
  <2> QED BY <1>2, <2>1, <2>2 DEF Holds, Busy, CarriedId
<1> QED BY <1>1, <1>2

\* Who goes on moving an order goes on with the same one; nobody joins but by
\* deleting a row.
LEMMA MoversStay ==
    ASSUME OrdersTypeOK, HoldersFit, MoversFit, [OrdersNext]_<<ordersVars, spent>>
    PROVE  /\ \A a \in moving' : /\ a \in Editors => edits'[a] = edits[a]
                                 /\ a \in Importers => imports'[a] = imports[a]
           /\ \/ moving' \subseteq moving
              \/ \E a : (a \in Importers /\ RowMoves(a)) \/ (a \in Editors /\ WriteMoves(a))
<1> DEFINE Same == \A a \in moving' : /\ a \in Editors => edits'[a] = edits[a]
                                      /\ a \in Importers => imports'[a] = imports[a]
<1>0. /\ imports \in [Importers -> Import] /\ edits \in [Editors -> Edit]
      /\ \A a \in Importers : a \notin Editors
      /\ \A a \in moving : a \in Editors => edits[a].op # "none"
      /\ \A a \in moving : a \in Importers => imports[a].phase = "save"
  BY DEF OrdersTypeOK, MoversFit, Busy, Saves, Importers, Editors
<1>1. ASSUME NEW p \in Importers, NEW w, Becomes(p, w), UNCHANGED edits, moving' \subseteq moving,
             p \notin moving'
      PROVE  Same /\ moving' \subseteq moving
  BY <1>0, <1>1 DEF Becomes
<1>2. ASSUME NEW p \in Importers, NEW w, Becomes(p, w), UNCHANGED <<edits, moving>>, imports[p].phase # "save"
      PROVE  Same /\ moving' \subseteq moving
  BY <1>0, <1>1, <1>2
<1>3. ASSUME NEW e \in Editors, NEW w, edits' = [edits EXCEPT ![e] = w], UNCHANGED imports,
             moving' \subseteq moving, e \notin moving'
      PROVE  Same /\ moving' \subseteq moving
  BY <1>0, <1>3
<1>4. ASSUME UNCHANGED <<imports, edits, moving>> PROVE Same /\ moving' \subseteq moving
  BY <1>4
<1>5. ASSUME NEW l, TickReads(l) \/ ManualReads(l) PROVE Same /\ moving' \subseteq moving
  <2>1. "tick" \in Importers /\ "manual" \in Importers
    BY DEF Importers
  <2>2. \E p \in Importers : \E w : Becomes(p, w) /\ imports[p].phase = "idle" /\ UNCHANGED <<edits, moving>>
    BY <1>5, <2>1 DEF TickReads, ManualReads, Read
  <2> QED BY <1>2, <2>2
<1>6. ASSUME NEW k, NEW v, FileReads(k, v) PROVE Same /\ moving' \subseteq moving
  <2>1. "file" \in Importers
    BY DEF Importers
  <2> QED BY <1>2, <1>6, <2>1 DEF FileReads
<1>7. ASSUME NEW p \in Importers, NEW k, RowUnfit(p, k) \/ Find(p, k) PROVE Same /\ moving' \subseteq moving
  <2>1. (\E w : Becomes(p, w)) /\ imports[p].phase = "rows" /\ UNCHANGED <<edits, moving>>
    BY <1>7 DEF RowUnfit, Find
  <2> QED BY <1>2, <2>1
<1>8. ASSUME NEW p \in Importers, SaveRow(p) \/ RowFails(p) PROVE Same /\ moving' \subseteq moving
  <2>1. (\E w : Becomes(p, w)) /\ UNCHANGED edits /\ moving' = moving \ {p}
    BY <1>8 DEF SaveRow, RowFails
  <2> QED BY <1>1, <2>1
<1>9. ASSUME NEW p \in Importers, NEW i, RowsDone(p) \/ Remove(p, i) \/ SyncThrows(p)
      PROVE  Same /\ moving' \subseteq moving
  <2>1. (\E w : Becomes(p, w)) /\ UNCHANGED <<edits, moving>>
    BY <1>9 DEF RowsDone, Remove, SyncThrows
  <2>2. imports[p].phase # "save"
    BY <1>0, <1>9 DEF RowsDone, Remove, SyncThrows, HoldersFit, ImportFits
  <2> QED BY <1>2, <2>1, <2>2
<1>10. ASSUME NEW e \in Editors, NEW op, NEW i, Reads(e, op, i) PROVE Same /\ moving' \subseteq moving
  <2>1. e \notin moving /\ UNCHANGED <<imports, moving>>
    BY <1>0, <1>10 DEF Reads
  <2> QED BY <1>3, <1>10, <2>1 DEF Reads
<1>11. ASSUME NEW op, NEW i, OfficeReads(op, i) \/ SubmissionReads(i) PROVE Same /\ moving' \subseteq moving
  BY <1>10, <1>11 DEF OfficeReads, SubmissionReads, Editors
<1>12. ASSUME NEW e \in Editors, Writes(e) \/ WriteFails(e) PROVE Same /\ moving' \subseteq moving
  <2>1. (\E w : edits' = [edits EXCEPT ![e] = w]) /\ UNCHANGED imports /\ moving' = moving \ {e}
    BY <1>12 DEF Writes, WriteFails
  <2> QED BY <1>3, <2>1
<1>13. ASSUME OrdersCrash PROVE Same /\ moving' \subseteq moving
  BY <1>13 DEF OrdersCrash
<1>14. ASSUME NEW a, (a \in Importers /\ RowMoves(a)) \/ (a \in Editors /\ WriteMoves(a)) PROVE Same
  BY <1>14 DEF RowMoves, WriteMoves
<1> QED BY <1>4, <1>5, <1>6, <1>7, <1>8, <1>9, <1>11, <1>12, <1>13, <1>14
        DEF OrdersNext, TimerStep, SyncStep, EditStep, TickStarts, TickSkips, RowChanges, LinkChanges, ordersVars

LEMMA MoversFitStep ==
    ASSUME OrdersTypeOK, HoldersFit, MoversFit, [OrdersNext]_<<ordersVars, spent>>
    PROVE  MoversFit' /\ moving' \subseteq Importers \cup Editors
<1>1. ASSUME NEW a \in moving', a \in moving
      PROVE  /\ a \in Importers \cup Editors
             /\ IF a \in Editors THEN Busy(a)' ELSE Saves(a)' /\ imports'[a].id # None
  <2>1. a \in Importers \cup Editors
    BY <1>1 DEF OrdersTypeOK
  <2>2. /\ a \in Editors => edits'[a] = edits[a]
        /\ a \in Importers => imports'[a] = imports[a]
    BY <1>1, MoversStay
  <2>3. CASE a \in Editors
    BY <1>1, <2>2, <2>3 DEF MoversFit, Busy
  <2>4. CASE a \notin Editors
    BY <1>1, <2>1, <2>2, <2>4 DEF MoversFit, Saves
  <2> QED BY <2>1, <2>3, <2>4
<1>2. ASSUME NEW a, (a \in Importers /\ RowMoves(a)) \/ (a \in Editors /\ WriteMoves(a))
      PROVE  MoversFit' /\ moving' \subseteq Importers \cup Editors
  <2>1. PICK i \in OrderIds, k \in OrderKeys :
               /\ TakeOut(a, i, k) /\ Holds(a, k)
               /\ a \in Editors \/ imports[a].id # None
               /\ UNCHANGED <<imports, edits>>
    BY <1>2, MoveSays
  <2>2. moving' = moving \cup {a}
    BY <2>1 DEF TakeOut
  <2>3. CASE a \in Editors
    <3>1. Busy(a)'
      BY <2>1, <2>3 DEF Holds, Busy
    <3> QED BY <1>1, <2>2, <2>3, <3>1 DEF MoversFit
  <2>4. CASE a \notin Editors
    <3>1. Saves(a)' /\ imports'[a].id # None
      BY <2>1, <2>4 DEF Holds, Saves
    <3> QED BY <1>1, <1>2, <2>2, <2>4, <3>1 DEF MoversFit
  <2> QED BY <2>3, <2>4
<1>3. CASE moving' \subseteq moving
  BY <1>1, <1>3 DEF MoversFit
<1> QED BY <1>2, <1>3, MoversStay

LEMMA OrdersTypeStep ==
    OrdersTypeOK /\ IsABag(spent) /\ HoldersFit /\ MoversFit /\ [OrdersNext]_<<ordersVars, spent>>
    => OrdersTypeOK' /\ HoldersFit'
<1> SUFFICES ASSUME OrdersTypeOK, HoldersFit, MoversFit, [OrdersNext]_<<ordersVars, spent>>
             PROVE  OrdersTypeOK' /\ HoldersFit'
  OBVIOUS
<1>0. moving' \subseteq Importers \cup Editors
  BY MoversFitStep
<1> USE <1>0
<1>1. ASSUME NEW p \in Importers, NEW w \in Import, ImportFits(p, w), Becomes(p, w)
      PROVE  imports' \in [Importers -> Import] /\ \A q \in Importers : ImportFits(q, imports'[q])
  BY <1>1 DEF Becomes, OrdersTypeOK, HoldersFit
<1>2. ASSUME NEW e \in Editors, NEW w \in Edit, EditFits(e, w), edits' = [edits EXCEPT ![e] = w]
      PROVE  edits' \in [Editors -> Edit] /\ \A f \in Editors : EditFits(f, edits'[f])
  BY <1>2 DEF OrdersTypeOK, HoldersFit
<1>3. ASSUME NEW i, NEW o \in Orders \cup {None}, o # None => LinkFits(o),
             orders' = [orders EXCEPT ![i] = o]
      PROVE  /\ orders' \in [OrderIds -> Orders \cup {None}]
             /\ \A j \in OrderIds : orders'[j] # None => LinkFits(orders'[j])
  BY <1>3 DEF OrdersTypeOK, HoldersFit
<1>4. ASSUME NEW p \in Importers, NEW w \in Import, ImportFits(p, w), Becomes(p, w),
             sheet' \in Rows, gone' \subseteq OrderKeys, links' \subseteq SheetLinks, paused' \subseteq SheetLinks,
             round' \subseteq SheetLinks, UNCHANGED <<orders, edits, crossed>>
      PROVE  OrdersTypeOK' /\ HoldersFit'
  BY <1>1, <1>4 DEF OrdersTypeOK, HoldersFit
<1>5. ASSUME NEW p \in Importers, NEW l \in SheetLinks, NEW lost, Read(p, l, lost), p # "file"
      PROVE  \E w \in Import : ImportFits(p, w) /\ Becomes(p, w)
  <2> DEFINE rows == RowsOf(l, lost)
             drafts == [k \in OrderKeys |-> IF k \in rows THEN sheet[k] ELSE None]
             w == [IdleImport EXCEPT !.phase = "rows", !.link = l, !.todo = rows, !.drafts = drafts]
  <2>1. Becomes(p, w)
    BY <1>5 DEF Read
  <2>2. drafts \in Rows /\ rows \subseteq OrderKeys /\ \A k \in OrderKeys : drafts[k] # None => LinkOf[k] = l
    BY DEF OrdersTypeOK, Rows, RowsOf
  <2> HIDE DEF drafts, rows
  <2>3. w \in Import
    BY <2>2 DEF IdleImport, Import
  <2>4. ImportFits(p, w)
    BY <1>5, <2>2 DEF IdleImport, ImportFits
  <2> QED BY <2>1, <2>3, <2>4
<1>6. ASSUME TickStarts PROVE OrdersTypeOK' /\ HoldersFit'
  BY <1>6 DEF TickStarts, OrdersTypeOK, HoldersFit
<1>7. ASSUME NEW l \in SheetLinks, TickReads(l) PROVE OrdersTypeOK' /\ HoldersFit'
  <2>1. PICK lost : Read("tick", l, lost)
    BY <1>7 DEF TickReads
  <2>2. "tick" \in Importers \ {"file"}
    BY DEF Importers
  <2>3. PICK w \in Import : ImportFits("tick", w) /\ Becomes("tick", w)
    BY <1>5, <2>1, <2>2
  <2> QED BY <1>4, <1>7, <2>2, <2>3 DEF TickReads, OrdersTypeOK
<1>8. ASSUME NEW l \in SheetLinks, TickSkips(l) PROVE OrdersTypeOK' /\ HoldersFit'
  BY <1>8 DEF TickSkips, OrdersTypeOK, HoldersFit
<1>9. ASSUME NEW l \in SheetLinks, ManualReads(l) PROVE OrdersTypeOK' /\ HoldersFit'
  <2>1. Read("manual", l, {})
    BY <1>9 DEF ManualReads
  <2>2. "manual" \in Importers \ {"file"}
    BY DEF Importers
  <2>3. PICK w \in Import : ImportFits("manual", w) /\ Becomes("manual", w)
    BY <1>5, <2>1, <2>2
  <2> QED BY <1>4, <1>9, <2>2, <2>3 DEF ManualReads, linkState, OrdersTypeOK
<1>10. ASSUME NEW k \in OrderKeys, NEW v \in RowValues, FileReads(k, v) PROVE OrdersTypeOK' /\ HoldersFit'
  <2> DEFINE w == [IdleImport EXCEPT !.phase = "rows", !.todo = {k}, !.drafts[k] = v]
  <2>1. w \in Import /\ ImportFits("file", w)
    BY DEF IdleImport, Import, Rows, ImportFits
  <2>2. Becomes("file", w)
    BY <1>10 DEF FileReads
  <2>3. "file" \in Importers
    BY DEF Importers
  <2> HIDE DEF w
  <2> QED BY <1>4, <1>10, <2>1, <2>2, <2>3 DEF FileReads, linkState, OrdersTypeOK
<1>11. ASSUME NEW p \in Importers, NEW k \in OrderKeys, RowUnfit(p, k) PROVE OrdersTypeOK' /\ HoldersFit'
  <2> DEFINE w == [imports[p] EXCEPT !.todo = @ \ {k}, !.drafts[k] = None, !.failed = TRUE]
  <2>1. Becomes(p, w) /\ imports[p] \in Import /\ ImportFits(p, imports[p]) /\ imports[p].phase = "rows"
    BY <1>11 DEF RowUnfit, OrdersTypeOK, HoldersFit
  <2>2. w \in Import
    BY <2>1 DEF Import, Rows
  <2>3. ImportFits(p, w)
    BY <2>1 DEF Import, Rows, ImportFits
  <2> HIDE DEF w
  <2> QED BY <1>4, <1>11, <2>1, <2>2, <2>3 DEF RowUnfit, linkState, OrdersTypeOK
<1>12. ASSUME NEW p \in Importers, NEW k \in OrderKeys, Find(p, k) PROVE OrdersTypeOK' /\ HoldersFit'
  <2>1. /\ imports[p] \in Import /\ ImportFits(p, imports[p]) /\ imports[p].phase = "rows"
        /\ imports[p].drafts[k] \in RowValues
    BY <1>12 DEF Find, Normalized, OrdersTypeOK, HoldersFit
  <2>2. ASSUME NEW w \in Import, ImportFits(p, w), Becomes(p, w) PROVE OrdersTypeOK' /\ HoldersFit'
    BY <1>4, <1>12, <2>2 DEF Find, linkState, OrdersTypeOK
  <2>3. CASE Becomes(p, [imports[p] EXCEPT !.phase = "save", !.todo = @ \ {k}, !.key = k])
    <3> DEFINE w == [imports[p] EXCEPT !.phase = "save", !.todo = @ \ {k}, !.key = k]
    <3>1. w \in Import
      BY <2>1 DEF Import
    <3>2. ImportFits(p, w)
      BY <2>1 DEF Import, ImportFits
    <3> QED BY <2>2, <2>3, <3>1, <3>2
  <2>4. ASSUME NEW i \in FoundBy(k), Skipped(p, k, orders[i]), Becomes(p, [imports[p] EXCEPT !.todo = @ \ {k}])
        PROVE  OrdersTypeOK' /\ HoldersFit'
    <3> DEFINE w == [imports[p] EXCEPT !.todo = @ \ {k}]
    <3>1. w \in Import
      BY <2>1 DEF Import
    <3>2. ImportFits(p, w)
      BY <2>1 DEF Import, ImportFits
    <3> QED BY <2>2, <2>4, <3>1, <3>2
  <2>5. ASSUME NEW i \in FoundBy(k), ~Skipped(p, k, orders[i]),
               Becomes(p, [imports[p] EXCEPT !.phase = "save", !.todo = @ \ {k}, !.key = k,
                                             !.id = i, !.copy = orders[i]])
        PROVE  OrdersTypeOK' /\ HoldersFit'
    <3> DEFINE w == [imports[p] EXCEPT !.phase = "save", !.todo = @ \ {k}, !.key = k,
                                       !.id = i, !.copy = orders[i]]
    <3>1. /\ i \in OrderIds /\ orders[i] \in Orders /\ orders[i].key = k /\ LinkFits(orders[i])
          /\ orders[i].status # "SUBMITTED"
      BY <2>5 DEF FoundBy, WithKey, Listed, OrdersTypeOK, HoldersFit, Skipped
    <3>2. w \in Import
      BY <2>1, <3>1 DEF Import
    <3>3. ImportFits(p, w)
      BY <2>1, <3>1 DEF Import, ImportFits
    <3> QED BY <2>2, <2>5, <3>2, <3>3
  <2> QED BY <1>12, <2>3, <2>4, <2>5 DEF Find
<1>13. ASSUME NEW p \in Importers, imports[p].phase = "save"
       PROVE  /\ Answered(p) \in Import /\ ImportFits(p, Answered(p))
              /\ [Answered(p) EXCEPT !.failed = TRUE] \in Import
              /\ ImportFits(p, [Answered(p) EXCEPT !.failed = TRUE])
  <2>1. imports[p] \in Import /\ ImportFits(p, imports[p])
    BY DEF OrdersTypeOK, HoldersFit
  <2> QED BY <1>13, <2>1 DEF Answered, Import, ImportFits
<1>14. ASSUME NEW p \in Importers, SaveRow(p) PROVE OrdersTypeOK' /\ HoldersFit'
  <2>1. /\ imports' \in [Importers -> Import] /\ \A q \in Importers : ImportFits(q, imports'[q])
        /\ UNCHANGED <<sheet, gone, linkState, edits>> /\ Saves(p)
    BY <1>1, <1>13, <1>14 DEF SaveRow, Saves
  <2>2. /\ orders' \in [OrderIds -> Orders \cup {None}]
        /\ \A j \in OrderIds : orders'[j] # None => LinkFits(orders'[j])
    BY <1>3, <1>14, <2>1, RowTypes DEF SaveRow, Updated
  <2>3. crossed' \subseteq OrderKeys
    BY <1>14, <2>1 DEF SaveRow, Cross, OrdersTypeOK, HoldersFit, ImportFits
  <2> QED BY <2>1, <2>2, <2>3 DEF OrdersTypeOK, HoldersFit, linkState
<1>15. ASSUME NEW p \in Importers, RowFails(p) PROVE OrdersTypeOK' /\ HoldersFit'
  BY <1>4, <1>13, <1>15 DEF RowFails, linkState, OrdersTypeOK
<1>16. ASSUME NEW p \in Importers, RowsDone(p) PROVE OrdersTypeOK' /\ HoldersFit'
  <2>1. /\ imports[p] \in Import /\ ImportFits(p, imports[p]) /\ imports[p].phase = "rows"
    BY <1>16 DEF RowsDone, OrdersTypeOK, HoldersFit
  <2>2. CASE Becomes(p, IdleImport)
    BY <1>4, <1>16, <2>2, ImportType DEF RowsDone, linkState, OrdersTypeOK
  <2>3. CASE p # "file" /\ Becomes(p, [imports[p] EXCEPT !.phase = "remove", !.doomed = Missing(p)])
    <3> DEFINE w == [imports[p] EXCEPT !.phase = "remove", !.doomed = Missing(p)]
    <3>1. w \in Import
      BY <2>1 DEF Import, Missing, Listed
    <3>2. ImportFits(p, w)
      BY <2>1, <2>3 DEF Import, ImportFits
    <3> QED BY <1>4, <1>16, <2>3, <3>1, <3>2 DEF RowsDone, linkState, OrdersTypeOK
  <2> QED BY <1>16, <2>2, <2>3 DEF RowsDone
<1>17. ASSUME NEW p \in Importers, NEW i \in OrderIds, Remove(p, i) PROVE OrdersTypeOK' /\ HoldersFit'
  <2>1. /\ imports[p] \in Import /\ ImportFits(p, imports[p]) /\ imports[p].phase = "remove"
        /\ UNCHANGED <<sheet, gone, linkState, edits>>
    BY <1>17 DEF Remove, OrdersTypeOK, HoldersFit, ImportFits
  <2> DEFINE w == [imports[p] EXCEPT !.doomed = imports[p].doomed \ {i}]
  <2>2. w \in Import /\ ImportFits(p, w)
    BY <2>1 DEF Import, ImportFits
  <2>3. imports' \in [Importers -> Import] /\ \A q \in Importers : ImportFits(q, imports'[q])
    BY <1>1, <1>17, <2>2, ImportType DEF Remove
  <2>4. /\ orders' \in [OrderIds -> Orders \cup {None}]
        /\ \A j \in OrderIds : orders'[j] # None => LinkFits(orders'[j])
    BY <1>3, <1>17 DEF Remove
  <2>5. crossed' \subseteq OrderKeys
    BY <1>17 DEF Remove, Cross, Listed, OrdersTypeOK, Orders
  <2> QED BY <2>1, <2>3, <2>4, <2>5 DEF OrdersTypeOK, HoldersFit, linkState
<1>18. ASSUME NEW p \in Importers, SyncThrows(p) PROVE OrdersTypeOK' /\ HoldersFit'
  BY <1>4, <1>18, ImportType DEF SyncThrows, linkState, OrdersTypeOK
<1>19. ASSUME NEW e \in Editors, NEW op \in OfficeOps \cup {"submit"}, NEW i \in OrderIds, Reads(e, op, i),
              e = "submission" => op = "submit"
       PROVE  OrdersTypeOK' /\ HoldersFit'
  <2> DEFINE w == [op |-> op, id |-> i, copy |-> orders[i]]
  <2>1. orders[i] \in Orders /\ LinkFits(orders[i])
    BY <1>19 DEF Reads, Listed, OrdersTypeOK, HoldersFit
  <2>2. w \in Edit /\ EditFits(e, w)
    BY <1>19, <2>1 DEF Edit, EditFits, OfficeOps
  <2>3. edits' \in [Editors -> Edit] /\ \A f \in Editors : EditFits(f, edits'[f])
    BY <1>2, <1>19, <2>2 DEF Reads
  <2> QED BY <1>19, <2>3 DEF Reads, OrdersTypeOK, HoldersFit, linkState
<1>20. ASSUME NEW e \in Editors, Writes(e) PROVE OrdersTypeOK' /\ HoldersFit'
  <2>1. Busy(e) /\ EditFits(e, edits[e]) /\ UNCHANGED <<sheet, gone, linkState, imports>>
    BY <1>20 DEF Writes, Busy, HoldersFit
  <2>2. IdleEdit \in Edit /\ EditFits(e, IdleEdit)
    BY DEF IdleEdit, Edit, EditFits
  <2>3. edits' \in [Editors -> Edit] /\ \A f \in Editors : EditFits(f, edits'[f])
    BY <1>2, <1>20, <2>2 DEF Writes
  <2>4. /\ orders' \in [OrderIds -> Orders \cup {None}]
        /\ \A j \in OrderIds : orders'[j] # None => LinkFits(orders'[j])
    BY <1>3, <1>20, <2>1, WrittenTypes DEF Writes
  <2>5. crossed' \subseteq OrderKeys
    BY <1>20, <2>1 DEF Writes, Cross, Busy, EditFits, OrdersTypeOK, Orders
  <2> QED BY <2>1, <2>3, <2>4, <2>5 DEF OrdersTypeOK, HoldersFit, linkState
<1>21. ASSUME NEW e \in Editors, WriteFails(e) PROVE OrdersTypeOK' /\ HoldersFit'
  <2>1. IdleEdit \in Edit /\ EditFits(e, IdleEdit)
    BY DEF IdleEdit, Edit, EditFits
  <2>2. edits' \in [Editors -> Edit] /\ \A f \in Editors : EditFits(f, edits'[f])
    BY <1>2, <1>21, <2>1 DEF WriteFails
  <2> QED BY <1>21, <2>2 DEF WriteFails, OrdersTypeOK, HoldersFit, linkState
<1>22. ASSUME NEW k \in OrderKeys, NEW v \in RowValues \cup {Unfit, None}, RowChanges(k, v)
       PROVE  OrdersTypeOK' /\ HoldersFit'
  <2>1. sheet' \in Rows
    BY <1>22 DEF RowChanges, Rows, OrdersTypeOK
  <2> QED BY <1>22, <2>1 DEF RowChanges, linkState, OrdersTypeOK, HoldersFit
<1>23. ASSUME LinkChanges PROVE OrdersTypeOK' /\ HoldersFit'
  BY <1>23 DEF LinkChanges, OrdersTypeOK, HoldersFit
<1>24. ASSUME OrdersCrash PROVE OrdersTypeOK' /\ HoldersFit'
  <2>1. IdleEdit \in Edit /\ \A e \in Editors : EditFits(e, IdleEdit)
    BY DEF IdleEdit, Edit, EditFits
  <2> QED BY <1>24, <2>1, ImportType DEF OrdersCrash, OrdersTypeOK, HoldersFit
<1>25. ASSUME UNCHANGED <<ordersVars, spent>> PROVE OrdersTypeOK' /\ HoldersFit'
  BY <1>25 DEF ordersVars, OrdersTypeOK, HoldersFit
<1>26. ASSUME NEW i \in OrderIds, SubmissionReads(i) PROVE OrdersTypeOK' /\ HoldersFit'
  BY <1>19, <1>26 DEF SubmissionReads, Editors
<1>27. ASSUME NEW i \in OrderIds, NEW op \in OfficeOps, OfficeReads(op, i) PROVE OrdersTypeOK' /\ HoldersFit'
  BY <1>19, <1>27 DEF OfficeReads, Editors
<1>28. ASSUME NEW a, (a \in Importers /\ RowMoves(a)) \/ (a \in Editors /\ WriteMoves(a))
       PROVE  OrdersTypeOK' /\ HoldersFit'
  <2>1. PICK i \in OrderIds, k \in OrderKeys :
               TakeOut(a, i, k) /\ UNCHANGED <<sheet, gone, linkState, imports, edits, spent>>
    BY <1>28, MoveSays
  <2>2. /\ orders' \in [OrderIds -> Orders \cup {None}]
        /\ \A j \in OrderIds : orders'[j] # None => LinkFits(orders'[j])
    BY <1>3, <2>1 DEF TakeOut
  <2>3. crossed' \subseteq OrderKeys
    BY <2>1 DEF TakeOut, Cross, OrdersTypeOK
  <2> QED BY <2>1, <2>2, <2>3 DEF OrdersTypeOK, HoldersFit, linkState
<1> QED BY <1>6, <1>7, <1>8, <1>9, <1>10, <1>11, <1>12, <1>14, <1>15, <1>16, <1>17, <1>18, <1>20, <1>21,
           <1>22, <1>23, <1>24, <1>25, <1>26, <1>27, <1>28 DEF OrdersNext, TimerStep, SyncStep, EditStep

----------------------------------------------------------------------------
(* Identities and their keys *)

LEMMA KeysSay ==
    ASSUME NEW i \in OrderIds
    PROVE  /\ orders[i] # None => orders[i].key \in KeysBy(i)
           /\ \A p \in Importers : Saves(p) /\ imports[p].id = i => imports[p].key \in KeysBy(i)
           /\ \A e \in Editors : Busy(e) /\ edits[e].id = i => edits[e].copy.key \in KeysBy(i)
BY DEF KeysBy, Listed

LEMMA KeysShrink ==
    ASSUME NEW i \in OrderIds, NEW ks,
           orders'[i] # None => orders'[i].key \in ks,
           \A p \in Importers : Saves(p)' /\ imports'[p].id = i => imports'[p].key \in ks,
           \A e \in Editors : Busy(e)' /\ edits'[e].id = i => edits'[e].copy.key \in ks
    PROVE  KeysBy(i)' \subseteq ks
BY DEF KeysBy, Listed

\* Nobody knows a fresh identity.
LEMMA FreshSays ==
    ASSUME NEW i \in FreshIds
    PROVE  /\ i \in OrderIds /\ orders[i] = None
           /\ \A p \in Importers : imports[p].id # i /\ i \notin imports[p].doomed
           /\ \A e \in Editors : edits[e].id # i
BY DEF FreshIds, Listed

\* A new order has its row's key.  All others know an identity as before.
LEMMA KeysStep ==
    ASSUME OrdersTypeOK, HoldersFit, [OrdersNext]_<<ordersVars, spent>>, NEW i \in OrderIds
    PROVE  \/ KeysBy(i)' \subseteq KeysBy(i)
           \/ i \in FreshIds /\ \E k : KeysBy(i)' \subseteq {k}
<1>0. None \notin OrderIds
  BY WorkOrdersAssumption
<1>1. ASSUME NEW p \in Importers, NEW w, Becomes(p, w), w.phase = "save" /\ w.id = i => w.key \in KeysBy(i),
             UNCHANGED <<orders, edits>>
      PROVE  KeysBy(i)' \subseteq KeysBy(i)
  <2>1. \A q \in Importers : Saves(q)' /\ imports'[q].id = i => imports'[q].key \in KeysBy(i)
    BY <1>1, KeysSay DEF Becomes, OrdersTypeOK, Saves
  <2>2. \A e \in Editors : Busy(e)' /\ edits'[e].id = i => edits'[e].copy.key \in KeysBy(i)
    BY <1>1, KeysSay DEF Busy
  <2> QED BY <1>1, <2>1, <2>2, KeysSay, KeysShrink
<1>2. ASSUME NEW p \in Importers, NEW w, Becomes(p, w), w.phase # "save",
             UNCHANGED edits, orders'[i] # None => orders'[i].key \in KeysBy(i)
      PROVE  KeysBy(i)' \subseteq KeysBy(i)
  <2>1. \A q \in Importers : Saves(q)' /\ imports'[q].id = i => imports'[q].key \in KeysBy(i)
    BY <1>2, KeysSay DEF Becomes, OrdersTypeOK, Saves
  <2>2. \A e \in Editors : Busy(e)' /\ edits'[e].id = i => edits'[e].copy.key \in KeysBy(i)
    BY <1>2, KeysSay DEF Busy
  <2> QED BY <1>2, <2>1, <2>2, KeysSay, KeysShrink
<1>3. ASSUME NEW e \in Editors, NEW w, edits' = [edits EXCEPT ![e] = w], UNCHANGED imports,
             w.op # "none" /\ w.id = i => w.copy.key \in KeysBy(i),
             orders'[i] # None => orders'[i].key \in KeysBy(i)
      PROVE  KeysBy(i)' \subseteq KeysBy(i)
  <2>1. \A q \in Importers : Saves(q)' /\ imports'[q].id = i => imports'[q].key \in KeysBy(i)
    BY <1>3, KeysSay DEF Saves
  <2>2. \A f \in Editors : Busy(f)' /\ edits'[f].id = i => edits'[f].copy.key \in KeysBy(i)
    BY <1>3, KeysSay DEF Busy, OrdersTypeOK
  <2> QED BY <1>3, <2>1, <2>2, KeysShrink
<1>4. ASSUME UNCHANGED <<orders, imports, edits>> PROVE KeysBy(i)' \subseteq KeysBy(i)
  BY <1>4 DEF KeysBy, Listed, Saves, Busy
<1>5. ASSUME NEW p \in Importers, NEW l, NEW lost, Read(p, l, lost), UNCHANGED <<orders, edits>>
      PROVE  KeysBy(i)' \subseteq KeysBy(i)
  BY <1>1, <1>5 DEF Read, IdleImport
<1>6. ASSUME NEW l \in SheetLinks, TickReads(l) PROVE KeysBy(i)' \subseteq KeysBy(i)
  <2>1. PICK lost : Read("tick", l, lost)
    BY <1>6 DEF TickReads
  <2> QED BY <1>5, <1>6, <2>1 DEF TickReads, Importers
<1>7. ASSUME NEW l \in SheetLinks, ManualReads(l) PROVE KeysBy(i)' \subseteq KeysBy(i)
  BY <1>5, <1>7 DEF ManualReads, Importers
<1>8. ASSUME NEW k \in OrderKeys, NEW v \in RowValues, FileReads(k, v) PROVE KeysBy(i)' \subseteq KeysBy(i)
  <2>1. "file" \in Importers
    BY DEF Importers
  <2> QED BY <1>1, <1>8, <2>1 DEF FileReads, IdleImport
<1>9. ASSUME NEW p \in Importers, NEW k \in OrderKeys, RowUnfit(p, k) PROVE KeysBy(i)' \subseteq KeysBy(i)
  <2>1. imports[p] \in Import /\ imports[p].phase = "rows"
    BY <1>9 DEF RowUnfit, OrdersTypeOK
  <2> QED BY <1>1, <1>9, <2>1 DEF RowUnfit, Import
<1>10. ASSUME NEW p \in Importers, NEW k \in OrderKeys, Find(p, k) PROVE KeysBy(i)' \subseteq KeysBy(i)
  <2>1. imports[p] \in Import /\ imports[p].phase = "rows" /\ imports[p].id = None /\ UNCHANGED <<orders, edits>>
    BY <1>10 DEF Find, OrdersTypeOK, HoldersFit, ImportFits
  <2>2. CASE Becomes(p, [imports[p] EXCEPT !.phase = "save", !.todo = @ \ {k}, !.key = k])
    BY <1>0, <1>1, <2>1, <2>2 DEF Import
  <2>3. CASE Becomes(p, [imports[p] EXCEPT !.todo = @ \ {k}])
    BY <1>1, <2>1, <2>3 DEF Import
  <2>4. ASSUME NEW j \in FoundBy(k),
               Becomes(p, [imports[p] EXCEPT !.phase = "save", !.todo = @ \ {k}, !.key = k,
                                             !.id = j, !.copy = orders[j]])
        PROVE  KeysBy(i)' \subseteq KeysBy(i)
    <3>1. orders[j] # None /\ orders[j].key = k /\ j \in OrderIds
      BY <2>4 DEF FoundBy, WithKey, Listed
    <3>2. j = i => k \in KeysBy(i)
      BY <3>1, KeysSay
    <3> DEFINE w == [imports[p] EXCEPT !.phase = "save", !.todo = @ \ {k}, !.key = k, !.id = j, !.copy = orders[j]]
    <3>3. w.id = j /\ w.key = k
      BY <2>1 DEF Import
    <3>4. Becomes(p, w)
      BY <2>4
    <3> HIDE DEF w
    <3> QED BY <1>1, <2>1, <3>2, <3>3, <3>4
  <2> QED BY <1>10, <2>2, <2>3, <2>4 DEF Find
<1>11. ASSUME NEW p \in Importers, SaveRow(p)
       PROVE  \/ KeysBy(i)' \subseteq KeysBy(i)
              \/ i \in FreshIds /\ \E k : KeysBy(i)' \subseteq {k}
  <2>1. /\ imports[p] \in Import /\ Saves(p) /\ UNCHANGED edits
        /\ Becomes(p, Answered(p)) /\ Answered(p).phase = "rows"
    BY <1>11 DEF SaveRow, Saves, OrdersTypeOK, Answered, Import
  <2>2. CASE imports[p].id # None
    <3>1. orders'[i] # orders[i] => imports[p].id = i /\ orders'[i].key = imports[p].key
      BY <1>11, <2>1, <2>2, RowTypes DEF SaveRow, Updated, OrdersTypeOK
    <3>2. orders'[i] # None => orders'[i].key \in KeysBy(i)
      BY <2>1, <3>1, KeysSay
    <3> QED BY <1>2, <2>1, <3>2
  <2>3. CASE imports[p].id = None /\ i # FreshId
    <3>1. orders'[i] # None => orders'[i].key \in KeysBy(i)
      BY <1>11, <2>3, KeysSay DEF SaveRow, OrdersTypeOK
    <3> QED BY <1>2, <2>1, <3>1
  <2>4. CASE imports[p].id = None /\ i = FreshId
    <3>1. i \in FreshIds /\ orders'[i] = NewOrder(p)
      BY <1>11, <2>4 DEF SaveRow, FreshId, OrdersTypeOK
    <3>2. \A q \in Importers : Saves(q)' /\ imports'[q].id = i => FALSE
      BY <2>1, <3>1, FreshSays DEF Becomes, OrdersTypeOK, Saves
    <3>3. \A e \in Editors : Busy(e)' /\ edits'[e].id = i => FALSE
      BY <2>1, <3>1, FreshSays
    <3>4. KeysBy(i)' \subseteq {NewOrder(p).key}
      BY <3>1, <3>2, <3>3, KeysShrink
    <3> QED BY <3>1, <3>4
  <2> QED BY <2>2, <2>3, <2>4
<1>12. ASSUME NEW p \in Importers, RowFails(p) PROVE KeysBy(i)' \subseteq KeysBy(i)
  <2>1. imports[p] \in Import
    BY DEF OrdersTypeOK
  <2> QED BY <1>1, <1>12, <2>1 DEF RowFails, Answered, Import
<1>13. ASSUME NEW p \in Importers, RowsDone(p) PROVE KeysBy(i)' \subseteq KeysBy(i)
  <2>1. imports[p] \in Import
    BY DEF OrdersTypeOK
  <2>2. CASE Becomes(p, IdleImport)
    BY <1>1, <1>13, <2>2 DEF RowsDone, IdleImport
  <2>3. CASE Becomes(p, [imports[p] EXCEPT !.phase = "remove", !.doomed = Missing(p)])
    BY <1>1, <1>13, <2>1, <2>3 DEF RowsDone, Import
  <2> QED BY <1>13, <2>2, <2>3 DEF RowsDone
<1>14. ASSUME NEW p \in Importers, NEW j \in OrderIds, Remove(p, j) PROVE KeysBy(i)' \subseteq KeysBy(i)
  <2>1. imports[p] \in Import /\ imports[p].phase = "remove" /\ UNCHANGED edits
    BY <1>14 DEF Remove, OrdersTypeOK, HoldersFit, ImportFits
  <2>2. orders'[i] # None => orders'[i].key \in KeysBy(i)
    BY <1>14, KeysSay DEF Remove, OrdersTypeOK
  <2>3. IdleImport.phase # "save" /\ [imports[p] EXCEPT !.doomed = imports[p].doomed \ {j}].phase # "save"
    BY <2>1 DEF IdleImport, Import
  <2> QED BY <1>2, <1>14, <2>1, <2>2, <2>3 DEF Remove
<1>15. ASSUME NEW p \in Importers, SyncThrows(p) PROVE KeysBy(i)' \subseteq KeysBy(i)
  BY <1>1, <1>15 DEF SyncThrows, IdleImport
<1>16. ASSUME NEW e \in Editors, NEW op, NEW j \in OrderIds, Reads(e, op, j) PROVE KeysBy(i)' \subseteq KeysBy(i)
  <2>1. j = i => orders[j].key \in KeysBy(i)
    BY <1>16, KeysSay DEF Reads, Listed
  <2> QED BY <1>3, <1>16, <2>1, KeysSay DEF Reads
<1>17. ASSUME NEW e \in Editors, Writes(e) PROVE KeysBy(i)' \subseteq KeysBy(i)
  <2>1. Busy(e) /\ edits' = [edits EXCEPT ![e] = IdleEdit] /\ UNCHANGED imports
    BY <1>17 DEF Writes, Busy
  <2>2. orders'[i] # orders[i] /\ orders'[i] # None
        => edits[e].id = i /\ orders'[i].key = edits[e].copy.key
    BY <1>17, <2>1, WrittenTypes DEF Writes, OrdersTypeOK
  <2>3. orders'[i] # None => orders'[i].key \in KeysBy(i)
    BY <2>1, <2>2, KeysSay
  <2> QED BY <1>3, <2>1, <2>3 DEF IdleEdit
<1>18. ASSUME NEW e \in Editors, WriteFails(e) PROVE KeysBy(i)' \subseteq KeysBy(i)
  BY <1>3, <1>18, KeysSay DEF WriteFails, IdleEdit
<1>19. ASSUME OrdersCrash PROVE KeysBy(i)' \subseteq KeysBy(i)
  <2>1. /\ \A p \in Importers : ~Saves(p)'
        /\ \A e \in Editors : ~Busy(e)'
        /\ UNCHANGED orders
    BY <1>19 DEF OrdersCrash, Saves, Busy, IdleImport, IdleEdit
  <2> QED BY <2>1, KeysSay, KeysShrink
<1>20. ASSUME NEW j \in OrderIds, NEW op, OfficeReads(op, j) \/ SubmissionReads(j)
       PROVE  KeysBy(i)' \subseteq KeysBy(i)
  BY <1>16, <1>20 DEF OfficeReads, SubmissionReads, Editors
<1>21. ASSUME NEW a, (a \in Importers /\ RowMoves(a)) \/ (a \in Editors /\ WriteMoves(a))
       PROVE  KeysBy(i)' \subseteq KeysBy(i)
  <2>1. PICK j \in OrderIds, k \in OrderKeys : TakeOut(a, j, k) /\ UNCHANGED <<imports, edits>>
    BY <1>21, MoveSays
  <2>2. orders'[i] # None => orders'[i].key \in KeysBy(i)
    BY <2>1, KeysSay DEF TakeOut, OrdersTypeOK
  <2>3. /\ \A p \in Importers : Saves(p)' /\ imports'[p].id = i => imports'[p].key \in KeysBy(i)
        /\ \A e \in Editors : Busy(e)' /\ edits'[e].id = i => edits'[e].copy.key \in KeysBy(i)
    BY <2>1, KeysSay DEF Saves, Busy
  <2> QED BY <2>2, <2>3, KeysShrink
<1> QED BY <1>4, <1>6, <1>7, <1>8, <1>9, <1>10, <1>11, <1>12, <1>13, <1>14, <1>15, <1>17, <1>18, <1>19, <1>20, <1>21
        DEF OrdersNext, TimerStep, SyncStep, EditStep, TickStarts, TickSkips, RowChanges, LinkChanges, ordersVars

LEMMA IdsHaveOneKeyStep ==
    ASSUME OrdersTypeOK, HoldersFit, IdsHaveOneKey, [OrdersNext]_<<ordersVars, spent>>
    PROVE  IdsHaveOneKey'
<1> SUFFICES ASSUME NEW i \in OrderIds PROVE \A k, j \in KeysBy(i)' : k = j
  BY DEF IdsHaveOneKey
<1> QED BY KeysStep DEF IdsHaveOneKey

----------------------------------------------------------------------------
(* What a sync has not seen *)

\* Events are counted, keys that have been off their sheet are remembered.
LEMMA GoneGrows ==
    ASSUME IsABag(spent), [OrdersNext]_<<ordersVars, spent>>
    PROVE  IsABag(spent)' /\ gone \subseteq gone' /\ (AllRead' => AllRead)
<1>1. ASSUME NEW k, Spend(k) PROVE IsABag(spent)' /\ (AllRead' => AllRead)
  BY <1>1, SpendCounts DEF AllRead
<1>2. ASSUME UNCHANGED spent PROVE IsABag(spent)' /\ (AllRead' => AllRead)
  BY <1>2 DEF AllRead, Happened
<1>3. gone \subseteq gone'
  BY DEF OrdersNext, TimerStep, SyncStep, TickStarts, TickReads, TickSkips, ManualReads, FileReads, RowUnfit,
     Find, SaveRow, RowFails, RowsDone, Remove, SyncThrows, OfficeReads, SubmissionReads, Reads, EditStep, WriteMoves, RowMoves, TakeOut, Writes,
     WriteFails, RowChanges, LinkChanges, OrdersCrash, ordersVars
<1>4. (\E k : Spend(k)) \/ UNCHANGED spent
  <2>1. TimerStep \/ (\E l \in SheetLinks : ManualReads(l)) => (\E k : Spend(k)) \/ UNCHANGED spent
    BY DEF TimerStep, TickStarts, TickReads, TickSkips, ManualReads
  <2>2. (\E k \in OrderKeys, v \in RowValues : FileReads(k, v))
        \/ (\E p \in Importers : SyncStep(p) \/ RowFails(p) \/ SyncThrows(p))
        => (\E k : Spend(k)) \/ UNCHANGED spent
    BY DEF FileReads, SyncStep, RowUnfit, Find, RowMoves, SaveRow, RowFails, RowsDone, Remove, SyncThrows
  <2>3. (\E i \in OrderIds : (\E op \in OfficeOps : OfficeReads(op, i)) \/ SubmissionReads(i))
        \/ (\E e \in Editors : EditStep(e) \/ WriteFails(e))
        => (\E k : Spend(k)) \/ UNCHANGED spent
    BY DEF OfficeReads, SubmissionReads, EditStep, WriteMoves, Writes, WriteFails
  <2>4. (\E k \in OrderKeys, v \in RowValues \cup {Unfit, None} : RowChanges(k, v)) \/ LinkChanges \/ OrdersCrash
        => \E k : Spend(k)
    BY DEF RowChanges, LinkChanges, OrdersCrash
  <2>5. UNCHANGED <<ordersVars, spent>> => UNCHANGED spent
    OBVIOUS
  <2> QED BY <2>1, <2>2, <2>3, <2>4, <2>5 DEF OrdersNext
<1> QED BY <1>1, <1>2, <1>3, <1>4

LEMMA OneLink ==
    ASSUME NEW S, IsFiniteSet(S), Cardinality(S) <= 1, NEW a \in S, NEW b \in S
    PROVE  a = b
<1>1. Cardinality(S) \in Nat /\ (Cardinality(S) = 0 <=> S = {})
  BY FS_CardinalityType, FS_EmptySet
<1>2. Cardinality(S) = 1
  BY <1>1
<1> QED BY <1>2, FS_Singleton

\* What the removal of missing rows picks has been off its sheet.
LEMMA MissingAreGone ==
    ASSUME OrdersTypeOK, HoldersFit, IdsHaveOneKey, UnseenAreGone, AllRead,
           NEW p \in Importers \ {"file"}, imports[p].phase = "rows", Removable(p), NEW i \in Missing(p)
    PROVE  KeysBy(i) \subseteq gone
<1> DEFINE k == orders[i].key
<1>1. /\ i \in OrderIds /\ orders[i] \in Orders /\ k \in OrderKeys /\ LinkFits(orders[i])
      /\ orders[i].source = "GOOGLE_SHEET" /\ InScope(p, orders[i]) /\ imports[p].drafts[k] = None
  BY DEF Missing, Listed, OrdersTypeOK, HoldersFit, Orders
<1>2. /\ imports[p].link \in SheetLinks /\ LinkOf[k] \in SheetLinks /\ links = SheetLinks
      /\ orders[i].link = LinkOf[k] /\ IsFiniteSet(SheetLinks)
  BY <1>1, WorkOrdersAssumption DEF HoldersFit, ImportFits, UnseenAreGone, LinkFits
<1>3. LinkOf[k] = imports[p].link
  BY <1>1, <1>2, OneLink DEF InScope
<1>4. k \in gone
  BY <1>1, <1>3 DEF UnseenAreGone, UnseenFit, Removable
<1>5. k \in KeysBy(i)
  BY <1>1, WorkOrdersAssumption, KeysSay
<1>6. \A j \in KeysBy(i) : j = k
  BY <1>1, <1>5 DEF IdsHaveOneKey
<1> QED BY <1>4, <1>6

LEMMA UnseenStep ==
    ASSUME OrdersTypeOK, IsABag(spent), HoldersFit, IdsHaveOneKey, UnseenAreGone,
           [OrdersNext]_<<ordersVars, spent>>
    PROVE  UnseenAreGone'
<1>1. \A k \in OrderKeys : sheet'[k] = None => k \in gone'
  <2>1. ASSUME NEW k \in OrderKeys, NEW v, RowChanges(k, v)
        PROVE  \A j \in OrderKeys : sheet'[j] = None => j \in gone'
    BY <2>1 DEF RowChanges, UnseenAreGone, OrdersTypeOK, Rows
  <2>2. ASSUME UNCHANGED <<sheet, gone>>
        PROVE  \A j \in OrderKeys : sheet'[j] = None => j \in gone'
    BY <2>2 DEF UnseenAreGone
  <2> QED BY <2>1, <2>2 DEF OrdersNext, TimerStep, SyncStep, TickStarts, TickReads, TickSkips, ManualReads,
         FileReads, RowUnfit, Find, SaveRow, RowFails, RowsDone, Remove, SyncThrows, OfficeReads,
         SubmissionReads, Reads, EditStep, WriteMoves, RowMoves, TakeOut, Writes, WriteFails, LinkChanges, OrdersCrash, ordersVars
<1> SUFFICES ASSUME AllRead'
             PROVE  /\ links' = SheetLinks
                    /\ \A p \in Importers \ {"file"} :
                          /\ UnseenFit(imports[p])'
                          /\ \A i \in imports'[p].doomed : KeysBy(i)' \subseteq gone'
  BY <1>1 DEF UnseenAreGone
<1>2. gone \subseteq gone' /\ AllRead /\ links = SheetLinks
  BY GoneGrows DEF UnseenAreGone
<1>3. ~Spend("tab") /\ ~Spend("link")
  BY SpendCounts DEF AllRead
<1>4. links' = SheetLinks
  BY ZenonT(40), <1>2, <1>3 DEF OrdersNext, TimerStep, SyncStep, TickStarts, TickReads, TickSkips, ManualReads,
         FileReads, RowUnfit, Find, SaveRow, RowFails, RowsDone, Remove, SyncThrows, OfficeReads,
         SubmissionReads, Reads, EditStep, WriteMoves, RowMoves, TakeOut, Writes, WriteFails, RowChanges, LinkChanges, OrdersCrash, ordersVars, linkState
<1>5. ASSUME NEW p \in Importers \ {"file"}, UnseenFit(imports'[p]) PROVE UnseenFit(imports[p])'
  BY <1>2, <1>5 DEF UnseenFit
<1>6. ASSUME NEW p \in Importers \ {"file"}, UnseenFit(imports'[p]),
             imports'[p].doomed \subseteq imports[p].doomed
             \/ (/\ imports[p].phase = "rows" /\ Removable(p)
                 /\ imports'[p].doomed \subseteq Missing(p))
      PROVE  /\ UnseenFit(imports[p])'
             /\ \A i \in imports'[p].doomed : KeysBy(i)' \subseteq gone'
  <2> SUFFICES ASSUME NEW i \in imports'[p].doomed PROVE KeysBy(i)' \subseteq gone'
    BY <1>5, <1>6
  <2>1. i \in OrderIds /\ KeysBy(i) \subseteq gone /\ i \notin FreshIds
    <3>1. CASE i \in imports[p].doomed
      BY <1>2, <3>1, FreshSays DEF UnseenAreGone, OrdersTypeOK, Import
    <3>2. CASE imports[p].phase = "rows" /\ Removable(p) /\ i \in Missing(p)
      BY <1>2, <3>2, MissingAreGone, FreshSays DEF Missing, Listed
    <3> QED BY <1>6, <3>1, <3>2
  <2>2. KeysBy(i)' \subseteq KeysBy(i)
    BY <2>1, KeysStep
  <2> QED BY <1>2, <2>1, <2>2
<1>7. ASSUME NEW p \in Importers, NEW w, Becomes(p, w),
             p # "file" => UnseenFit(w),
             p # "file" => \/ w.doomed \subseteq imports[p].doomed
                           \/ /\ imports[p].phase = "rows" /\ Removable(p)
                              /\ w.doomed \subseteq Missing(p)
      PROVE  \A q \in Importers \ {"file"} :
                /\ UnseenFit(imports[q])'
                /\ \A i \in imports'[q].doomed : KeysBy(i)' \subseteq gone'
  <2> TAKE q \in Importers \ {"file"}
  <2>1. CASE q = p
    <3>1. imports'[q] = w
      BY <1>7, <2>1 DEF Becomes, OrdersTypeOK
    <3> QED BY <1>6, <1>7, <2>1, <3>1
  <2>2. CASE q # p
    <3>1. imports'[q] = imports[q]
      BY <1>7, <2>2 DEF Becomes, OrdersTypeOK
    <3>2. UnseenFit(imports[q])
      BY <1>2 DEF UnseenAreGone
    <3> QED BY <1>6, <3>1, <3>2
  <2> QED BY <2>1, <2>2
<1> DEFINE Kept == \A q \in Importers \ {"file"} :
                      /\ UnseenFit(imports[q])'
                      /\ \A i \in imports'[q].doomed : KeysBy(i)' \subseteq gone'
<1>8. ASSUME UNCHANGED imports PROVE Kept
  BY <1>2, <1>6, <1>8 DEF UnseenAreGone
<1>9. ASSUME NEW p \in Importers, NEW l, Read(p, l, {}) PROVE Kept
  <2> DEFINE rows == RowsOf(l, {})
             drafts == [k \in OrderKeys |-> IF k \in rows THEN sheet[k] ELSE None]
             w == [IdleImport EXCEPT !.phase = "rows", !.link = l, !.todo = rows, !.drafts = drafts]
  <2>1. Becomes(p, w)
    BY <1>9 DEF Read
  <2>2. \A k \in OrderKeys : LinkOf[k] = l /\ drafts[k] = None => k \in gone
    BY DEF RowsOf, UnseenAreGone
  <2> HIDE DEF drafts, rows
  <2>3. UnseenFit(w) /\ w.doomed = {}
    BY <2>2 DEF UnseenFit, IdleImport
  <2> HIDE DEF w
  <2> QED BY <1>7, <2>1, <2>3
<1>10. ASSUME NEW p \in Importers, Becomes(p, IdleImport) PROVE Kept
  <2>1. UnseenFit(IdleImport) /\ IdleImport.doomed = {}
    BY DEF UnseenFit, IdleImport
  <2> QED BY <1>7, <1>10, <2>1
<1>11. ASSUME NEW p \in Importers, NEW w, Becomes(p, w), imports[p].phase # "idle",
              w.link = imports[p].link, w.drafts = imports[p].drafts,
              w.failed \/ w.failed = imports[p].failed, w.doomed \subseteq imports[p].doomed
       PROVE  Kept
  <2>1. p # "file" => UnseenFit(w)
    BY <1>2, <1>11 DEF UnseenAreGone, UnseenFit
  <2> QED BY <1>7, <1>11, <2>1
<1>12. ASSUME NEW l \in SheetLinks, TickReads(l) PROVE Kept
  <2>1. "tick" \in Importers /\ Read("tick", l, {})
    BY <1>3, <1>12 DEF TickReads, Importers
  <2> QED BY <1>9, <2>1
<1>13. ASSUME NEW l \in SheetLinks, ManualReads(l) PROVE Kept
  <2>1. "manual" \in Importers /\ Read("manual", l, {})
    BY <1>13 DEF ManualReads, Importers
  <2> QED BY <1>9, <2>1
<1>14. ASSUME NEW k \in OrderKeys, NEW v \in RowValues, FileReads(k, v) PROVE Kept
  <2>1. "file" \in Importers
    BY DEF Importers
  <2> QED BY <1>7, <1>14, <2>1 DEF FileReads
<1>15. ASSUME NEW p \in Importers, NEW k \in OrderKeys, RowUnfit(p, k) PROVE Kept
  <2> DEFINE w == [imports[p] EXCEPT !.todo = @ \ {k}, !.drafts[k] = None, !.failed = TRUE]
  <2>1. Becomes(p, w) /\ imports[p] \in Import
    BY <1>15 DEF RowUnfit, OrdersTypeOK
  <2>2. UnseenFit(w) /\ w.doomed = imports[p].doomed
    BY <2>1 DEF UnseenFit, Import
  <2> HIDE DEF w
  <2> QED BY <1>7, <2>1, <2>2
<1>16. ASSUME NEW p \in Importers, NEW k \in OrderKeys, Find(p, k) PROVE Kept
  <2>1. imports[p] \in Import /\ imports[p].phase = "rows"
    BY <1>16 DEF Find, OrdersTypeOK
  <2>2. CASE Becomes(p, [imports[p] EXCEPT !.phase = "save", !.todo = @ \ {k}, !.key = k])
    BY <1>11, <2>1, <2>2 DEF Import
  <2>3. CASE Becomes(p, [imports[p] EXCEPT !.todo = @ \ {k}])
    BY <1>11, <2>1, <2>3 DEF Import
  <2>4. ASSUME NEW j, Becomes(p, [imports[p] EXCEPT !.phase = "save", !.todo = @ \ {k}, !.key = k,
                                             !.id = j, !.copy = orders[j]])
        PROVE  Kept
    BY <1>11, <2>1, <2>4 DEF Import
  <2> QED BY <1>16, <2>2, <2>3, <2>4 DEF Find
<1>17. ASSUME NEW p \in Importers, SaveRow(p) \/ RowFails(p) PROVE Kept
  <2>1. imports[p] \in Import /\ imports[p].phase = "save"
    BY <1>17 DEF SaveRow, RowFails, OrdersTypeOK
  <2>2. CASE Becomes(p, Answered(p))
    BY <1>11, <2>1, <2>2 DEF Answered, Import
  <2>3. CASE Becomes(p, [Answered(p) EXCEPT !.failed = TRUE])
    BY <1>11, <2>1, <2>3 DEF Answered, Import
  <2> QED BY <1>17, <2>2, <2>3 DEF SaveRow, RowFails
<1>18. ASSUME NEW p \in Importers, RowsDone(p) PROVE Kept
  <2>1. imports[p] \in Import /\ imports[p].phase = "rows"
    BY <1>18 DEF RowsDone, OrdersTypeOK
  <2>2. CASE Becomes(p, IdleImport)
    BY <1>10, <2>2
  <2>3. CASE /\ p # "file" /\ Removable(p)
             /\ Becomes(p, [imports[p] EXCEPT !.phase = "remove", !.doomed = Missing(p)])
    <3> DEFINE w == [imports[p] EXCEPT !.phase = "remove", !.doomed = Missing(p)]
    <3>1. /\ w.doomed = Missing(p) /\ w.link = imports[p].link /\ w.drafts = imports[p].drafts
          /\ w.failed = imports[p].failed
      BY <2>1 DEF Import
    <3>2. UnseenFit(w)
      BY <1>2, <2>1, <2>3, <3>1 DEF UnseenAreGone, UnseenFit
    <3>3. Becomes(p, w)
      BY <2>3
    <3> HIDE DEF w
    <3> QED BY <1>7, <2>1, <2>3, <3>1, <3>2, <3>3
  <2> QED BY <1>18, <2>2, <2>3 DEF RowsDone
<1>19. ASSUME NEW p \in Importers, NEW i \in OrderIds, Remove(p, i) PROVE Kept
  <2>1. imports[p] \in Import /\ imports[p].phase = "remove"
    BY <1>19 DEF Remove, OrdersTypeOK, HoldersFit, ImportFits
  <2>2. CASE Becomes(p, IdleImport)
    BY <1>10, <2>2
  <2>3. CASE Becomes(p, [imports[p] EXCEPT !.doomed = imports[p].doomed \ {i}])
    BY <1>11, <2>1, <2>3 DEF Import
  <2> QED BY <1>19, <2>2, <2>3 DEF Remove
<1>20. ASSUME NEW p \in Importers, SyncThrows(p) PROVE Kept
  BY <1>10, <1>20 DEF SyncThrows
<1>21. ASSUME OrdersCrash PROVE Kept
  <2>1. \A p \in Importers : imports'[p] = IdleImport
    BY <1>21 DEF OrdersCrash
  <2>2. UnseenFit(IdleImport) /\ IdleImport.doomed = {}
    BY DEF UnseenFit, IdleImport
  <2> QED BY <1>6, <2>1, <2>2
<1>22. Kept
  BY <1>8, <1>12, <1>13, <1>14, <1>15, <1>16, <1>17, <1>18, <1>19, <1>20, <1>21
  DEF OrdersNext, TimerStep, SyncStep, TickStarts, TickSkips, OfficeReads, SubmissionReads, Reads, EditStep,
      WriteMoves, RowMoves, Writes, WriteFails, RowChanges, LinkChanges, ordersVars
<1> QED BY <1>4, <1>22

----------------------------------------------------------------------------
(* What the holders of an answer know *)

LEMMA CrossedGrows == ASSUME [OrdersNext]_<<ordersVars, spent>> PROVE crossed \subseteq crossed'
BY ZenonT(40) DEF OrdersNext, TimerStep, SyncStep, TickStarts, TickReads, TickSkips, ManualReads, FileReads, RowUnfit,
   Find, RowMoves, SaveRow, RowFails, RowsDone, Remove, SyncThrows, OfficeReads, SubmissionReads, Reads, EditStep,
   WriteMoves, TakeOut, Writes, WriteFails, RowChanges, LinkChanges, OrdersCrash, Cross, ordersVars

\* Only what is in the list is picked for deletion.
LEMMA DoomedListed ==
    ASSUME OrdersTypeOK, HoldersFit, [OrdersNext]_<<ordersVars, spent>>, NEW p \in Importers
    PROVE  imports'[p].doomed \subseteq imports[p].doomed \cup Listed
<1> DEFINE Goal == imports'[p].doomed \subseteq imports[p].doomed \cup Listed
<1>1. ASSUME NEW q \in Importers, NEW w, Becomes(q, w), w.doomed \subseteq imports[q].doomed \cup Listed PROVE Goal
  BY <1>1 DEF Becomes, OrdersTypeOK
<1>2. ASSUME NEW q \in Importers, NEW l, NEW lost, Read(q, l, lost) PROVE Goal
  BY <1>1, <1>2 DEF Read, IdleImport
<1>3. ASSUME NEW l, TickReads(l) \/ ManualReads(l) PROVE Goal
  <2>1. "tick" \in Importers /\ "manual" \in Importers
    BY DEF Importers
  <2> QED BY <1>2, <1>3, <2>1 DEF TickReads, ManualReads
<1>4. ASSUME NEW k, NEW v, FileReads(k, v) PROVE Goal
  <2>1. "file" \in Importers
    BY DEF Importers
  <2> QED BY <1>1, <1>4, <2>1 DEF FileReads, IdleImport
<1>5. ASSUME NEW q \in Importers, NEW k, RowUnfit(q, k) \/ Find(q, k) PROVE Goal
  <2>1. imports[q] \in Import
    BY DEF OrdersTypeOK
  <2>2. \E w : Becomes(q, w) /\ w.doomed = imports[q].doomed
    <3> DEFINE unfit == [imports[q] EXCEPT !.todo = @ \ {k}, !.drafts[k] = None, !.failed = TRUE]
               new == [imports[q] EXCEPT !.phase = "save", !.todo = @ \ {k}, !.key = k]
               same == [imports[q] EXCEPT !.todo = @ \ {k}]
               old(i) == [imports[q] EXCEPT !.phase = "save", !.todo = @ \ {k}, !.key = k,
                                            !.id = i, !.copy = orders[i]]
    <3>1. /\ unfit.doomed = imports[q].doomed /\ new.doomed = imports[q].doomed
          /\ same.doomed = imports[q].doomed /\ \A i : old(i).doomed = imports[q].doomed
      BY <2>1 DEF Import
    <3>2. Becomes(q, unfit) \/ Becomes(q, new) \/ Becomes(q, same) \/ \E i : Becomes(q, old(i))
      BY <1>5, Zenon DEF RowUnfit, Find
    <3> HIDE DEF unfit, new, same, old
    <3> QED BY <3>1, <3>2
  <2> QED BY <1>1, <2>2
<1>6. ASSUME NEW q \in Importers, SaveRow(q) \/ RowFails(q) PROVE Goal
  <2>1. imports[q] \in Import
    BY DEF OrdersTypeOK
  <2>2. \E w : Becomes(q, w) /\ w.doomed = imports[q].doomed
    <3> DEFINE done == Answered(q)
               unsaved == [Answered(q) EXCEPT !.failed = TRUE]
    <3>1. done.doomed = imports[q].doomed /\ unsaved.doomed = imports[q].doomed
      BY <2>1 DEF Answered, Import
    <3>2. Becomes(q, done) \/ Becomes(q, unsaved)
      BY <1>6 DEF SaveRow, RowFails
    <3> HIDE DEF done, unsaved
    <3> QED BY <3>1, <3>2
  <2> QED BY <1>1, <2>2
<1>7. ASSUME NEW q \in Importers, NEW i, RowsDone(q) \/ Remove(q, i) \/ SyncThrows(q) PROVE Goal
  <2>1. imports[q] \in Import
    BY DEF OrdersTypeOK
  <2>2. \E w : Becomes(q, w) /\ w.doomed \subseteq imports[q].doomed \cup Listed
    <3> DEFINE found == [imports[q] EXCEPT !.phase = "remove", !.doomed = Missing(q)]
               rest == [imports[q] EXCEPT !.doomed = imports[q].doomed \ {i}]
    <3>1. found.doomed \subseteq Listed /\ rest.doomed \subseteq imports[q].doomed /\ IdleImport.doomed = {}
      BY <2>1 DEF Missing, IdleImport, Import
    <3>2. Becomes(q, IdleImport) \/ Becomes(q, found) \/ Becomes(q, rest)
      BY <1>7 DEF RowsDone, Remove, SyncThrows
    <3> HIDE DEF found, rest
    <3> QED BY <3>1, <3>2
  <2> QED BY <1>1, <2>2
<1>8. ASSUME OrdersCrash PROVE Goal
  BY <1>8 DEF OrdersCrash, IdleImport
<1> QED BY <1>3, <1>4, <1>5, <1>6, <1>7, <1>8
        DEF OrdersNext, TimerStep, SyncStep, EditStep, TickStarts, TickSkips, RowMoves, WriteMoves, OfficeReads,
            SubmissionReads, Reads, Writes, WriteFails, RowChanges, LinkChanges, ordersVars

\* A write under another key leaves the answers about k as they are.
LEMMA OtherKeysStay ==
    ASSUME NEW k \in OrderKeys, AnswersHold(k), orders \in [OrderIds -> Orders \cup {None}],
           NEW n \in OrderIds, NEW o, orders' = [orders EXCEPT ![n] = o],
           orders[n] # None => orders[n].key # k,
           o # None => o.key # k,
           \A p \in Importers : /\ ImportAnswers(imports'[p], p \in moving', k)
                                /\ Saves(p)' /\ imports'[p].key = k => imports'[p].id # n,
           \A e \in Editors : /\ EditAnswers(edits'[e], e \in moving', k)
                              /\ Busy(e)' /\ edits'[e].copy.key = k => edits'[e].id # n
    PROVE  AnswersHold(k)'
<1>1. WithKey(k)' = WithKey(k) /\ n \notin WithKey(k)
  BY DEF WithKey, Listed
<1>2. \A i : i # n => orders'[i] = orders[i]
  OBVIOUS
<1>3. ASSUME NEW p \in Importers PROVE ImportAnswers(imports[p], p \in moving, k)'
  BY <1>1, <1>2 DEF ImportAnswers, Saves
<1>4. ASSUME NEW e \in Editors PROVE EditAnswers(edits[e], e \in moving, k)'
  BY <1>1, <1>2 DEF EditAnswers, Busy, AnswersHold
<1> QED BY <1>1, <1>3, <1>4 DEF AnswersHold

\* A write under key k while nobody else holds an answer about it.
LEMMA OwnKeyAlone ==
    ASSUME NEW k \in OrderKeys, AnswersHold(k), orders \in [OrderIds -> Orders \cup {None}],
           NEW n \in OrderIds, NEW o, orders' = [orders EXCEPT ![n] = o],
           n \in WithKey(k) \/ WithKey(k) = {} \/ o = None,
           \A p \in Importers : /\ ~(Saves(p)' /\ imports'[p].key = k)
                                /\ \A i \in imports'[p].doomed :
                                      i # n /\ (i \in WithKey(k) => orders[i].status # "SUBMITTED"),
           \A e \in Editors : ~(Busy(e)' /\ edits'[e].copy.key = k)
    PROVE  AnswersHold(k)'
<1>1. \A i \in WithKey(k)' : i = n \/ (i \in WithKey(k) /\ orders'[i] = orders[i])
  BY DEF WithKey, Listed
<1>2. \A i, j \in WithKey(k)' : i = j
  BY <1>1 DEF AnswersHold, WithKey, Listed
<1>3. ASSUME NEW p \in Importers PROVE ImportAnswers(imports[p], p \in moving, k)'
  BY <1>1 DEF ImportAnswers, Saves
<1>4. ASSUME NEW e \in Editors PROVE EditAnswers(edits[e], e \in moving, k)'
  BY DEF EditAnswers, Busy
<1> QED BY <1>2, <1>3, <1>4 DEF AnswersHold

\* When nobody else crossed the writer's key, nobody else holds it.
LEMMA Uncrossed ==
    ASSUME OrdersTypeOK, HoldersFit, NEW a \in Importers \cup Editors, NEW k \in OrderKeys, NEW ks,
           Cross(a, ks), k \in ks, k \notin crossed'
    PROVE  /\ \A p \in Importers \ {a} : /\ ~(Saves(p) /\ imports[p].key = k)
                                         /\ imports[p].doomed \cap WithKey(k) = {}
           /\ \A e \in Editors \ {a} : ~(Busy(e) /\ edits[e].copy.key = k)
<1>1. \A b \in (Importers \cup Editors) \ {a} : k \notin Held(b)
  BY DEF Cross
<1>2. ASSUME NEW p \in Importers \ {a}
      PROVE  ~(Saves(p) /\ imports[p].key = k) /\ imports[p].doomed \cap WithKey(k) = {}
  <2>1. p \notin Editors
    BY DEF Importers, Editors
  <2> QED BY <1>1, <2>1 DEF Held, Saves, WithKey
<1>3. ASSUME NEW e \in Editors \ {a} PROVE ~(Busy(e) /\ edits[e].copy.key = k)
  <2>1. Busy(e) => edits[e].copy # None
    BY WorkOrdersAssumption DEF HoldersFit, EditFits, Busy
  <2> QED BY <1>1, <2>1 DEF Held
<1> QED BY <1>2, <1>3

\* As long as its key is not crossed, every answer is still the store's.
LEMMA AnswersStep ==
    ASSUME OrdersTypeOK, HoldersFit, MoversFit, IdsHaveOneKey, [OrdersNext]_<<ordersVars, spent>>,
           NEW k \in OrderKeys, k \notin crossed', k \notin crossed => AnswersHold(k) /\ MoverAlone(k)
    PROVE  AnswersHold(k)'
<1>0. None \notin OrderIds /\ None \notin Orders
  BY WorkOrdersAssumption
<1>1. k \notin crossed /\ AnswersHold(k) /\ MoverAlone(k)
  BY CrossedGrows
<1>2. orders \in [OrderIds -> Orders \cup {None}]
  BY DEF OrdersTypeOK
<1>3. ASSUME UNCHANGED <<orders, imports, edits, moving>> PROVE AnswersHold(k)'
  BY <1>1, <1>3 DEF AnswersHold, ImportAnswers, EditAnswers, WithKey, Listed
<1>4. ASSUME NEW p \in Importers, NEW w, Becomes(p, w), ImportAnswers(w, p \in moving', k),
             UNCHANGED <<orders, edits>>, moving' \in {moving, moving \ {p}}
      PROVE  AnswersHold(k)'
  <2>1. \A q \in Importers : q # p => imports'[q] = imports[q] /\ (q \in moving' <=> q \in moving)
    BY <1>4 DEF Becomes, OrdersTypeOK
  <2>2. imports'[p] = w /\ \A e \in Editors : (e \in moving' <=> e \in moving)
    BY <1>4 DEF Becomes, OrdersTypeOK, Importers, Editors
  <2> QED BY <2>2, <1>1, <1>4, <2>1 DEF AnswersHold, ImportAnswers, EditAnswers, WithKey, Listed
<1>5. ASSUME NEW e \in Editors, NEW w, edits' = [edits EXCEPT ![e] = w], EditAnswers(w, e \in moving', k),
             UNCHANGED <<orders, imports>>, moving' \in {moving, moving \ {e}}
      PROVE  AnswersHold(k)'
  <2>1. \A f \in Editors : f # e => edits'[f] = edits[f] /\ (f \in moving' <=> f \in moving)
    BY <1>5 DEF OrdersTypeOK
  <2>2. edits'[e] = w /\ \A p \in Importers : (p \in moving' <=> p \in moving)
    BY <1>5 DEF OrdersTypeOK, Importers, Editors
  <2> QED BY <2>2, <1>1, <1>5, <2>1 DEF AnswersHold, ImportAnswers, EditAnswers, WithKey, Listed
<1>6. \A out : ImportAnswers(IdleImport, out, k) /\ EditAnswers(IdleEdit, out, k)
  BY DEF ImportAnswers, EditAnswers, IdleImport, IdleEdit
<1>7. ASSUME NEW p \in Importers, NEW w, Becomes(p, w), w.phase # "save", w.doomed = imports[p].doomed,
             UNCHANGED <<orders, edits>>, moving' \in {moving, moving \ {p}}
      PROVE  AnswersHold(k)'
  BY <1>1, <1>4, <1>7 DEF AnswersHold, ImportAnswers
<1>8. ASSUME NEW p \in Importers, NEW l, NEW lost, Read(p, l, lost), UNCHANGED <<orders, edits, moving>>
      PROVE  AnswersHold(k)'
  <2> DEFINE rows == RowsOf(l, lost)
             w == [IdleImport EXCEPT !.phase = "rows", !.link = l, !.todo = rows,
                      !.drafts = [j \in OrderKeys |-> IF j \in rows THEN sheet[j] ELSE None]]
  <2>1. Becomes(p, w)
    BY <1>8 DEF Read
  <2>2. \A out : ImportAnswers(w, out, k)
    BY DEF IdleImport, ImportAnswers
  <2> HIDE DEF w
  <2> QED BY <1>4, <1>8, <2>1, <2>2
<1>9. ASSUME NEW l \in SheetLinks, TickReads(l) \/ ManualReads(l) PROVE AnswersHold(k)'
  <2>1. "tick" \in Importers /\ "manual" \in Importers
    BY DEF Importers
  <2> QED BY <1>8, <1>9, <2>1 DEF TickReads, ManualReads
<1>10. ASSUME NEW j \in OrderKeys, NEW v \in RowValues, FileReads(j, v) PROVE AnswersHold(k)'
  <2> DEFINE w == [IdleImport EXCEPT !.phase = "rows", !.todo = {j}, !.drafts[j] = v]
  <2>1. Becomes("file", w) /\ "file" \in Importers
    BY <1>10 DEF FileReads, Importers
  <2>2. \A out : ImportAnswers(w, out, k)
    BY DEF IdleImport, ImportAnswers
  <2> HIDE DEF w
  <2> QED BY <1>4, <1>10, <2>1, <2>2 DEF FileReads
<1>11. ASSUME NEW p \in Importers, NEW j \in OrderKeys, RowUnfit(p, j) PROVE AnswersHold(k)'
  <2> DEFINE w == [imports[p] EXCEPT !.todo = @ \ {j}, !.drafts[j] = None, !.failed = TRUE]
  <2>1. Becomes(p, w) /\ imports[p] \in Import /\ imports[p].phase = "rows"
    BY <1>11 DEF RowUnfit, OrdersTypeOK
  <2>2. w.phase = "rows" /\ w.doomed = imports[p].doomed
    BY <2>1 DEF Import
  <2> HIDE DEF w
  <2> QED BY <1>7, <1>11, <2>1, <2>2 DEF RowUnfit
<1>12. ASSUME NEW p \in Importers, NEW j \in OrderKeys, Find(p, j) PROVE AnswersHold(k)'
  <2>1. /\ imports[p] \in Import /\ imports[p].phase = "rows" /\ imports[p].id = None
        /\ imports[p].doomed = {} /\ UNCHANGED <<orders, edits, moving>> /\ p \notin moving'
    BY <1>12 DEF Find, OrdersTypeOK, HoldersFit, ImportFits, MoversFit, Saves, Importers, Editors
  <2>2. CASE /\ FoundBy(j) = {}
             /\ Becomes(p, [imports[p] EXCEPT !.phase = "save", !.todo = @ \ {j}, !.key = j])
    <3> DEFINE w == [imports[p] EXCEPT !.phase = "save", !.todo = @ \ {j}, !.key = j]
    <3>1. w.key = j /\ w.id = None /\ w.doomed = {}
      BY <2>1 DEF Import
    <3>2. \A out : ImportAnswers(w, out, k)
      BY <2>2, <3>1 DEF ImportAnswers, FoundBy
    <3>3. Becomes(p, w)
      BY <2>2
    <3> HIDE DEF w
    <3> QED BY <1>4, <2>1, <3>2, <3>3
  <2>3. CASE Becomes(p, [imports[p] EXCEPT !.todo = @ \ {j}])
    <3> DEFINE w == [imports[p] EXCEPT !.todo = @ \ {j}]
    <3>1. w.phase = "rows" /\ w.doomed = imports[p].doomed
      BY <2>1 DEF Import
    <3>2. Becomes(p, w)
      BY <2>3
    <3> HIDE DEF w
    <3> QED BY <1>7, <2>1, <3>1, <3>2
  <2>4. ASSUME NEW i \in OrderIds,
               Becomes(p, [imports[p] EXCEPT !.phase = "save", !.todo = @ \ {j}, !.key = j,
                                             !.id = i, !.copy = orders[i]])
        PROVE  AnswersHold(k)'
    <3> DEFINE w == [imports[p] EXCEPT !.phase = "save", !.todo = @ \ {j}, !.key = j,
                                             !.id = i, !.copy = orders[i]]
    <3>1. w.id = i /\ w.copy = orders[i] /\ w.doomed = {}
      BY <2>1 DEF Import
    <3>2. ImportAnswers(w, p \in moving', k)
      BY <1>0, <2>1, <3>1 DEF ImportAnswers
    <3>3. Becomes(p, w)
      BY <2>4
    <3> HIDE DEF w
    <3> QED BY <1>4, <2>1, <3>2, <3>3
  <2>5. \A i \in FoundBy(j) : i \in OrderIds
    BY DEF FoundBy, WithKey, Listed
  <2> QED BY <1>12, <2>2, <2>3, <2>4, <2>5 DEF Find
<1>13. ASSUME NEW p \in Importers, RowFails(p) PROVE AnswersHold(k)'
  <2>1. imports[p] \in Import
    BY DEF OrdersTypeOK
  <2> DEFINE w == [Answered(p) EXCEPT !.failed = TRUE]
  <2>2. w.phase = "rows" /\ w.doomed = imports[p].doomed
    BY <2>1 DEF Import, Answered
  <2>3. Becomes(p, w)
    BY <1>13 DEF RowFails
  <2> HIDE DEF w
  <2> QED BY <1>7, <1>13, <2>2, <2>3 DEF RowFails
<1>14. ASSUME NEW p \in Importers, RowsDone(p) PROVE AnswersHold(k)'
  <2>1. imports[p] \in Import /\ UNCHANGED <<orders, edits, moving>>
    BY <1>14 DEF RowsDone, OrdersTypeOK
  <2>2. CASE Becomes(p, IdleImport)
    BY <1>4, <1>6, <2>1, <2>2
  <2>3. CASE Becomes(p, [imports[p] EXCEPT !.phase = "remove", !.doomed = Missing(p)])
    <3> DEFINE w == [imports[p] EXCEPT !.phase = "remove", !.doomed = Missing(p)]
    <3>1. w.phase = "remove" /\ w.doomed = Missing(p)
      BY <2>1 DEF Import
    <3>2. \A out : ImportAnswers(w, out, k)
      BY <3>1 DEF ImportAnswers, Missing
    <3>3. Becomes(p, w)
      BY <2>3
    <3> HIDE DEF w
    <3> QED BY <1>4, <2>1, <3>2, <3>3
  <2> QED BY <1>14, <2>2, <2>3 DEF RowsDone
<1>15. ASSUME NEW p \in Importers, SyncThrows(p) PROVE AnswersHold(k)'
  BY <1>4, <1>6, <1>15 DEF SyncThrows
<1>16. ASSUME NEW e \in Editors, NEW op, NEW i \in OrderIds, Reads(e, op, i) PROVE AnswersHold(k)'
  <2>1. e \notin moving /\ UNCHANGED <<orders, imports, moving>>
    BY <1>16 DEF Reads, MoversFit, Busy
  <2>2. EditAnswers([op |-> op, id |-> i, copy |-> orders[i]], e \in moving', k)
    BY <2>1 DEF EditAnswers
  <2> QED BY <1>5, <1>16, <2>1, <2>2 DEF Reads
<1>17. ASSUME NEW i \in OrderIds, NEW op, OfficeReads(op, i) \/ SubmissionReads(i) PROVE AnswersHold(k)'
  BY <1>16, <1>17 DEF OfficeReads, SubmissionReads, Editors
<1>18. ASSUME NEW e \in Editors, WriteFails(e) PROVE AnswersHold(k)'
  BY <1>5, <1>6, <1>18 DEF WriteFails
<1>19. ASSUME OrdersCrash PROVE AnswersHold(k)'
  BY <1>1, <1>6, <1>19 DEF OrdersCrash, AnswersHold, ImportAnswers, EditAnswers, WithKey, Listed
<1>20. ASSUME NEW p \in Importers, SaveRow(p) PROVE AnswersHold(k)'
  <2> DEFINE w == imports[p]
             n == IF w.id = None THEN FreshId ELSE w.id
  <2>1. /\ w \in Import /\ ImportFits(p, w) /\ Saves(p) /\ w.doomed = {} /\ w.key \in OrderKeys
        /\ UNCHANGED edits /\ Becomes(p, Answered(p)) /\ Cross(p, {w.key}) /\ moving' = moving \ {p}
        /\ p \notin Editors
    BY <1>20 DEF SaveRow, OrdersTypeOK, HoldersFit, ImportFits, Saves, Importers, Editors
  <2>2. Answered(p).phase = "rows" /\ Answered(p).doomed = {}
    BY <2>1 DEF Answered, Import
  <2>3. w.id = None => FreshId \in FreshIds
    BY <1>20 DEF SaveRow, FreshId
  <2>4. n \in OrderIds /\ (w.id = None => n \in FreshIds) /\ (w.id # None => n = w.id)
    BY <2>1, <2>3, FreshSays DEF ImportFits, Saves
  <2>5. PICK o \in Orders : o.key = w.key /\ orders' = [orders EXCEPT ![n] = o]
    BY <1>20, <2>1, RowTypes DEF SaveRow, Updated
  <2> HIDE DEF n
  <2>6. /\ imports'[p] = Answered(p)
        /\ \A q \in Importers \ {p} : imports'[q] = imports[q]
    BY <2>1 DEF Becomes, OrdersTypeOK
  <2>7. /\ orders[n] # None => orders[n].key = w.key
        /\ \A q \in Importers : Saves(q) /\ imports[q].id = n => imports[q].key = w.key
        /\ \A e \in Editors : Busy(e) /\ edits[e].id = n => edits[e].copy.key = w.key
    <3>1. CASE w.id = None
      BY <2>4, <3>1, FreshSays
    <3>2. CASE w.id # None
      BY <2>1, <2>4, <3>2, KeysSay DEF IdsHaveOneKey
    <3> QED BY <3>1, <3>2
  <2>8. CASE k # w.key
    <3>1. ASSUME NEW q \in Importers
          PROVE  /\ ImportAnswers(imports'[q], q \in moving', k)
                 /\ Saves(q)' /\ imports'[q].key = k => imports'[q].id # n
      <4>1. CASE q = p
        BY <2>2, <2>6, <4>1 DEF ImportAnswers, Saves
      <4>2. CASE q # p
        BY <1>1, <2>1, <2>6, <2>7, <2>8, <4>2 DEF AnswersHold, Saves
      <4> QED BY <4>1, <4>2
    <3>2. ASSUME NEW e \in Editors
          PROVE  EditAnswers(edits'[e], e \in moving', k) /\ (Busy(e)' /\ edits'[e].copy.key = k => edits'[e].id # n)
      BY <1>1, <2>1, <2>7, <2>8 DEF AnswersHold, Busy
    <3>3. (orders[n] # None => orders[n].key # k) /\ (o # None => o.key # k)
      BY <2>5, <2>7, <2>8
    <3> QED BY <1>1, <1>2, <2>4, <2>5, <3>1, <3>2, <3>3, OtherKeysStay
  <2>9. CASE k = w.key
    <3>1. /\ \A q \in Importers \ {p} : ~(Saves(q) /\ imports[q].key = k) /\ imports[q].doomed \cap WithKey(k) = {}
          /\ \A e \in Editors : ~(Busy(e) /\ edits[e].copy.key = k)
      <4>1. p \in Importers \cup Editors /\ p \notin Editors
        BY DEF Importers, Editors
      <4> QED BY <2>1, <2>9, <4>1, Uncrossed
    <3>2. n \in WithKey(k) \/ WithKey(k) = {}
      BY <1>0, <1>1, <2>1, <2>4, <2>9 DEF AnswersHold, ImportAnswers, ImportFits, Saves, WithKey, Listed
    <3>3. ASSUME NEW q \in Importers \ {p} PROVE n \notin imports[q].doomed
      <4>1. CASE w.id = None
        BY <2>4, <4>1, FreshSays
      <4>2. CASE p \in moving
        <5>1. w.id # None /\ Holds(p, k) /\ CarriedId(p) = w.id
          BY <2>1, <2>9, <4>2 DEF MoversFit, Holds, CarriedId
        <5> QED BY <1>1, <2>4, <4>2, <5>1 DEF MoverAlone
      <4>3. CASE w.id # None /\ p \notin moving
        <5>1. n \in WithKey(k)
          BY <1>0, <1>1, <2>1, <2>4, <2>9, <4>3 DEF AnswersHold, ImportAnswers, ImportFits, Saves, WithKey, Listed
        <5> QED BY <3>1, <5>1
      <4> QED BY <4>1, <4>2, <4>3
    <3>4. ASSUME NEW q \in Importers
          PROVE  /\ ~(Saves(q)' /\ imports'[q].key = k)
                 /\ \A i \in imports'[q].doomed : i # n /\ (i \in WithKey(k) => orders[i].status # "SUBMITTED")
      <4>1. CASE q = p
        BY <2>2, <2>6, <4>1 DEF Saves
      <4>2. CASE q # p
        BY <2>6, <3>1, <3>3, <4>2 DEF Saves
      <4> QED BY <4>1, <4>2
    <3>5. \A e \in Editors : ~(Busy(e)' /\ edits'[e].copy.key = k)
      BY <2>1, <3>1 DEF Busy
    <3> QED BY <1>1, <1>2, <2>4, <2>5, <3>2, <3>4, <3>5, OwnKeyAlone
  <2> QED BY <2>8, <2>9
<1>21. ASSUME NEW p \in Importers, NEW n \in OrderIds, Remove(p, n) PROVE AnswersHold(k)'
  <2>1. /\ imports[p] \in Import /\ imports[p].phase = "remove" /\ UNCHANGED <<edits, moving>>
        /\ orders' = [orders EXCEPT ![n] = None]
        /\ Cross(p, {orders[j].key : j \in {n} \cap Listed})
    BY <1>21 DEF Remove, OrdersTypeOK, HoldersFit, ImportFits
  <2>2. /\ imports'[p].phase # "save" /\ imports'[p].doomed \subseteq imports[p].doomed \ {n}
        /\ \A q \in Importers \ {p} : imports'[q] = imports[q]
    BY <1>21, <2>1 DEF Remove, Becomes, IdleImport, OrdersTypeOK, Import
  <2>3. \A q \in Importers : ImportAnswers(imports'[q], q \in moving', k)
    BY <1>1, <2>1, <2>2 DEF AnswersHold, ImportAnswers
  <2>4. CASE orders[n] = None
    <3>1. \A i : orders'[i] = orders[i]
      BY <1>2, <2>1, <2>4
    <3>2. WithKey(k)' = WithKey(k)
      BY <3>1 DEF WithKey, Listed
    <3> QED BY <1>1, <2>1, <2>3, <3>1, <3>2 DEF AnswersHold, ImportAnswers, EditAnswers
  <2>5. CASE orders[n] # None /\ orders[n].key # k
    <3>1. /\ \A q \in Importers : Saves(q) /\ imports[q].id = n => imports[q].key # k
          /\ \A e \in Editors : Busy(e) /\ edits[e].id = n => edits[e].copy.key # k
      BY <2>5, KeysSay DEF IdsHaveOneKey
    <3>2. \A q \in Importers : Saves(q)' /\ imports'[q].key = k => imports'[q].id # n
      BY <2>2, <3>1 DEF Saves
    <3>3. \A e \in Editors : EditAnswers(edits'[e], e \in moving', k) /\ (Busy(e)' /\ edits'[e].copy.key = k => edits'[e].id # n)
      BY <1>1, <2>1, <3>1 DEF AnswersHold, Busy
    <3> QED BY <1>1, <1>2, <2>1, <2>3, <2>5, <3>2, <3>3, OtherKeysStay
  <2>6. CASE orders[n] # None /\ orders[n].key = k
    <3>1. n \in WithKey(k)
      BY <2>6 DEF WithKey, Listed
    <3>2. /\ \A q \in Importers \ {p} : ~(Saves(q) /\ imports[q].key = k) /\ imports[q].doomed \cap WithKey(k) = {}
          /\ \A e \in Editors : ~(Busy(e) /\ edits[e].copy.key = k)
      <4>1. p \in Importers \cup Editors /\ p \notin Editors
        BY DEF Importers, Editors
      <4>2. k \in {orders[j].key : j \in {n} \cap Listed}
        BY <2>6 DEF Listed
      <4> QED BY <2>1, <4>1, <4>2, Uncrossed
    <3>3. \A i \in imports'[p].doomed : i # n /\ (i \in WithKey(k) => orders[i].status # "SUBMITTED")
      BY <1>1, <2>2 DEF AnswersHold, ImportAnswers
    <3>4. ASSUME NEW q \in Importers
          PROVE  /\ ~(Saves(q)' /\ imports'[q].key = k)
                 /\ \A i \in imports'[q].doomed : i # n /\ (i \in WithKey(k) => orders[i].status # "SUBMITTED")
      <4>1. CASE q = p
        BY <2>2, <3>3, <4>1 DEF Saves
      <4>2. CASE q # p
        BY <2>2, <3>1, <3>2, <4>2 DEF Saves
      <4> QED BY <4>1, <4>2
    <3>5. \A e \in Editors : ~(Busy(e)' /\ edits'[e].copy.key = k)
      BY <2>1, <3>2 DEF Busy
    <3> QED BY <1>1, <1>2, <2>1, <3>4, <3>5, OwnKeyAlone
  <2> QED BY <2>4, <2>5, <2>6
<1>22. ASSUME NEW e \in Editors, Writes(e) PROVE AnswersHold(k)'
  <2> DEFINE w == edits[e]
             n == w.id
             o == Written(w.op, w.copy)
  <2>1. /\ Busy(e) /\ n \in OrderIds /\ w.copy \in Orders /\ w.copy.key \in OrderKeys
        /\ orders' = [orders EXCEPT ![n] = o] /\ edits' = [edits EXCEPT ![e] = IdleEdit]
        /\ Cross(e, {w.copy.key}) /\ UNCHANGED imports /\ moving' = moving \ {e} /\ e \notin Importers
    BY <1>22 DEF Writes, Busy, HoldersFit, EditFits, Orders, Importers, Editors
  <2>2. o # None => o.key = w.copy.key
    BY <2>1, WrittenTypes
  <2>3. /\ orders[n] # None => orders[n].key = w.copy.key
        /\ \A q \in Importers : Saves(q) /\ imports[q].id = n => imports[q].key = w.copy.key
        /\ \A f \in Editors : Busy(f) /\ edits[f].id = n => edits[f].copy.key = w.copy.key
    BY <2>1, KeysSay DEF IdsHaveOneKey
  <2> HIDE DEF o
  <2>4. IdleEdit.op = "none" /\ \A f \in Editors : edits'[f] = IF f = e THEN IdleEdit ELSE edits[f]
    BY <2>1 DEF OrdersTypeOK, IdleEdit
  <2>5. CASE k # w.copy.key
    <3>1. \A q \in Importers : /\ ImportAnswers(imports'[q], q \in moving', k)
                               /\ Saves(q)' /\ imports'[q].key = k => imports'[q].id # n
      BY <1>1, <2>1, <2>3, <2>5 DEF AnswersHold, Saves
    <3>2. ASSUME NEW f \in Editors
          PROVE  EditAnswers(edits'[f], f \in moving', k) /\ (Busy(f)' /\ edits'[f].copy.key = k => edits'[f].id # n)
      BY <1>1, <1>6, <2>1, <2>3, <2>4, <2>5 DEF AnswersHold, Busy
    <3> QED BY <1>1, <1>2, <2>1, <2>2, <2>3, <2>5, <3>1, <3>2, OtherKeysStay
  <2>6. CASE k = w.copy.key
    <3>1. /\ \A q \in Importers : ~(Saves(q) /\ imports[q].key = k) /\ imports[q].doomed \cap WithKey(k) = {}
          /\ \A f \in Editors \ {e} : ~(Busy(f) /\ edits[f].copy.key = k)
      <4>1. e \in Importers \cup Editors /\ e \notin Importers
        BY DEF Importers, Editors
      <4> QED BY <2>1, <2>6, <4>1, Uncrossed
    <3>2. IF e \in moving THEN WithKey(k) = {} ELSE n \in WithKey(k)
      BY <1>0, <1>1, <2>1, <2>6 DEF AnswersHold, EditAnswers, Busy, WithKey, Listed
    <3>5. \A q \in Importers : n \notin imports[q].doomed
      <4>1. Holds(e, k) /\ CarriedId(e) = n
        BY <2>1, <2>6 DEF Holds, CarriedId
      <4> QED BY <1>1, <3>1, <3>2, <4>1 DEF MoverAlone
    <3>3. \A q \in Importers : /\ ~(Saves(q)' /\ imports'[q].key = k)
                               /\ \A i \in imports'[q].doomed :
                                     i # n /\ (i \in WithKey(k) => orders[i].status # "SUBMITTED")
      BY <2>1, <3>1, <3>5 DEF Saves
    <3>4. \A f \in Editors : ~(Busy(f)' /\ edits'[f].copy.key = k)
      BY <2>4, <3>1 DEF Busy
    <3> QED BY <1>1, <1>2, <2>1, <3>2, <3>3, <3>4, OwnKeyAlone
  <2> QED BY <2>5, <2>6
<1>23. ASSUME NEW a, (a \in Importers /\ RowMoves(a)) \/ (a \in Editors /\ WriteMoves(a)) PROVE AnswersHold(k)'
  <2>1. PICK n \in OrderIds, j \in OrderKeys :
               /\ TakeOut(a, n, j) /\ Holds(a, j) /\ CarriedId(a) = n /\ orders[n] # None /\ a \notin moving
               /\ a \in Editors \/ imports[a].id # None
               /\ UNCHANGED <<imports, edits>>
    BY <1>23, MoveSays
  <2>2. /\ orders' = [orders EXCEPT ![n] = None] /\ moving' = moving \cup {a} /\ Cross(a, {j})
        /\ a \in Importers \cup Editors /\ (a \in Importers <=> a \notin Editors)
    BY <1>23, <2>1 DEF TakeOut, Importers, Editors
  <2>3. /\ orders[n].key = j
        /\ \A q \in Importers : Saves(q) /\ imports[q].id = n => imports[q].key = j
        /\ \A e \in Editors : Busy(e) /\ edits[e].id = n => edits[e].copy.key = j
    <3>1. j \in KeysBy(n)
      BY <2>1, <2>2, KeysSay DEF Holds, CarriedId
    <3> QED BY <2>1, <3>1, KeysSay DEF IdsHaveOneKey
  <2>4. CASE k # j
    <3>1. \A q \in Importers : /\ ImportAnswers(imports'[q], q \in moving', k)
                               /\ Saves(q)' /\ imports'[q].key = k => imports'[q].id # n
      BY <1>1, <2>1, <2>2, <2>3, <2>4 DEF AnswersHold, ImportAnswers, Saves, Holds
    <3>2. \A e \in Editors : /\ EditAnswers(edits'[e], e \in moving', k)
                             /\ Busy(e)' /\ edits'[e].copy.key = k => edits'[e].id # n
      BY <1>1, <2>1, <2>2, <2>3, <2>4 DEF AnswersHold, EditAnswers, Busy, Holds
    <3>3. None \notin Orders
      BY <1>0
    <3> QED BY <1>1, <1>2, <2>2, <2>3, <2>4, <3>1, <3>2, <3>3, OtherKeysStay
  <2>5. CASE k = j
    <3>1. /\ \A q \in Importers \ {a} : ~(Saves(q) /\ imports[q].key = k) /\ imports[q].doomed \cap WithKey(k) = {}
          /\ \A e \in Editors \ {a} : ~(Busy(e) /\ edits[e].copy.key = k)
      BY <2>2, <2>5, Uncrossed
    <3>2. WithKey(k) = {n} /\ WithKey(k)' = {}
      <4>1. n \in WithKey(k)
        BY <2>1, <2>3, <2>5 DEF WithKey, Listed
      <4>2. WithKey(k) = {n}
        BY <1>1, <4>1 DEF AnswersHold
      <4>3. WithKey(k)' \subseteq WithKey(k) \ {n}
        BY <1>2, <2>2 DEF WithKey, Listed
      <4> QED BY <4>2, <4>3
    <3>3. ASSUME NEW q \in Importers PROVE ImportAnswers(imports[q], q \in moving, k)'
      <4>1. CASE q = a
        BY <2>1, <2>2, <3>2, <4>1 DEF ImportAnswers
      <4>2. CASE q # a
        BY <2>1, <3>1, <3>2, <4>2 DEF ImportAnswers, Saves
      <4> QED BY <4>1, <4>2
    <3>4. ASSUME NEW e \in Editors PROVE EditAnswers(edits[e], e \in moving, k)'
      <4>1. CASE e = a
        BY <2>1, <2>2, <3>2, <4>1 DEF EditAnswers
      <4>2. CASE e # a
        BY <2>1, <3>1, <4>2 DEF EditAnswers, Busy
      <4> QED BY <4>1, <4>2
    <3> QED BY <3>2, <3>3, <3>4 DEF AnswersHold
  <2> QED BY <2>4, <2>5
<1> QED BY <1>3, <1>9, <1>10, <1>11, <1>12, <1>13, <1>14, <1>15, <1>17, <1>18, <1>19, <1>20, <1>21, <1>22, <1>23
        DEF OrdersNext, TimerStep, SyncStep, EditStep, TickStarts, TickSkips, RowChanges, LinkChanges, ordersVars, linkState

\* As long as its key is not crossed, an order on its way has one mover only.
LEMMA MoverAloneStep ==
    ASSUME OrdersTypeOK, HoldersFit, MoversFit, IdsHaveOneKey, [OrdersNext]_<<ordersVars, spent>>,
           NEW k \in OrderKeys, k \notin crossed', k \notin crossed => AnswersHold(k) /\ MoverAlone(k)
    PROVE  MoverAlone(k)'
<1>1. k \notin crossed /\ AnswersHold(k) /\ MoverAlone(k)
  BY CrossedGrows
<1>2. \A a \in moving' : /\ a \in Editors => edits'[a] = edits[a]
                         /\ a \in Importers => imports'[a] = imports[a]
                         /\ a \in Importers \cup Editors
  BY MoversStay, MoversFitStep
<1>3. \A a \in moving' : /\ Holds(a, k)' <=> Holds(a, k)
                         /\ CarriedId(a)' = CarriedId(a)
  BY <1>2 DEF Holds, CarriedId, Busy, Saves
<1>4. ASSUME NEW a \in moving, a \in moving', Holds(a, k)
      PROVE  CarriedId(a) \in OrderIds /\ orders[CarriedId(a)] = None /\ \A p \in Importers : CarriedId(a) \notin imports'[p].doomed
  <2>1. WithKey(k) = {} /\ CarriedId(a) \in OrderIds /\ k \in KeysBy(CarriedId(a))
    <3>1. CASE a \in Editors
      <4>1. Busy(a) /\ edits[a].copy.key = k /\ CarriedId(a) = edits[a].id /\ EditFits(a, edits[a])
        BY <1>4, <3>1 DEF Holds, CarriedId, HoldersFit
      <4> QED BY <1>1, <1>4, <3>1, <4>1, KeysSay DEF AnswersHold, EditAnswers, Busy, EditFits
    <3>2. CASE a \notin Editors
      <4>1. a \in Importers /\ Saves(a) /\ imports[a].key = k /\ CarriedId(a) = imports[a].id
            /\ imports[a].id # None /\ ImportFits(a, imports[a])
        BY <1>2, <1>4, <3>2 DEF Holds, CarriedId, HoldersFit, MoversFit
      <4> QED BY <1>1, <1>4, <4>1, KeysSay DEF AnswersHold, ImportAnswers, Saves, ImportFits
    <3> QED BY <3>1, <3>2
  <2>2. orders[CarriedId(a)] = None
    <3>1. orders[CarriedId(a)] # None => orders[CarriedId(a)].key = k
      BY <2>1, KeysSay DEF IdsHaveOneKey
    <3> QED BY <2>1, <3>1 DEF WithKey, Listed
  <2>3. ASSUME NEW p \in Importers PROVE imports'[p].doomed \subseteq imports[p].doomed \cup Listed
    BY DoomedListed
  <2>4. \A p \in Importers : CarriedId(a) \notin imports[p].doomed
    BY <1>1, <1>4 DEF MoverAlone
  <2> QED BY <2>1, <2>2, <2>3, <2>4 DEF Listed
<1>5. CASE moving' \subseteq moving
  <2>1. \A a \in moving' : Holds(a, k) => \A b \in moving' : Holds(b, k) => b = a
    BY <1>1, <1>5 DEF MoverAlone
  <2> QED BY <1>3, <1>4, <1>5, <2>1 DEF MoverAlone
<1>6. ASSUME NEW a, (a \in Importers /\ RowMoves(a)) \/ (a \in Editors /\ WriteMoves(a)) PROVE MoverAlone(k)'
  <2>1. PICK n \in OrderIds, j \in OrderKeys :
               /\ TakeOut(a, n, j) /\ Holds(a, j) /\ CarriedId(a) = n /\ orders[n] # None /\ a \notin moving
               /\ UNCHANGED <<imports, edits>>
    BY <1>6, MoveSays
  <2>2. /\ moving' = moving \cup {a} /\ Cross(a, {j})
        /\ a \in Importers \cup Editors /\ (a \in Importers <=> a \notin Editors)
    BY <1>6, <2>1 DEF TakeOut, Importers, Editors
  <2>3. CASE k # j
    <3>1. ~Holds(a, k)
      BY <2>1, <2>3 DEF Holds
    <3> QED BY <1>1, <1>3, <2>1, <2>2, <3>1 DEF MoverAlone
  <2>4. CASE k = j
    <3>1. /\ \A q \in Importers \ {a} : ~(Saves(q) /\ imports[q].key = k) /\ imports[q].doomed \cap WithKey(k) = {}
          /\ \A e \in Editors \ {a} : ~(Busy(e) /\ edits[e].copy.key = k)
      BY <2>2, <2>4, Uncrossed
    <3>2. \A b \in moving' : Holds(b, k) => b = a
      BY <1>2, <3>1 DEF Holds
    <3>3. n \in WithKey(k)
      <4>1. k \in KeysBy(n)
        BY <2>1, <2>2, <2>4, KeysSay DEF Holds, CarriedId
      <4>2. orders[n].key = k
        BY <2>1, <4>1, KeysSay DEF IdsHaveOneKey
      <4> QED BY <2>1, <4>2 DEF WithKey, Listed
    <3>4. \A q \in Importers : n \notin imports'[q].doomed
      <4>1. a \in Importers => imports[a].doomed = {}
        BY <2>1, <2>2 DEF Holds, Saves, HoldersFit, ImportFits
      <4> QED BY <2>1, <2>2, <3>1, <3>3, <4>1
    <3> QED BY <1>3, <2>1, <2>2, <3>2, <3>4 DEF MoverAlone
  <2> QED BY <2>3, <2>4
<1> QED BY <1>5, <1>6, MoversStay

\* A submission that moves an order was crossed.
LEMMA SubmissionsCrossStep ==
    ASSUME OrdersInv, [OrdersNext]_<<ordersVars, spent>>
    PROVE  SubmissionsCross'
<1>1. OrdersTypeOK /\ HoldersFit /\ MoversFit /\ SubmissionsCross /\ crossed \subseteq crossed'
  BY CrossedGrows DEF OrdersInv
<1>2. CASE "submission" \in moving
  BY <1>1, <1>2, MoversStay DEF SubmissionsCross, Editors
<1>3. CASE "submission" \in moving' \ moving
  <2> DEFINE w == edits["submission"]
  <2>1. "submission" \in Editors /\ "submission" \notin Importers
    BY DEF Editors, Importers
  <2>2. PICK a : /\ (a \in Importers /\ RowMoves(a)) \/ (a \in Editors /\ WriteMoves(a))
    BY <1>1, <1>3, MoversStay
  <2>3. moving' = moving \cup {a}
    BY <2>2 DEF RowMoves, WriteMoves, TakeOut
  <2>4. /\ Busy("submission") /\ Displaced(w.id, Written(w.op, w.copy)) /\ UNCHANGED edits
        /\ "submission" \notin moving
    BY <1>3, <2>1, <2>2, <2>3 DEF WriteMoves, Busy
  <2>5. EditFits("submission", w)
    BY <1>1, <2>1 DEF HoldersFit
  <2>6. w.op = "submit" /\ w.copy \in Orders /\ w.copy.key \in OrderKeys
    BY <2>4, <2>5 DEF EditFits, Busy, Orders
  <2>7. Written(w.op, w.copy).value = w.copy.value
    <3>1. Written(w.op, w.copy) = [w.copy EXCEPT !.status = "SUBMITTED"]
      BY <1>1, <2>1, <2>4, <2>6, WrittenTypes
    <3> QED BY <2>6, <3>1 DEF Orders
  <2>8. orders[w.id] # w.copy
    BY <2>4, <2>7 DEF Displaced
  <2>9. w.copy.key \in crossed
    <3>1. w.copy.key \notin crossed => AnswersHold(w.copy.key)
      BY <2>6 DEF OrdersInv
    <3>2. AnswersHold(w.copy.key) => orders[w.id] = w.copy
      BY <2>1, <2>4 DEF AnswersHold, EditAnswers, Busy
    <3> QED BY <2>8, <3>1, <3>2
  <2> QED BY <1>1, <2>4, <2>9 DEF SubmissionsCross
<1> QED BY <1>2, <1>3 DEF SubmissionsCross

----------------------------------------------------------------------------
(* The theorems *)

LEMMA OrdersInvAlways == OrdersSpec => []OrdersInv
<1>1. OrdersInv /\ [OrdersNext]_<<ordersVars, spent>> => OrdersInv'
  <2> SUFFICES ASSUME OrdersInv, [OrdersNext]_<<ordersVars, spent>> PROVE OrdersInv'
    OBVIOUS
  <2>1. OrdersTypeOK /\ IsABag(spent) /\ HoldersFit /\ MoversFit /\ IdsHaveOneKey /\ UnseenAreGone
    BY DEF OrdersInv
  <2>2. OrdersTypeOK' /\ HoldersFit' /\ MoversFit'
    BY <2>1, OrdersTypeStep, MoversFitStep
  <2>3. IdsHaveOneKey'
    BY <2>1, IdsHaveOneKeyStep
  <2>4. IsABag(spent)' /\ UnseenAreGone'
    BY <2>1, GoneGrows, UnseenStep
  <2>5. ASSUME NEW k \in OrderKeys, k \notin crossed' PROVE AnswersHold(k)' /\ MoverAlone(k)'
    <3>1. k \notin crossed => AnswersHold(k) /\ MoverAlone(k)
      BY DEF OrdersInv
    <3> QED BY <2>1, <2>5, <3>1, AnswersStep, MoverAloneStep
  <2>6. SubmissionsCross'
    BY SubmissionsCrossStep
  <2> QED BY <2>2, <2>3, <2>4, <2>5, <2>6 DEF OrdersInv
<1> QED BY <1>1, OrdersInvInit, PTL DEF OrdersSpec

\* Sheets, links, orders and those who read them keep to their types, whatever
\* syncs, imports, edits and submissions run side by side.
THEOREM OrdersTypeCorrect == OrdersSpec => []OrdersTypeOK
<1>1. OrdersInv => OrdersTypeOK
  BY DEF OrdersInv
<1> QED BY <1>1, OrdersInvAlways, PTL

\* One site is one order: an import that was answered "no such order" writes
\* into a list that still has none under its key, unless another writer was in
\* between.
THEOREM OneOrderPerKeyAlways == OrdersSpec => []OneOrderPerKey
<1>1. OrdersInv => OneOrderPerKey
  <2> SUFFICES ASSUME OrdersInv, NEW k \in OrderKeys \ crossed PROVE Cardinality(WithKey(k)) <= 1
    BY DEF OneOrderPerKey
  <2>1. \A i, j \in WithKey(k) : i = j
    BY DEF OrdersInv, AnswersHold
  <2>2. CASE WithKey(k) = {}
    BY <2>2, FS_EmptySet
  <2>3. ASSUME NEW i \in WithKey(k) PROVE Cardinality(WithKey(k)) <= 1
    <3>1. WithKey(k) = {i}
      BY <2>1, <2>3
    <3> QED BY <3>1, FS_Singleton
  <2> QED BY <2>2, <2>3
<1> QED BY <1>1, OrdersInvAlways, PTL

\* What stands of an order, and who knows it.
LEMMA StandingSays ==
    ASSUME OrdersInv, NEW i \in OrderIds, NEW o \in Standing(i)
    PROVE  /\ o \in Orders /\ o.key \in OrderKeys /\ o.key \in KeysBy(i)
           /\ orders[i] # None => o = orders[i]
           /\ orders[i] = None => \E a \in moving : /\ CarriedId(a) = i /\ Carried(a) = o /\ Holds(a, o.key)
                                                    /\ a \in Importers \cup Editors
                                                    /\ a \in Importers => o.status # "SUBMITTED"
<1>1. /\ OrdersTypeOK /\ HoldersFit /\ MoversFit
  BY DEF OrdersInv
<1>2. CASE orders[i] # None
  BY <1>1, <1>2, KeysSay DEF Standing, OrdersTypeOK, Orders
<1>3. CASE orders[i] = None
  <2>1. PICK a \in moving : CarriedId(a) = i /\ Carried(a) = o
    BY <1>3 DEF Standing
  <2>2. a \in Importers \cup Editors /\ (a \in Importers <=> a \notin Editors)
    BY <1>1 DEF OrdersTypeOK, Importers, Editors
  <2>3. CASE a \in Editors
    <3>1. Busy(a) /\ EditFits(a, edits[a]) /\ edits[a].id = i /\ edits[a].copy = o
      BY <1>1, <2>1, <2>3 DEF HoldersFit, MoversFit, Carried, CarriedId
    <3>2. o \in Orders /\ o.key \in OrderKeys
      BY <3>1 DEF EditFits, Busy, Orders
    <3> QED BY <1>3, <2>1, <2>2, <2>3, <3>1, <3>2, KeysSay DEF Holds
  <2>4. CASE a \in Importers
    <3>1. Saves(a) /\ ImportFits(a, imports[a]) /\ imports[a].id = i /\ imports[a].copy = o /\ imports[a].id # None
      BY <1>1, <2>1, <2>2, <2>4 DEF HoldersFit, MoversFit, Carried, CarriedId
    <3>2. o \in Orders /\ o.key \in OrderKeys /\ o.key = imports[a].key /\ o.status # "SUBMITTED"
      BY <3>1 DEF ImportFits, Saves, Orders
    <3> QED BY <1>3, <2>1, <2>2, <2>4, <3>1, <3>2, KeysSay DEF Holds
  <2> QED BY <2>2, <2>3, <2>4
<1> QED BY <1>2, <1>3

\* Who carries order i knows it under the key it stands under.
LEMMA CarriersAgree ==
    ASSUME OrdersInv, NEW i \in OrderIds, NEW o \in Standing(i), NEW a \in Importers \cup Editors, NEW j,
           Holds(a, j), CarriedId(a) = i
    PROVE  j = o.key
<1>1. j \in KeysBy(i)
  <2>1. CASE a \in Editors
    BY <2>1, KeysSay DEF Holds, CarriedId
  <2>2. CASE a \notin Editors
    BY <2>2, KeysSay DEF Holds, CarriedId
  <2> QED BY <2>1, <2>2
<1> QED BY <1>1, StandingSays DEF OrdersInv, IdsHaveOneKey

\* Of an order whose key nobody crossed one version stands.
LEMMA StandingOne ==
    ASSUME OrdersInv, NEW i \in OrderIds, NEW o \in Standing(i), o.key \notin crossed
    PROVE  Standing(i) = {o}
<1>1. CASE orders[i] # None
  BY <1>1 DEF Standing
<1>2. CASE orders[i] = None
  <2>1. PICK a \in moving : CarriedId(a) = i /\ Carried(a) = o /\ Holds(a, o.key)
    BY <1>2, StandingSays
  <2>2. ASSUME NEW b \in moving, CarriedId(b) = i PROVE b = a
    <3>1. b \in Importers \cup Editors /\ \E j : Holds(b, j)
      <4>1. b \in Importers \cup Editors
        BY DEF OrdersInv, OrdersTypeOK
      <4>2. CASE b \in Editors
        <5>1. Holds(b, edits[b].copy.key)
          BY <4>2 DEF Holds, OrdersInv, MoversFit
        <5> QED BY <4>1, <5>1
      <4>3. CASE b \notin Editors
        <5>1. Holds(b, imports[b].key)
          BY <4>3 DEF Holds, OrdersInv, MoversFit
        <5> QED BY <4>1, <5>1
      <4> QED BY <4>2, <4>3
    <3>2. Holds(b, o.key)
      BY <2>2, <3>1, CarriersAgree
    <3>3. MoverAlone(o.key)
      BY StandingSays DEF OrdersInv
    <3> QED BY <2>1, <3>2, <3>3 DEF MoverAlone
  <2> QED BY <1>2, <2>1, <2>2 DEF Standing
<1> QED BY <1>1, <1>2

UncrossedOnce == \A i \in OrderIds : \A o \in Standing(i) : o.key \notin crossed => Standing(i) = {o}

LEMMA UncrossedStandOnce == OrdersInv => UncrossedOnce
BY StandingOne DEF UncrossedOnce

\* As long as its version stands, nothing was done to an order.
LEMMA StandsOn ==
    ASSUME OrdersInv', NEW i \in OrderIds, NEW o, o \in Standing(i)'
    PROVE  FinishedStays(i, o) /\ HandEditStays(i, o) /\ ShownRowStays(i, o)
<1>1. o.key \notin crossed' => Standing(i)' = {o}
  <2>1. UncrossedOnce'
    BY UncrossedStandOnce, PTL
  <2> QED BY <2>1 DEF UncrossedOnce
<1>2. orders'[i] # None => o = orders'[i]
  BY DEF Standing
<1> QED BY <1>1, <1>2 DEF FinishedStays, HandEditStays, ShownRowStays

\* Who writes order i while nobody crosses it writes what it has read.
LEMMA WriterCarries ==
    ASSUME OrdersInv, NEW i \in OrderIds, NEW o \in Standing(i), NEW b \in Importers \cup Editors,
           Holds(b, o.key), CarriedId(b) = i, b \in Importers => imports[b].id # None,
           Cross(b, {o.key}), o.key \notin crossed'
    PROVE  o = Carried(b)
<1> DEFINE k == o.key
<1>1. /\ OrdersTypeOK /\ HoldersFit /\ k \in OrderKeys /\ AnswersHold(k)
      /\ b \in Importers <=> b \notin Editors
  BY StandingSays DEF OrdersInv, Cross, Importers, Editors
<1>2. CASE orders[i] # None
  <2>1. o = orders[i] /\ i \in WithKey(k)
    BY <1>2, StandingSays DEF WithKey, Listed
  <2>2. CASE b \in Editors
    BY <1>1, <2>1, <2>2 DEF AnswersHold, EditAnswers, Holds, Busy, Carried, CarriedId
  <2>3. CASE b \in Importers
    BY <1>1, <2>1, <2>3 DEF AnswersHold, ImportAnswers, Holds, Saves, Carried, CarriedId
  <2> QED BY <1>1, <2>2, <2>3
<1>3. CASE orders[i] = None
  <2>1. PICK a \in moving : /\ CarriedId(a) = i /\ Carried(a) = o /\ Holds(a, k)
                            /\ a \in Importers \cup Editors
    BY <1>3, StandingSays
  <2>2. /\ \A p \in Importers \ {b} : ~(Saves(p) /\ imports[p].key = k)
        /\ \A e \in Editors \ {b} : ~(Busy(e) /\ edits[e].copy.key = k)
    BY <1>1, Uncrossed
  <2>3. a = b
    BY <2>1, <2>2 DEF Holds, Importers, Editors
  <2> QED BY <2>1, <2>3
<1> QED BY <1>2, <1>3

LEMMA SpendShows ==
    ASSUME IsABag(spent), NEW k, Spend(k) PROVE Happened(k)' # Happened(k)
<1>1. /\ \A j \in DOMAIN spent : spent[j] \in Nat /\ spent[j] > 0
      /\ spent = [j \in DOMAIN spent |-> spent[j]]
  BY DEF IsABag
<1>2. spent' = [j \in (DOMAIN spent \cup {k}) |->
                   (IF j \in DOMAIN spent THEN spent[j] ELSE 0) + (IF j = k THEN 1 ELSE 0)]
  BY DEF Spend, (+), SetToBag
<1>3. /\ k \in DOMAIN spent'
      /\ spent'[k] = (IF k \in DOMAIN spent THEN spent[k] ELSE 0) + 1
  BY <1>2
<1> QED BY <1>1, <1>3 DEF Happened, BagIn, BagToSet

\* What a save by p does to what stands of order i.
LEMMA SaveNoHarm ==
    ASSUME OrdersInv, OrdersInv', NEW i \in OrderIds, NEW o \in Standing(i), NEW p \in Importers,
           SaveRow(p), orders'[i] # orders[i]
    PROVE  FinishedStays(i, o) /\ HandEditStays(i, o) /\ ShownRowStays(i, o)
<1> DEFINE w == imports[p]
           k == o.key
<1>1. /\ OrdersTypeOK /\ HoldersFit /\ Saves(p) /\ w.phase = "save" /\ ImportFits(p, w)
      /\ p \notin Editors
  BY DEF SaveRow, Saves, HoldersFit, OrdersInv, Importers, Editors
<1>2. w.id = i
  <2>1. CASE w.id = None
    <3>1. FreshId \in FreshIds /\ orders' = [orders EXCEPT ![FreshId] = NewOrder(p)]
      BY <2>1 DEF SaveRow, FreshId
    <3>2. FreshId = i
      BY <1>1, <3>1 DEF OrdersTypeOK
    <3>3. orders[i] = None
      BY <3>1, <3>2 DEF FreshIds, Listed
    <3>4. PICK a \in moving : CarriedId(a) = i /\ a \in Importers \cup Editors
      BY <3>3, StandingSays
    <3> QED BY <3>1, <3>2, <3>4 DEF FreshIds, CarriedId
  <2>2. CASE w.id # None
    BY <1>1, <2>2 DEF SaveRow, OrdersTypeOK
  <2> QED BY <2>1, <2>2
<1>3. w.id # None /\ Holds(p, w.key) /\ CarriedId(p) = i /\ w.key = k
  <2>1. w.id # None /\ Holds(p, w.key) /\ CarriedId(p) = i
    BY <1>1, <1>2, WorkOrdersAssumption DEF Holds, CarriedId
  <2> QED BY <2>1, CarriersAgree
<1> DEFINE new == Updated(p)
<1>4. orders'[i] = new
  BY <1>1, <1>2, <1>3 DEF SaveRow, OrdersTypeOK
<1>5. /\ new \in Orders /\ w.copy.status # "SUBMITTED"
      /\ w.copy.edited /\ p # "file" => new.value = w.copy.value
  BY <1>1, <1>3, RowTypes DEF ImportFits, Updated
<1> HIDE DEF new
<1>6. orders'[i] # None /\ Standing(i)' = {new}
  BY <1>4, <1>5, WorkOrdersAssumption DEF Standing
<1>7. k \notin crossed' => o = w.copy
  <2>1. Cross(p, {k})
    BY <1>3 DEF SaveRow
  <2> QED BY <1>1, <1>3, <2>1, WriterCarries DEF Carried
<1>8. FinishedStays(i, o)
  BY <1>5, <1>7 DEF FinishedStays
<1>9. HandEditStays(i, o)
  BY <1>2, <1>4, <1>5, <1>7 DEF HandEditStays
<1> QED BY <1>6, <1>8, <1>9 DEF ShownRowStays

\* What an editor's write does to what stands of order i.
LEMMA WriteNoHarm ==
    ASSUME OrdersInv, OrdersInv', NEW i \in OrderIds, NEW o \in Standing(i), NEW e \in Editors,
           Writes(e), edits[e].id = i
    PROVE  FinishedStays(i, o) /\ HandEditStays(i, o) /\ ShownRowStays(i, o)
<1> DEFINE w == edits[e]
           new == Written(w.op, w.copy)
           k == o.key
<1>1. /\ OrdersTypeOK /\ HoldersFit /\ Busy(e) /\ w.copy \in Orders /\ EditFits(e, w) /\ w.op # "none"
      /\ orders'[i] = new /\ edits'[e] = IdleEdit
  BY DEF Writes, Busy, HoldersFit, EditFits, OrdersTypeOK, OrdersInv
<1>2. Holds(e, w.copy.key) /\ CarriedId(e) = i /\ w.copy.key = k
  <2>1. Holds(e, w.copy.key) /\ CarriedId(e) = i
    BY <1>1 DEF Holds, CarriedId
  <2> QED BY <2>1, CarriersAgree
<1>3. k \notin crossed' => o = w.copy
  <2>1. Cross(e, {k}) /\ e \notin Importers
    BY <1>2 DEF Writes, Importers, Editors
  <2> QED BY <1>2, <2>1, WriterCarries DEF Carried
<1>4. e = "office" \/ (e = "submission" /\ w.op = "submit")
  BY <1>1 DEF Editors, EditFits
<1>5. /\ w.op # "remove" => new \in Orders /\ (w.op # "update" => new.value = w.copy.value)
      /\ w.op = "remove" => new = None
      /\ w.op = "submit" => new = [w.copy EXCEPT !.status = "SUBMITTED"]
  BY <1>1, WrittenTypes
<1> HIDE DEF new
<1>6. FinishedStays(i, o)
  <2>1. CASE e = "office"
    BY <1>1, <2>1 DEF FinishedStays, IdleEdit
  <2>2. CASE e = "submission"
    <3>1. new = [w.copy EXCEPT !.status = "SUBMITTED"] /\ new \in Orders
      BY <1>4, <1>5, <2>2
    <3>2. k \notin crossed' /\ o.status = "SUBMITTED" => new = o
      BY <1>1, <1>3, <3>1 DEF Orders
    <3>3. Standing(i)' = {new}
      BY <1>1, <3>1, WorkOrdersAssumption DEF Standing
    <3> QED BY <3>2, <3>3 DEF FinishedStays
  <2> QED BY <1>4, <2>1, <2>2
<1>7. HandEditStays(i, o)
  BY <1>1, <1>3, <1>4, <1>5 DEF HandEditStays
<1>8. ShownRowStays(i, o)
  <2>1. CASE w.op = "remove"
    BY <1>4, <2>1 DEF ShownRowStays
  <2>2. CASE w.op # "remove"
    BY <1>1, <1>5, <2>2, WorkOrdersAssumption DEF ShownRowStays, Standing
  <2> QED BY <2>1, <2>2
<1> QED BY <1>6, <1>7, <1>8

\* An actor that deletes the row of order i has it in hand.
LEMMA MoveNoHarm ==
    ASSUME OrdersInv, OrdersInv', NEW i \in OrderIds, NEW o \in Standing(i), orders'[i] # orders[i],
           NEW a, (a \in Importers /\ RowMoves(a)) \/ (a \in Editors /\ WriteMoves(a))
    PROVE  FinishedStays(i, o) /\ HandEditStays(i, o) /\ ShownRowStays(i, o)
<1>1. PICK n \in OrderIds, j \in OrderKeys :
             /\ TakeOut(a, n, j) /\ Holds(a, j) /\ CarriedId(a) = n /\ orders[n] # None
             /\ a \in Editors \/ imports[a].id # None
             /\ UNCHANGED <<imports, edits>>
  BY MoveSays DEF OrdersInv
<1>2. n = i /\ orders'[i] = None /\ a \in moving' /\ Cross(a, {j})
  BY <1>1 DEF TakeOut, OrdersInv, OrdersTypeOK
<1>3. j = o.key /\ a \in Importers \cup Editors /\ (a \in Importers => a \notin Editors)
  BY <1>1, <1>2, CarriersAgree DEF Importers, Editors
<1>4. Carried(a)' = Carried(a) /\ CarriedId(a)' = i
  BY <1>1, <1>2 DEF Carried, CarriedId
<1>5. Carried(a) \in Standing(i)'
  BY <1>2, <1>4 DEF Standing
<1>6. CASE o.key \notin crossed'
  <2>1. o = Carried(a)
    BY <1>1, <1>2, <1>3, <1>6, WriterCarries
  <2> QED BY <1>5, <2>1, StandsOn
<1>7. CASE o.key \in crossed'
  BY <1>5, <1>7 DEF FinishedStays, HandEditStays, ShownRowStays
<1> QED BY <1>6, <1>7

\* Whoever stops moving order i without having written it was rejected.
LEMMA FailNoHarm ==
    ASSUME OrdersInv, OrdersInv', NEW i \in OrderIds, NEW o \in Standing(i), UNCHANGED orders, orders[i] = None,
           NEW a \in moving, a \notin moving', CarriedId(a) = i, Carried(a) = o, Holds(a, o.key),
           a \in Editors => edits'[a] = IdleEdit, a \in Importers => o.status # "SUBMITTED",
           NEW k \in {"call", "crash"}, Spend(k), crossed \subseteq crossed'
    PROVE  FinishedStays(i, o) /\ HandEditStays(i, o) /\ ShownRowStays(i, o)
<1>1. MoveFails(i)
  BY SpendShows DEF MoveFails, OrdersInv
<1>2. FinishedStays(i, o)
  <2>1. a \in Importers \cup Editors
    BY DEF OrdersInv, OrdersTypeOK
  <2>2. CASE a = "office"
    BY <2>2 DEF FinishedStays, Editors, IdleEdit, CarriedId
  <2>3. CASE a = "submission"
    BY <2>3 DEF FinishedStays, Editors, OrdersInv, SubmissionsCross, Carried
  <2> QED BY <2>1, <2>2, <2>3 DEF Editors, FinishedStays
<1> QED BY <1>1, <1>2 DEF HandEditStays, ShownRowStays

\* What a step does to an order, in its row or on its way to another.
LEMMA NoHarmStep ==
    ASSUME OrdersInv, OrdersInv', OrdersNext, NEW i \in OrderIds, NEW o \in Standing(i)
    PROVE  FinishedStays(i, o) /\ HandEditStays(i, o) /\ ShownRowStays(i, o)
<1> DEFINE Harmless == FinishedStays(i, o) /\ HandEditStays(i, o) /\ ShownRowStays(i, o)
<1>1. /\ OrdersTypeOK /\ IsABag(spent) /\ HoldersFit /\ MoversFit /\ UnseenAreGone
      /\ crossed \subseteq crossed'
      /\ o \in Orders /\ o.key \in OrderKeys /\ o.key \in KeysBy(i)
  BY CrossedGrows, StandingSays DEF OrdersInv
<1>2. ASSUME orders'[i] = orders[i], orders[i] # None PROVE Harmless
  <2>1. o \in Standing(i)'
    BY <1>2, StandingSays DEF Standing
  <2> QED BY <2>1, StandsOn
<1>3. ASSUME orders'[i] = orders[i], orders[i] = None, moving \subseteq moving' PROVE Harmless
  <2>1. PICK a \in moving : CarriedId(a) = i /\ Carried(a) = o
    BY <1>3, StandingSays
  <2>2. Carried(a)' = o /\ CarriedId(a)' = i
    <3>1. a \in Importers \cup Editors
      BY <1>1 DEF OrdersTypeOK
    <3>2. /\ a \in Editors => edits'[a] = edits[a]
          /\ a \in Importers => imports'[a] = imports[a]
      BY <1>1, <1>3, MoversStay
    <3> QED BY <2>1, <3>1, <3>2 DEF Carried, CarriedId
  <2>3. o \in Standing(i)'
    BY <1>3, <2>1, <2>2 DEF Standing
  <2> QED BY <2>3, StandsOn
<1>4. ASSUME UNCHANGED orders, UNCHANGED moving PROVE Harmless
  BY <1>2, <1>3, <1>4
<1>5. ASSUME NEW a, (a \in Importers /\ RowMoves(a)) \/ (a \in Editors /\ WriteMoves(a)) PROVE Harmless
  <2>1. CASE orders'[i] # orders[i]
    BY <1>5, <2>1, MoveNoHarm
  <2>2. CASE orders'[i] = orders[i]
    <3>1. moving \subseteq moving'
      BY <1>5 DEF RowMoves, WriteMoves, TakeOut
    <3> QED BY <1>2, <1>3, <2>2, <3>1
  <2> QED BY <2>1, <2>2
<1>6. ASSUME UNCHANGED orders, NEW a, moving' = moving \ {a}, NEW k \in {"call", "crash"}, Spend(k),
             a \in Editors => edits'[a] = IdleEdit
      PROVE  Harmless
  <2>1. CASE orders[i] # None
    BY <1>2, <1>6, <2>1
  <2>2. CASE orders[i] = None
    <3>1. PICK b \in moving : /\ CarriedId(b) = i /\ Carried(b) = o /\ Holds(b, o.key)
                              /\ b \in Importers \cup Editors
                              /\ b \in Importers => o.status # "SUBMITTED"
      BY <2>2, StandingSays
    <3>2. CASE b = a
      BY <1>1, <1>6, <2>2, <3>1, <3>2, FailNoHarm
    <3>3. CASE b # a
      <4>1. b \in moving' /\ /\ b \in Editors => edits'[b] = edits[b]
                             /\ b \in Importers => imports'[b] = imports[b]
        BY <1>1, <1>6, <3>1, <3>3, MoversStay
      <4>2. o \in Standing(i)'
        BY <1>6, <2>2, <3>1, <4>1 DEF Standing, Carried, CarriedId
      <4> QED BY <4>2, StandsOn
    <3> QED BY <3>2, <3>3
  <2> QED BY <2>1, <2>2
<1>7. ASSUME NEW p \in Importers, RowFails(p) PROVE Harmless
  <2>1. p \notin Editors
    BY DEF Importers, Editors
  <2> QED BY <1>6, <1>7, <2>1 DEF RowFails
<1>8. ASSUME NEW e \in Editors, WriteFails(e) PROVE Harmless
  BY <1>1, <1>6, <1>8 DEF WriteFails, OrdersTypeOK
<1>9. ASSUME OrdersCrash PROVE Harmless
  <2>1. UNCHANGED orders /\ moving' = {} /\ Spend("crash") /\ \A e \in Editors : edits'[e] = IdleEdit
    BY <1>9 DEF OrdersCrash
  <2>2. CASE orders[i] # None
    BY <1>2, <2>1, <2>2
  <2>3. CASE orders[i] = None
    <3>1. PICK b \in moving : /\ CarriedId(b) = i /\ Carried(b) = o /\ Holds(b, o.key)
                              /\ b \in Importers \cup Editors
                              /\ b \in Importers => o.status # "SUBMITTED"
      BY <2>3, StandingSays
    <3> QED BY <1>1, <2>1, <2>3, <3>1, FailNoHarm
  <2> QED BY <2>2, <2>3
<1>10. ASSUME NEW p \in Importers, SaveRow(p) PROVE Harmless
  <2>1. CASE orders'[i] # orders[i]
    BY <1>10, <2>1, SaveNoHarm
  <2>2. CASE orders'[i] = orders[i] /\ orders[i] # None
    BY <1>2, <2>2
  <2>3. CASE orders'[i] = orders[i] /\ orders[i] = None
    <3>1. PICK b \in moving : CarriedId(b) = i /\ Carried(b) = o /\ b \in Importers \cup Editors
      BY <2>3, StandingSays
    <3>2. b # p
      <4>1. CASE b = p
        <5>1. imports[p].id = i /\ imports[p].id # None /\ p \notin Editors
          BY <1>1, <3>1, <4>1, WorkOrdersAssumption DEF CarriedId, Importers, Editors
        <5>2. Saves(p) /\ orders'[i] = Updated(p)
          BY <1>1, <1>10, <5>1 DEF SaveRow, Saves, OrdersTypeOK
        <5>3. Updated(p) \in Orders
          BY <1>1, <5>1, <5>2, RowTypes DEF Updated
        <5> QED BY <2>3, <5>2, <5>3, WorkOrdersAssumption
      <4> QED BY <4>1
    <3>3. b \in moving' /\ /\ b \in Editors => edits'[b] = edits[b]
                           /\ b \in Importers => imports'[b] = imports[b]
      BY <1>1, <1>10, <3>1, <3>2, MoversStay DEF SaveRow
    <3>4. o \in Standing(i)'
      BY <2>3, <3>1, <3>3 DEF Standing, Carried, CarriedId
    <3> QED BY <3>4, StandsOn
  <2> QED BY <2>1, <2>2, <2>3
<1>11. ASSUME NEW e \in Editors, Writes(e) PROVE Harmless
  <2>1. CASE edits[e].id = i
    BY <1>11, <2>1, WriteNoHarm
  <2>2. CASE edits[e].id # i /\ orders[i] # None
    BY <1>1, <1>2, <1>11, <2>2 DEF Writes, OrdersTypeOK
  <2>3. CASE edits[e].id # i /\ orders[i] = None
    <3>1. PICK b \in moving : CarriedId(b) = i /\ Carried(b) = o /\ b \in Importers \cup Editors
      BY <2>3, StandingSays
    <3>2. b # e /\ orders'[i] = None
      BY <1>1, <1>11, <2>3, <3>1 DEF CarriedId, Writes, OrdersTypeOK
    <3>3. b \in moving' /\ /\ b \in Editors => edits'[b] = edits[b]
                           /\ b \in Importers => imports'[b] = imports[b]
      BY <1>1, <1>11, <3>1, <3>2, MoversStay DEF Writes
    <3>4. o \in Standing(i)'
      BY <3>1, <3>2, <3>3 DEF Standing, Carried, CarriedId
    <3> QED BY <3>4, StandsOn
  <2> QED BY <2>1, <2>2, <2>3
<1>12. ASSUME NEW p \in Importers, NEW n \in OrderIds, Remove(p, n) PROVE Harmless
  <2>1. UNCHANGED moving /\ orders' = [orders EXCEPT ![n] = None] /\ p # "file" /\ n \in imports[p].doomed
    BY <1>1, <1>12 DEF Remove, OrdersTypeOK, HoldersFit, ImportFits
  <2>2. CASE orders'[i] = orders[i]
    BY <1>2, <1>3, <2>1, <2>2
  <2>3. CASE orders'[i] # orders[i]
    <3>1. n = i /\ i \in imports[p].doomed /\ orders'[i] = None /\ orders[i] = o
      BY <1>1, <2>1, <2>3, StandingSays DEF OrdersTypeOK
    <3>2. FinishedStays(i, o)
      <4>1. o.key \notin crossed' => AnswersHold(o.key)
        BY <1>1 DEF OrdersInv
      <4>2. i \in WithKey(o.key)
        BY <1>1, <3>1, WorkOrdersAssumption DEF WithKey, Listed
      <4> QED BY <3>1, <4>1, <4>2 DEF FinishedStays, AnswersHold, ImportAnswers
    <3>3. ShownRowStays(i, o)
      <4>1. Happened("tab") \in Nat /\ Happened("link") \in Nat
        BY <1>1 DEF Happened, IsABag, BagIn, BagToSet
      <4>2. AllRead => o.key \in gone
        BY <1>1, <2>1, <3>1 DEF UnseenAreGone
      <4> QED BY <4>1, <4>2 DEF ShownRowStays, AllRead
    <3> QED BY <3>1, <3>2, <3>3 DEF HandEditStays
  <2> QED BY <2>2, <2>3
<1>13. ASSUME TimerStep \/ LinkChanges PROVE Harmless
  BY <1>4, <1>13 DEF TimerStep, TickStarts, TickReads, TickSkips, LinkChanges
<1>14. ASSUME NEW l, ManualReads(l) PROVE Harmless
  BY <1>4, <1>14 DEF ManualReads
<1>15. ASSUME NEW j, NEW v, FileReads(j, v) \/ RowChanges(j, v) PROVE Harmless
  BY <1>4, <1>15 DEF FileReads, RowChanges
<1>16. ASSUME NEW p, NEW j, RowUnfit(p, j) \/ Find(p, j) \/ RowsDone(p) \/ SyncThrows(p) PROVE Harmless
  BY <1>4, <1>16 DEF RowUnfit, Find, RowsDone, SyncThrows
<1>17. ASSUME NEW op, NEW n, OfficeReads(op, n) \/ SubmissionReads(n) PROVE Harmless
  BY <1>4, <1>17 DEF OfficeReads, SubmissionReads, Reads
<1> QED BY <1>5, <1>7, <1>8, <1>9, <1>10, <1>11, <1>12, <1>13, <1>14, <1>15, <1>16, <1>17
        DEF OrdersNext, SyncStep, EditStep

\* No sync, import or removal undoes what people did, whatever runs side by
\* side: finished orders and typed values stay, also while a save takes the
\* order from the row of one day to that of another, and an order whose row is
\* on its sheet is lost by no sync, as long as no tab was passed over, no link
\* was changed and no such save was cut short.
THEOREM SyncsDoNoHarmAlways == OrdersSpec => SyncsDoNoHarm
<1> DEFINE Act == \A i \in OrderIds : \A o \in Standing(i) :
                     FinishedStays(i, o) /\ HandEditStays(i, o) /\ ShownRowStays(i, o)
<1>1. OrdersInv /\ OrdersInv' /\ [OrdersNext]_<<ordersVars, spent>> => [Act]_<<ordersVars, spent>>
  BY NoHarmStep
<1>2. OrdersSpec => [][Act]_<<ordersVars, spent>>
  BY <1>1, OrdersInvAlways, PTL DEF OrdersSpec
<1> QED BY <1>2 DEF SyncsDoNoHarm

----------------------------------------------------------------------------
(* Site numbers: definitions *)

\* The submissions that have been given a number, or have failed.
Numbered == {r \in Submissions : submissions[r].stage \notin {"idle", "waiting", "probing"}}

\* How many numbers have been handed out, at most.
Handed == Cardinality(Numbered)

\* No number is beyond the submissions there are; a number in use is one that
\* was handed out.
Bounded ==
    /\ \A r \in Submissions :
          /\ submissions[r].stage = "probing" => submissions[r].number \in 1..(Handed + 1)
          /\ submissions[r].stage \in {"keeping", "moving", "saving", "accepted"}
             => submissions[r].number \in 1..Handed
          /\ submissions[r].stage \in {"saving", "accepted"}
             => submissions[r].id \in {Placeholder(r), Candidate(r)}
    /\ \A c \in Series : counters[c] <= Handed /\ keptCounters[c] <= Handed
    /\ \A i \in Ids : records[i] # None => i[2] <= Handed

\* One allocation at a time; it looks at numbers above the counter, and has
\* stepped over numbers in use.
QueueOfOne ==
    \A r, s \in Submissions :
        /\ submissions[r].stage \in {"probing", "keeping"}
        /\ submissions[s].stage \in {"probing", "keeping"}
        => r = s

ProbesInOrder ==
    \A r \in Submissions :
        /\ submissions[r].stage \in {"idle", "waiting"} => submissions[r].probes = 0
        /\ submissions[r].stage = "probing"
           => /\ submissions[r].number > counters[submissions[r].series] + submissions[r].probes
              /\ submissions[r].probes <= MaxProbes
              /\ \A m \in (submissions[r].number - submissions[r].probes)..(submissions[r].number - 1) :
                    InUse(<<submissions[r].series, m>>)

\* A series with so many records that the probing may give up.
Records(c) == {j \in Ids : j[1] = c /\ records[j] # None}
Crowded(c) == Cardinality(Records(c)) > MaxProbes

\* A number that was taken and not yet claimed by a record.
Taken(r) == submissions[r].stage \in {"keeping", "moving", "saving"}

TakenNumbers ==
    \A r \in Submissions :
        Taken(r) /\ submissions[r].series \notin LongPast
        => /\ submissions[r].number <= counters[submissions[r].series]
           /\ InUse(Candidate(r)) => Crowded(submissions[r].series)
           /\ \A s \in Submissions : Taken(s) /\ Candidate(s) = Candidate(r) => s = r

\* Who has photos staged finds them where its request looks for them.
FoldersHaveOwners ==
    \A r \in Submissions :
        /\ submissions[r].stage \in {"waiting", "probing", "keeping", "moving"}
           => folders[Placeholder(r)] = r
        /\ submissions[r].stage = "saving" => folders[submissions[r].id] = r

\* A placeholder is nobody else's id.
PlaceholdersOwn == \A r \in Submissions : records[Placeholder(r)] \in {r, None}

\* The inductive invariant: PhotosFit, and RecordStays as far as it concerns the
\* number a request is about to use, need each other conjunct.
IInv ==
    /\ NumbersTypeOK /\ Bounded
    /\ QueueOfOne /\ ProbesInOrder /\ TakenNumbers
    /\ PlaceholdersOwn /\ FoldersHaveOwners /\ (\A r \in Submissions : PhotosFit(r))
----------------------------------------------------------------------------
(* Numbers handed out *)

LEMMA HandedType ==
    /\ Handed \in Nat
    /\ \A r \in Submissions \ Numbered : Handed + 1 <= Cardinality(Submissions)
    /\ Handed <= Cardinality(Submissions) /\ Cardinality(Submissions) \in Nat
<1>1. IsFiniteSet(Submissions) /\ Numbered \in SUBSET Submissions
  BY SiteNumbersAssumption DEF Numbered
<1>2. /\ IsFiniteSet(Numbered) /\ Cardinality(Numbered) \in Nat
      /\ Cardinality(Numbered) <= Cardinality(Submissions) /\ Cardinality(Submissions) \in Nat
      /\ Cardinality(Submissions) = Cardinality(Numbered) => Submissions = Numbered
  BY <1>1, FS_Subset, FS_CardinalityType
<1> QED BY <1>2 DEF Handed

\* Nobody gives a number back; taking one counts.
LEMMA HandedGrows ==
    ASSUME NumbersTypeOK, [NumbersNext]_<<numbersVars, spent>>
    PROVE  /\ Handed <= Handed' /\ Handed' \in Nat
           /\ \A r \in Submissions : submissions[r].stage = "probing" /\ submissions'[r].stage = "keeping"
                 => Handed + 1 <= Handed'
<1>1. Numbered \subseteq Numbered'
  <2> SUFFICES ASSUME NEW r \in Submissions,
                      submissions[r].stage \notin {"idle", "waiting", "probing"}
               PROVE  submissions'[r].stage \notin {"idle", "waiting", "probing"}
    BY DEF Numbered
  <2>1. ASSUME NEW s \in Submissions, Arrives(s) PROVE submissions'[r].stage = submissions[r].stage
    BY <2>1 DEF Arrives, NumbersTypeOK
  <2>2. ASSUME NEW s \in Submissions, Allocates(s) PROVE submissions'[r].stage = submissions[r].stage
    BY <2>2 DEF Allocates, NumbersTypeOK
  <2>3. ASSUME NEW s \in Submissions, Probe(s) PROVE submissions'[r].stage = submissions[r].stage
    BY <2>3 DEF Probe, NumbersTypeOK
  <2>4. ASSUME NEW s \in Submissions, KeepCounters(s)
        PROVE  submissions'[r].stage \in {submissions[r].stage, "moving"}
    BY <2>4 DEF KeepCounters, NumbersTypeOK
  <2>5. ASSUME NEW s \in Submissions, MoveFolder(s)
        PROVE  submissions'[r].stage \in {submissions[r].stage, "saving"}
    BY <2>5 DEF MoveFolder, NumbersTypeOK, Submission
  <2>6. ASSUME NEW s \in Submissions, SaveRecord(s)
        PROVE  submissions'[r].stage \in {submissions[r].stage, "accepted"}
    BY <2>6 DEF SaveRecord, NumbersTypeOK
  <2>7. ASSUME NEW s \in Submissions, SubmissionFails(s)
        PROVE  submissions'[r].stage \in {submissions[r].stage, "gone"}
    BY <2>7 DEF SubmissionFails, NumbersTypeOK, Unsubmitted
  <2>8. ASSUME NEW s \in Submissions, Filed(s)
        PROVE  submissions'[r].stage \in {submissions[r].stage, "gone"}
    BY <2>8 DEF Filed, NumbersTypeOK
  <2>9. ASSUME NumbersCrash PROVE submissions'[r].stage \in {submissions[r].stage, "gone"}
    BY <2>9 DEF NumbersCrash, Unsubmitted
  <2>10. ASSUME UNCHANGED <<numbersVars, spent>> PROVE submissions'[r].stage = submissions[r].stage
    BY <2>10 DEF numbersVars
  <2> QED BY <2>1, <2>2, <2>3, <2>4, <2>5, <2>6, <2>7, <2>8, <2>9, <2>10 DEF NumbersNext
<1>2. IsFiniteSet(Submissions) /\ Numbered' \in SUBSET Submissions
  BY SiteNumbersAssumption DEF Numbered
<1>3. IsFiniteSet(Numbered') /\ Cardinality(Numbered') \in Nat
  BY <1>2, FS_Subset, FS_CardinalityType
<1>4. Cardinality(Numbered) <= Cardinality(Numbered') /\ Cardinality(Numbered) \in Nat
  BY <1>1, <1>3, FS_Subset, FS_CardinalityType
<1>5. ASSUME NEW r \in Submissions, submissions[r].stage = "probing", submissions'[r].stage = "keeping"
      PROVE  Cardinality(Numbered) + 1 <= Cardinality(Numbered')
  <2>1. r \notin Numbered /\ r \in Numbered'
    BY <1>5 DEF Numbered
  <2>2. Cardinality(Numbered) = Cardinality(Numbered') => Numbered = Numbered'
    BY <1>1, <1>3, FS_Subset
  <2> QED BY <1>3, <1>4, <2>1, <2>2
<1> QED BY <1>3, <1>4, <1>5 DEF Handed

----------------------------------------------------------------------------
(* Type correctness *)

LEMMA TypeInit == NumbersInit => NumbersTypeOK
BY DEF NumbersInit, NumbersTypeOK, Submission, Unsubmitted

LEMMA IdTypes ==
    ASSUME NumbersTypeOK, NEW r \in Submissions
    PROVE  /\ Placeholder(r) \in Numbers /\ Candidate(r) \in Numbers
           /\ Placeholder(r) \in Ids
           /\ submissions[r].number \in 1..Cardinality(Submissions) => Candidate(r) \in Ids
BY DEF NumbersTypeOK, Submission, Placeholder, Candidate, Numbers, Ids

LEMMA TypeStep == NumbersTypeOK /\ [NumbersNext]_<<numbersVars, spent>> => NumbersTypeOK'
<1> SUFFICES ASSUME NumbersTypeOK, [NumbersNext]_<<numbersVars, spent>> PROVE NumbersTypeOK'
  OBVIOUS
<1> USE DEF NumbersTypeOK, Submission
<1>1. ASSUME NEW r \in Submissions, Arrives(r) PROVE NumbersTypeOK'
  BY ZenonT(40), <1>1 DEF Arrives
<1>2. ASSUME NEW r \in Submissions, Allocates(r) PROVE NumbersTypeOK'
  <2>1. counters[submissions[r].series] + 1 \in Nat
    OBVIOUS
  <2>2. PICK n \in Nat : submissions' = [submissions EXCEPT ![r].stage = "probing", ![r].number = n]
    BY <1>2, <2>1 DEF Allocates
  <2>3. submissions' \in [Submissions -> Submission]
    BY ZenonT(40), <2>2
  <2> QED BY <1>2, <2>3 DEF Allocates
<1>3. ASSUME NEW r \in Submissions, Probe(r) PROVE NumbersTypeOK'
  BY <1>3 DEF Probe
<1>4. ASSUME NEW r \in Submissions, KeepCounters(r) PROVE NumbersTypeOK'
  BY <1>4 DEF KeepCounters
<1>5. ASSUME NEW r \in Submissions, MoveFolder(r) PROVE NumbersTypeOK'
  <2>1. submissions' \in [Submissions -> Submission]
    BY <1>5, IdTypes DEF MoveFolder
  <2>2. folders' \in [Ids -> Submissions \cup {None}]
    BY <1>5 DEF MoveFolder
  <2> QED BY <1>5, <2>1, <2>2 DEF MoveFolder
<1>6. ASSUME NEW r \in Submissions, SaveRecord(r) PROVE NumbersTypeOK'
  BY ZenonT(40), <1>6 DEF SaveRecord
<1>7. ASSUME NEW r \in Submissions, SubmissionFails(r) PROVE NumbersTypeOK'
  BY <1>7 DEF SubmissionFails, Unsubmitted
<1>8. ASSUME NEW r \in Submissions, Filed(r) PROVE NumbersTypeOK'
  BY ZenonT(40), <1>8 DEF Filed
<1>9. ASSUME NumbersCrash PROVE NumbersTypeOK'
  BY <1>9 DEF NumbersCrash, Unsubmitted
<1>10. ASSUME UNCHANGED <<numbersVars, spent>> PROVE NumbersTypeOK'
  BY <1>10 DEF numbersVars
<1> QED BY <1>1, <1>2, <1>3, <1>4, <1>5, <1>6, <1>7, <1>8, <1>9, <1>10 DEF NumbersNext

\* Every submission has a stage, a number and an id of the right kind, and every
\* record and folder a submission or nobody.
THEOREM NumbersTypeCorrect == NumbersSpec => []NumbersTypeOK
BY TypeInit, TypeStep, PTL DEF NumbersSpec

----------------------------------------------------------------------------
(* No number beyond the submissions *)

LEMMA BoundedInit == NumbersInit => Bounded
<1> SUFFICES ASSUME NumbersInit PROVE Bounded
  OBVIOUS
<1>1. \A r \in Submissions : submissions[r].stage = "idle"
  BY DEF NumbersInit, Unsubmitted
<1>2. Handed \in Nat
  BY HandedType
<1> QED BY <1>1, <1>2 DEF Bounded, NumbersInit

\* What a record of Bounded says of one submission.
BoundedAt(r) ==
    /\ submissions[r].stage = "probing" => submissions[r].number \in 1..(Handed + 1)
    /\ submissions[r].stage \in {"keeping", "moving", "saving", "accepted"}
       => submissions[r].number \in 1..Handed
    /\ submissions[r].stage \in {"saving", "accepted"}
       => submissions[r].id \in {Placeholder(r), Candidate(r)}

LEMMA OthersBounded ==
    ASSUME NumbersTypeOK, Bounded, Handed <= Handed', Handed' \in Nat,
           NEW r \in Submissions, submissions'[r] = submissions[r]
    PROVE  BoundedAt(r)'
BY HandedType DEF NumbersTypeOK, Submission, Bounded, BoundedAt, Placeholder, Candidate

LEMMA BoundedStep ==
    NumbersTypeOK /\ Bounded /\ ProbesInOrder /\ [NumbersNext]_<<numbersVars, spent>> => Bounded'
<1> SUFFICES ASSUME NumbersTypeOK, Bounded, ProbesInOrder, [NumbersNext]_<<numbersVars, spent>>
             PROVE  Bounded'
  OBVIOUS
<1>1. /\ Handed \in Nat /\ Handed' \in Nat /\ Handed <= Handed'
      /\ \A r \in Submissions : submissions[r].stage = "probing" /\ submissions'[r].stage = "keeping"
            => Handed + 1 <= Handed'
  BY HandedType, HandedGrows
<1>2. ASSUME \A r \in Submissions : submissions'[r] = submissions[r] \/ BoundedAt(r)',
             \A c \in Series : counters'[c] <= Handed' /\ keptCounters'[c] <= Handed',
             \A i \in Ids : records'[i] # None => i[2] <= Handed'
      PROVE  Bounded'
  BY <1>1, <1>2, OthersBounded DEF Bounded, BoundedAt
<1>3. \A c \in Series : counters[c] <= Handed' /\ keptCounters[c] <= Handed'
  BY <1>1 DEF Bounded, NumbersTypeOK
<1>4. \A i \in Ids : records[i] # None => i[2] <= Handed'
  <2> SUFFICES ASSUME NEW i \in Ids, records[i] # None PROVE i[2] <= Handed'
    OBVIOUS
  <2>1. i[2] \in Nat /\ i[2] <= Handed
    BY DEF Bounded, Ids
  <2> QED BY <1>1, <2>1
<1> USE DEF NumbersTypeOK, Submission
<1>5. ASSUME NEW r \in Submissions, Arrives(r) PROVE Bounded'
  BY <1>2, <1>3, <1>4, <1>5 DEF Arrives, BoundedAt
<1>6. ASSUME NEW r \in Submissions, Allocates(r) PROVE Bounded'
  <2>1. counters[submissions[r].series] \in 0..Handed
    BY <1>1 DEF Bounded
  <2>2. submissions'[r].number \in 1..(Handed' + 1) /\ submissions'[r].stage = "probing"
    BY <1>1, <1>6, <2>1 DEF Allocates
  <2> QED BY <1>2, <1>3, <1>4, <1>6, <2>2 DEF Allocates, BoundedAt
<1>7. ASSUME NEW r \in Submissions, Probe(r) PROVE Bounded'
  <2>1. submissions[r].number \in 1..(Handed + 1) /\ submissions[r].stage = "probing"
    BY <1>7 DEF Probe, Bounded
  <2>2. CASE submissions[r].probes < MaxProbes /\ InUse(Candidate(r))
    <3>1. submissions[r].number <= Handed
      <4>1. r \notin Numbered
        BY <2>1 DEF Numbered
      <4>2. Candidate(r) \in Ids
        BY <1>1, <2>1, <4>1, HandedType, IdTypes
      <4> QED BY <2>2, <4>2 DEF InUse, Bounded, Candidate
    <3>2. submissions'[r].number \in 1..(Handed' + 1) /\ submissions'[r].stage = "probing"
      BY <1>1, <1>7, <2>1, <2>2, <3>1 DEF Probe
    <3> QED BY <1>2, <1>3, <1>4, <1>7, <2>2, <3>2 DEF Probe, BoundedAt
  <2>3. CASE ~(submissions[r].probes < MaxProbes /\ InUse(Candidate(r)))
    <3>1. /\ submissions'[r].number = submissions[r].number /\ submissions'[r].stage = "keeping"
          /\ \A c \in Series : counters'[c] \in {counters[c], 0, submissions[r].number}
      BY <1>7, <2>3 DEF Probe
    <3>2. submissions'[r].number \in 1..Handed'
      BY <1>1, <2>1, <3>1
    <3>3. \A c \in Series : counters'[c] <= Handed'
      BY <1>1, <1>3, <2>1, <3>1, <3>2
    <3> QED BY <1>2, <1>3, <1>4, <1>7, <2>3, <3>1, <3>2, <3>3 DEF Probe, BoundedAt
  <2> QED BY <2>2, <2>3
<1>8. ASSUME NEW r \in Submissions, KeepCounters(r) PROVE Bounded'
  <2>1. /\ submissions[r].number \in 1..Handed' /\ submissions'[r].number = submissions[r].number
        /\ submissions'[r].stage = "moving"
    BY <1>1, <1>8 DEF KeepCounters, Bounded
  <2> QED BY <1>2, <1>3, <1>4, <1>8, <2>1 DEF KeepCounters, BoundedAt
<1>9. ASSUME NEW r \in Submissions, MoveFolder(r) PROVE Bounded'
  <2>1. /\ submissions[r].number \in 1..Handed' /\ submissions'[r].number = submissions[r].number
        /\ submissions'[r].stage = "saving"
        /\ submissions'[r].id \in {Placeholder(r), Candidate(r)}
        /\ submissions'[r].series = submissions[r].series
    BY <1>1, <1>9, IdTypes DEF MoveFolder, Bounded
  <2>2. BoundedAt(r)'
    BY <2>1 DEF BoundedAt, Candidate, Placeholder
  <2> QED BY <1>2, <1>3, <1>4, <1>9, <2>2 DEF MoveFolder
<1>10. ASSUME NEW r \in Submissions, SaveRecord(r) PROVE Bounded'
  <2>1. /\ submissions[r].number \in 1..Handed /\ submissions[r].stage = "saving"
        /\ submissions[r].id \in {Placeholder(r), Candidate(r)}
    BY <1>10 DEF SaveRecord, Bounded
  <2>2. BoundedAt(r)'
    BY <1>1, <1>10, <2>1 DEF SaveRecord, BoundedAt, Candidate, Placeholder
  <2>3. submissions[r].id[2] <= Handed'
    BY <1>1, <2>1 DEF Candidate, Placeholder
  <2>4. \A i \in Ids : records'[i] # None => i[2] <= Handed'
    BY <1>4, <1>10, <2>3 DEF SaveRecord
  <2> QED BY <1>2, <1>3, <1>10, <2>2, <2>4 DEF SaveRecord
<1>11. ASSUME NEW r \in Submissions, SubmissionFails(r) PROVE Bounded'
  BY <1>2, <1>3, <1>4, <1>11 DEF SubmissionFails, BoundedAt, Unsubmitted
<1>12. ASSUME NEW r \in Submissions, Filed(r) PROVE Bounded'
  BY <1>2, <1>3, <1>4, <1>12 DEF Filed, BoundedAt
<1>13. ASSUME NumbersCrash PROVE Bounded'
  <2>1. \A r \in Submissions : submissions'[r] = submissions[r] \/ submissions'[r].stage = "gone"
    BY <1>13 DEF NumbersCrash, Unsubmitted
  <2>2. \A c \in Series : counters'[c] <= Handed'
    BY <1>1, <1>3, <1>13 DEF NumbersCrash
  <2> QED BY <1>2, <1>3, <1>4, <1>13, <2>1, <2>2 DEF NumbersCrash, BoundedAt
<1>14. ASSUME UNCHANGED <<numbersVars, spent>> PROVE Bounded'
  BY <1>2, <1>3, <1>4, <1>14 DEF numbersVars
<1> QED BY <1>5, <1>6, <1>7, <1>8, <1>9, <1>10, <1>11, <1>12, <1>13, <1>14 DEF NumbersNext

----------------------------------------------------------------------------
(* Series with many records *)

LEMMA RecordsFinite ==
    ASSUME NEW c, NEW R, R \subseteq {j \in Ids : j[1] = c}
    PROVE  IsFiniteSet(R) /\ Cardinality(R) \in Nat
<1>1. Cardinality(Submissions) \in Nat
  BY HandedType
<1>2. IsFiniteSet({c})
  BY FS_Singleton
<1>3. IsFiniteSet(0..Cardinality(Submissions))
  <2>1. 0 \in Int /\ Cardinality(Submissions) \in Int
    BY <1>1
  <2> QED BY <2>1, FS_Interval
<1>4. IsFiniteSet({c} \X (0..Cardinality(Submissions)))
  BY <1>2, <1>3, FS_Product
<1>5. R \in SUBSET ({c} \X (0..Cardinality(Submissions)))
  <2> SUFFICES ASSUME NEW j \in Ids, j[1] = c PROVE j \in {c} \X (0..Cardinality(Submissions))
    OBVIOUS
  <2> QED BY <1>1 DEF Ids
<1> QED BY <1>4, <1>5, FS_Subset, FS_CardinalityType

\* No record is ever removed.
LEMMA RecordsRemain ==
    ASSUME NumbersTypeOK, [NumbersNext]_<<numbersVars, spent>>
    PROVE  \A i \in Ids : records[i] # None => records'[i] # None
<1>1. ASSUME NEW r \in Submissions, SaveRecord(r)
      PROVE  \A i \in Ids : records[i] # None => records'[i] # None
  BY <1>1, SiteNumbersAssumption DEF SaveRecord, NumbersTypeOK
<1>2. ASSUME ~\E r \in Submissions : SaveRecord(r) PROVE UNCHANGED records
  BY <1>2 DEF NumbersNext, Arrives, Allocates, Probe, KeepCounters, MoveFolder, SubmissionFails,
              Filed, NumbersCrash, numbersVars
<1> QED BY <1>1, <1>2

LEMMA CrowdedStays ==
    ASSUME NumbersTypeOK, [NumbersNext]_<<numbersVars, spent>>, NEW c, Crowded(c)
    PROVE  Crowded(c)'
<1>1. Records(c) \subseteq Records(c)'
  BY RecordsRemain DEF Records
<1>2. /\ IsFiniteSet(Records(c)') /\ Cardinality(Records(c)') \in Nat
      /\ Cardinality(Records(c)) \in Nat
  <2>1. Records(c) \subseteq {j \in Ids : j[1] = c} /\ Records(c)' \subseteq {j \in Ids : j[1] = c}
    BY DEF Records
  <2> QED BY <2>1, RecordsFinite
<1>3. Cardinality(Records(c)) <= Cardinality(Records(c)')
  BY <1>1, <1>2, FS_Subset
<1> QED BY <1>2, <1>3, SiteNumbersAssumption DEF Crowded

\* If the probing gives up at a number in use, MaxProbes and one more are in use.
LEMMA GivingUpIsCrowded ==
    ASSUME NEW c \in Series, NEW n \in 1..Cardinality(Submissions), n > MaxProbes,
           \A m \in (n - MaxProbes)..n : InUse(<<c, m>>)
    PROVE  Crowded(c)
<1> DEFINE Steps == (n - MaxProbes)..n
           f == [m \in Steps |-> <<c, m>>]
<1>1. Cardinality(Submissions) \in Nat /\ MaxProbes \in Nat
  BY HandedType, SiteNumbersAssumption
<1>2. IsFiniteSet(Steps) /\ Cardinality(Steps) = MaxProbes + 1
  <2>1. n - MaxProbes \in Int /\ n \in Int /\ n - MaxProbes <= n /\ n - (n - MaxProbes) + 1 = MaxProbes + 1
    BY <1>1
  <2>2. IsFiniteSet(Steps) /\ Cardinality(Steps) = IF n - MaxProbes > n THEN 0 ELSE n - (n - MaxProbes) + 1
    BY <2>1, FS_Interval
  <2> QED BY <2>1, <2>2
<1>3. \A m \in Steps : <<c, m>> \in Records(c)
  BY <1>1 DEF Records, Ids, InUse
<1>4. f \in Injection(Steps, Records(c))
  BY <1>3 DEF Injection, IsInjective
<1>5. IsFiniteSet(Records(c)) /\ Cardinality(Records(c)) \in Nat
  <2>1. Records(c) \subseteq {j \in Ids : j[1] = c}
    BY DEF Records
  <2> QED BY <2>1, RecordsFinite
<1>6. Cardinality(Steps) <= Cardinality(Records(c))
  BY <1>4, <1>5, FS_Injection
<1> QED BY <1>1, <1>2, <1>5, <1>6 DEF Crowded

----------------------------------------------------------------------------
(* Numbers are handed out once *)

NumbersInv == NumbersTypeOK /\ Bounded /\ QueueOfOne /\ ProbesInOrder /\ TakenNumbers

LEMMA NumbersInvInit == NumbersInit => QueueOfOne /\ ProbesInOrder /\ TakenNumbers
<1> SUFFICES ASSUME NumbersInit PROVE QueueOfOne /\ ProbesInOrder /\ TakenNumbers
  OBVIOUS
<1>1. \A r \in Submissions : submissions[r].stage = "idle" /\ submissions[r].probes = 0
  BY DEF NumbersInit, Unsubmitted
<1> QED BY <1>1 DEF QueueOfOne, ProbesInOrder, TakenNumbers, Taken

\* What ProbesInOrder says of one submission.
OrderAt(r) ==
    /\ submissions[r].stage \in {"idle", "waiting"} => submissions[r].probes = 0
    /\ submissions[r].stage = "probing"
       => /\ submissions[r].number > counters[submissions[r].series] + submissions[r].probes
          /\ submissions[r].probes <= MaxProbes
          /\ \A m \in (submissions[r].number - submissions[r].probes)..(submissions[r].number - 1) :
                InUse(<<submissions[r].series, m>>)

\* The numbers that were stepped over are still in use, and still ids.
LEMMA SteppedOverStay ==
    ASSUME NumbersInv, [NumbersNext]_<<numbersVars, spent>>,
           NEW r \in Submissions, submissions[r].stage = "probing",
           NEW m \in (submissions[r].number - submissions[r].probes)..(submissions[r].number - 1)
    PROVE  records'[<<submissions[r].series, m>>] # None
<1>1. /\ submissions[r].number > counters[submissions[r].series] + submissions[r].probes
      /\ InUse(<<submissions[r].series, m>>)
  BY DEF NumbersInv, ProbesInOrder
<1>2. submissions[r].number \in 1..(Handed + 1)
  BY DEF NumbersInv, Bounded
<1>3. r \notin Numbered
  BY DEF Numbered
<1>4. m \in 1..Cardinality(Submissions)
  BY <1>1, <1>2, <1>3, HandedType DEF NumbersInv, NumbersTypeOK, Submission
<1>5. <<submissions[r].series, m>> \in Ids
  BY <1>4 DEF Ids, NumbersInv, NumbersTypeOK, Submission
<1>6. NumbersTypeOK /\ records[<<submissions[r].series, m>>] # None
  BY <1>1 DEF InUse, NumbersInv
<1> QED BY <1>5, <1>6, RecordsRemain

LEMMA OthersInOrder ==
    ASSUME NumbersInv, [NumbersNext]_<<numbersVars, spent>>, NEW r \in Submissions,
           submissions'[r] = submissions[r],
           submissions[r].stage = "probing" => UNCHANGED counters
    PROVE  OrderAt(r)'
<1>1. submissions[r].stage \in {"idle", "waiting"} => submissions[r].probes = 0
  BY DEF NumbersInv, ProbesInOrder
<1>2. CASE submissions[r].stage # "probing"
  BY <1>1, <1>2 DEF OrderAt
<1>3. CASE submissions[r].stage = "probing"
  <2>1. /\ submissions[r].number > counters[submissions[r].series] + submissions[r].probes
        /\ submissions[r].probes <= MaxProbes
    BY <1>3 DEF NumbersInv, ProbesInOrder
  <2>2. \A m \in (submissions[r].number - submissions[r].probes)..(submissions[r].number - 1) :
           records'[<<submissions[r].series, m>>] # None
    BY <1>3, SteppedOverStay
  <2> QED BY <1>3, <2>1, <2>2 DEF OrderAt, InUse
<1> QED BY <1>2, <1>3

LEMMA ProbesInOrderStep ==
    ASSUME NumbersInv, [NumbersNext]_<<numbersVars, spent>>
    PROVE  ProbesInOrder'
<1>1. ASSUME \A r \in Submissions :
                \/ submissions'[r] = submissions[r] /\ (submissions[r].stage = "probing" => UNCHANGED counters)
                \/ OrderAt(r)'
      PROVE  ProbesInOrder'
  <2>1. \A r \in Submissions : OrderAt(r)'
    BY <1>1, OthersInOrder
  <2> QED BY <2>1 DEF ProbesInOrder, OrderAt
<1>2. NumbersTypeOK /\ submissions \in [Submissions -> Submission] /\ counters \in [Series -> Nat]
  BY DEF NumbersInv, NumbersTypeOK
<1> USE DEF Submission
<1>3. ASSUME NEW r \in Submissions, Arrives(r) PROVE ProbesInOrder'
  <2>1. submissions[r].probes = 0
    BY <1>3 DEF Arrives, NumbersInv, ProbesInOrder
  <2>2. OrderAt(r)'
    BY <1>2, <1>3, <2>1 DEF Arrives, OrderAt
  <2> QED BY <1>1, <1>2, <1>3, <2>2 DEF Arrives
<1>4. ASSUME NEW r \in Submissions, Allocates(r) PROVE ProbesInOrder'
  <2>1. submissions[r].probes = 0
    BY <1>4 DEF Allocates, NumbersInv, ProbesInOrder
  <2>2. /\ submissions'[r].probes = 0 /\ submissions'[r].series = submissions[r].series
        /\ submissions'[r].number = counters[submissions[r].series] + 1
        /\ submissions'[r].stage = "probing" /\ counters' = counters
        /\ submissions[r].series \in Series
    BY <1>2, <1>4, <2>1 DEF Allocates
  <2>3. OrderAt(r)'
    BY <1>2, <2>2, SiteNumbersAssumption DEF OrderAt
  <2> QED BY <1>1, <1>2, <1>4, <2>3 DEF Allocates
<1>5. ASSUME NEW r \in Submissions, Probe(r) PROVE ProbesInOrder'
  <2>1. /\ submissions[r].stage = "probing"
        /\ submissions[r].number > counters[submissions[r].series] + submissions[r].probes
        /\ submissions[r].series \in Series /\ submissions[r].number \in Nat /\ submissions[r].probes \in Nat
        /\ counters[submissions[r].series] \in Nat
    BY <1>2, <1>5 DEF Probe, NumbersInv, ProbesInOrder
  <2>2. CASE submissions[r].probes < MaxProbes /\ InUse(Candidate(r))
    <3>1. /\ submissions'[r].number = submissions[r].number + 1
          /\ submissions'[r].probes = submissions[r].probes + 1
          /\ submissions'[r].series = submissions[r].series
          /\ counters' = counters /\ records' = records
      BY <1>2, <1>5, <2>2 DEF Probe
    <3>2. \A m \in (submissions[r].number - submissions[r].probes)..submissions[r].number :
             InUse(<<submissions[r].series, m>>)
      <4> SUFFICES ASSUME NEW m \in (submissions[r].number - submissions[r].probes)..submissions[r].number
                   PROVE  InUse(<<submissions[r].series, m>>)
        OBVIOUS
      <4>1. CASE m = submissions[r].number
        BY <2>2, <4>1 DEF Candidate
      <4>2. CASE m # submissions[r].number
        <5>1. m \in (submissions[r].number - submissions[r].probes)..(submissions[r].number - 1)
          BY <2>1, <4>2
        <5> QED BY <2>1, <5>1 DEF NumbersInv, ProbesInOrder
      <4> QED BY <4>1, <4>2
    <3>3. \A m \in (submissions'[r].number - submissions'[r].probes)..(submissions'[r].number - 1) :
             records'[<<submissions'[r].series, m>>] # None
      <4>1. (submissions'[r].number - submissions'[r].probes)..(submissions'[r].number - 1)
            = (submissions[r].number - submissions[r].probes)..submissions[r].number
        BY <2>1, <3>1
      <4> QED BY <3>1, <3>2, <4>1 DEF InUse
    <3>4. /\ submissions'[r].number > counters'[submissions'[r].series] + submissions'[r].probes
          /\ submissions'[r].probes <= MaxProbes
      BY <2>1, <2>2, <3>1, SiteNumbersAssumption
    <3>5. submissions'[r].stage = "probing"
      BY <1>2, <1>5, <2>1, <2>2 DEF Probe
    <3>6. OrderAt(r)'
      BY <3>3, <3>4, <3>5 DEF OrderAt, InUse
    <3> QED BY <1>1, <1>2, <1>5, <2>2, <3>6 DEF Probe
  <2>3. CASE ~(submissions[r].probes < MaxProbes /\ InUse(Candidate(r)))
    <3>1. submissions'[r].stage = "keeping"
      BY <1>2, <1>5, <2>3 DEF Probe
    <3>2. OrderAt(r)'
      BY <3>1 DEF OrderAt
    <3>3. \A s \in Submissions : s # r => submissions[s].stage # "probing" /\ submissions'[s] = submissions[s]
      BY <1>2, <1>5, <2>1, <2>3 DEF Probe, NumbersInv, QueueOfOne
    <3> QED BY <1>1, <3>2, <3>3
  <2> QED BY <2>2, <2>3
<1>6. ASSUME NEW r \in Submissions, KeepCounters(r) PROVE ProbesInOrder'
  BY <1>1, <1>2, <1>6 DEF KeepCounters, OrderAt
<1>7. ASSUME NEW r \in Submissions, MoveFolder(r) PROVE ProbesInOrder'
  BY <1>1, <1>2, <1>7 DEF MoveFolder, OrderAt
<1>8. ASSUME NEW r \in Submissions, SaveRecord(r) PROVE ProbesInOrder'
  BY <1>1, <1>2, <1>8 DEF SaveRecord, OrderAt
<1>9. ASSUME NEW r \in Submissions, SubmissionFails(r) PROVE ProbesInOrder'
  BY <1>1, <1>2, <1>9 DEF SubmissionFails, OrderAt, Unsubmitted
<1>10. ASSUME NEW r \in Submissions, Filed(r) PROVE ProbesInOrder'
  BY <1>1, <1>2, <1>10 DEF Filed, OrderAt
<1>11. ASSUME NumbersCrash PROVE ProbesInOrder'
  <2>1. \A r \in Submissions : \/ submissions'[r] = submissions[r] /\ submissions[r].stage # "probing"
                               \/ submissions'[r].stage = "gone"
    BY <1>11 DEF NumbersCrash, Unsubmitted
  <2> QED BY <1>1, <2>1 DEF OrderAt
<1>12. ASSUME UNCHANGED <<numbersVars, spent>> PROVE ProbesInOrder'
  BY <1>1, <1>12 DEF numbersVars
<1> QED BY <1>3, <1>4, <1>5, <1>6, <1>7, <1>8, <1>9, <1>10, <1>11, <1>12 DEF NumbersNext

LEMMA QueueOfOneStep ==
    ASSUME NumbersInv, [NumbersNext]_<<numbersVars, spent>>
    PROVE  QueueOfOne'
<1> DEFINE InQueue(r) == submissions[r].stage \in {"probing", "keeping"}
<1>1. ASSUME \A r \in Submissions : InQueue(r)' => InQueue(r) PROVE QueueOfOne'
  BY <1>1 DEF NumbersInv, QueueOfOne
<1>2. submissions \in [Submissions -> Submission]
  BY DEF NumbersInv, NumbersTypeOK
<1> USE DEF Submission
<1>3. ASSUME NEW r \in Submissions, Arrives(r) PROVE QueueOfOne'
  BY <1>1, <1>2, <1>3 DEF Arrives
<1>4. ASSUME NEW r \in Submissions, Allocates(r) PROVE QueueOfOne'
  <2>1. \A s \in Submissions : InQueue(s)' => s = r
    BY <1>2, <1>4 DEF Allocates, Queued
  <2> QED BY <2>1 DEF QueueOfOne
<1>5. ASSUME NEW r \in Submissions, Probe(r) PROVE QueueOfOne'
  BY <1>1, <1>2, <1>5 DEF Probe
<1>6. ASSUME NEW r \in Submissions, KeepCounters(r) PROVE QueueOfOne'
  BY <1>1, <1>2, <1>6 DEF KeepCounters
<1>7. ASSUME NEW r \in Submissions, MoveFolder(r) PROVE QueueOfOne'
  BY <1>1, <1>2, <1>7 DEF MoveFolder
<1>8. ASSUME NEW r \in Submissions, SaveRecord(r) PROVE QueueOfOne'
  BY <1>1, <1>2, <1>8 DEF SaveRecord
<1>9. ASSUME NEW r \in Submissions, SubmissionFails(r) PROVE QueueOfOne'
  BY <1>1, <1>2, <1>9 DEF SubmissionFails, Unsubmitted
<1>10. ASSUME NEW r \in Submissions, Filed(r) PROVE QueueOfOne'
  BY <1>1, <1>2, <1>10 DEF Filed
<1>11. ASSUME NumbersCrash PROVE QueueOfOne'
  BY <1>1, <1>11 DEF NumbersCrash, Unsubmitted
<1>12. ASSUME UNCHANGED <<numbersVars, spent>> PROVE QueueOfOne'
  BY <1>1, <1>12 DEF numbersVars
<1> QED BY <1>3, <1>4, <1>5, <1>6, <1>7, <1>8, <1>9, <1>10, <1>11, <1>12 DEF NumbersNext

\* A step that hands out no number and claims no taken one.
LEMMA TakenGoOn ==
    ASSUME NumbersInv, [NumbersNext]_<<numbersVars, spent>>, UNCHANGED counters,
           \A r \in Submissions : Taken(r)' => /\ Taken(r)
                                               /\ submissions'[r].series = submissions[r].series
                                               /\ submissions'[r].number = submissions[r].number,
           \A r \in Submissions : /\ Taken(r)' /\ submissions[r].series \notin LongPast
                                  /\ records'[Candidate(r)] # None
                                  => InUse(Candidate(r))
    PROVE  TakenNumbers'
<1> SUFFICES ASSUME NEW r \in Submissions, Taken(r)', submissions[r].series \notin LongPast
             PROVE  /\ submissions[r].number <= counters[submissions[r].series]
                    /\ records'[Candidate(r)] # None => Crowded(submissions[r].series)'
                    /\ \A s \in Submissions : Taken(s)' /\ Candidate(s) = Candidate(r) => s = r
  BY DEF TakenNumbers, InUse, Candidate
<1>1. Taken(r)
  OBVIOUS
<1>2. records'[Candidate(r)] # None => Crowded(submissions[r].series)
  BY <1>1 DEF NumbersInv, TakenNumbers
<1> QED BY <1>1, <1>2, CrowdedStays DEF NumbersInv, TakenNumbers

LEMMA TakenNumbersStep ==
    ASSUME NumbersInv, [NumbersNext]_<<numbersVars, spent>>
    PROVE  TakenNumbers'
<1>1. submissions \in [Submissions -> Submission] /\ counters \in [Series -> Nat]
  BY DEF NumbersInv, NumbersTypeOK
<1>2. ASSUME ~\E r \in Submissions : Taken(r)' PROVE TakenNumbers'
  BY <1>2 DEF TakenNumbers
<1> USE DEF Submission
<1>3. ASSUME NEW r \in Submissions, Arrives(r) PROVE TakenNumbers'
  BY <1>1, <1>3, TakenGoOn DEF Arrives, Taken, InUse
<1>4. ASSUME NEW r \in Submissions, Allocates(r) PROVE TakenNumbers'
  BY <1>1, <1>4, TakenGoOn DEF Allocates, Taken, InUse
<1>5. ASSUME NEW r \in Submissions, Probe(r), submissions[r].probes < MaxProbes /\ InUse(Candidate(r))
      PROVE  TakenNumbers'
  BY <1>1, <1>5, TakenGoOn DEF Probe, Taken, InUse
<1>6. ASSUME NEW r \in Submissions, Probe(r), ~(submissions[r].probes < MaxProbes /\ InUse(Candidate(r)))
      PROVE  TakenNumbers'
  <2> DEFINE c == submissions[r].series
             n == submissions[r].number
  <2>1. /\ submissions[r].stage = "probing"
        /\ n > counters[c] + submissions[r].probes /\ submissions[r].probes <= MaxProbes
        /\ c \in Series /\ n \in Nat /\ submissions[r].probes \in Nat /\ counters[c] \in Nat
        /\ \A m \in (n - submissions[r].probes)..(n - 1) : InUse(<<c, m>>)
    BY <1>1, <1>6 DEF Probe, NumbersInv, ProbesInOrder
  <2>2. n \in 1..Cardinality(Submissions)
    <3>1. r \notin Numbered /\ n \in 1..(Handed + 1)
      BY <2>1 DEF Numbered, NumbersInv, Bounded
    <3> QED BY <3>1, HandedType
  <2>3. InUse(<<c, n>>) => Crowded(c)
    <3> SUFFICES ASSUME InUse(<<c, n>>) PROVE Crowded(c)
      OBVIOUS
    <3>1. submissions[r].probes = MaxProbes
      BY <1>6, <2>1, SiteNumbersAssumption DEF Candidate
    <3>2. n > MaxProbes
      BY <2>1, <3>1
    <3>3. \A m \in (n - MaxProbes)..n : InUse(<<c, m>>)
      BY <2>1, <3>1
    <3> QED BY <2>1, <2>2, <3>2, <3>3, GivingUpIsCrowded
  <2>4. /\ submissions' = [submissions EXCEPT ![r].stage = "keeping"]
        /\ counters' = [counters EXCEPT ![c] = IF c \in LongPast THEN 0 ELSE n]
        /\ UNCHANGED records
    BY <1>6 DEF Probe
  <2>5. \A s \in Submissions : /\ submissions'[s].series = submissions[s].series
                               /\ submissions'[s].number = submissions[s].number
                               /\ Taken(s)' <=> Taken(s) \/ s = r
    BY <1>1, <2>4 DEF Taken
  <2>6. \A s \in Submissions : Taken(s) /\ submissions[s].series = c /\ c \notin LongPast
                               => submissions[s].number <= counters[c] /\ submissions[s].number < n
    BY <1>1, <2>1 DEF NumbersInv, TakenNumbers
  <2> SUFFICES ASSUME NEW s \in Submissions, Taken(s)', submissions[s].series \notin LongPast
               PROVE  /\ submissions[s].number <= counters'[submissions[s].series]
                      /\ InUse(Candidate(s)) => Crowded(submissions[s].series)'
                      /\ \A t \in Submissions : Taken(t)' /\ Candidate(t) = Candidate(s) => t = s
    BY <2>4, <2>5 DEF TakenNumbers, InUse, Candidate
  <2>7. submissions[s].number <= counters'[submissions[s].series]
    BY <1>1, <2>1, <2>4, <2>5, <2>6 DEF NumbersInv, TakenNumbers
  <2>8. InUse(Candidate(s)) => Crowded(submissions[s].series)
    BY <2>3, <2>5 DEF NumbersInv, TakenNumbers, Candidate
  <2>9. ASSUME NEW t \in Submissions, Taken(t)', Candidate(t) = Candidate(s) PROVE t = s
    <3>1. submissions[t].series = submissions[s].series /\ submissions[t].number = submissions[s].number
      BY <2>9 DEF Candidate
    <3>2. CASE Taken(t) /\ Taken(s)
      BY <2>9, <3>2 DEF NumbersInv, TakenNumbers
    <3>3. CASE ~(Taken(t) /\ Taken(s))
      BY <1>1, <2>5, <2>6, <2>9, <3>1, <3>3
    <3> QED BY <3>2, <3>3
  <2>10. \A d : Crowded(d) => Crowded(d)'
    BY CrowdedStays DEF NumbersInv
  <2> QED BY <2>5, <2>7, <2>8, <2>9, <2>10
<1>7. ASSUME NEW r \in Submissions, KeepCounters(r) PROVE TakenNumbers'
  BY <1>1, <1>7, TakenGoOn DEF KeepCounters, Taken, InUse
<1>8. ASSUME NEW r \in Submissions, MoveFolder(r) PROVE TakenNumbers'
  BY <1>1, <1>8, TakenGoOn DEF MoveFolder, Taken, InUse
<1>9. ASSUME NEW r \in Submissions, SaveRecord(r) PROVE TakenNumbers'
  <2>1. \A s \in Submissions : Taken(s)' => /\ Taken(s) /\ s # r
                                            /\ submissions'[s] = submissions[s]
    BY <1>1, <1>9 DEF SaveRecord, Taken
  <2>2. Taken(r) /\ submissions[r].id \in {Placeholder(r), Candidate(r)}
    BY <1>9 DEF SaveRecord, Taken, NumbersInv, Bounded
  <2>3. ASSUME NEW s \in Submissions, Taken(s)', submissions[s].series \notin LongPast
        PROVE  submissions[r].id # Candidate(s)
    <3>1. Candidate(r) # Candidate(s)
      BY <2>1, <2>2, <2>3 DEF NumbersInv, TakenNumbers
    <3>2. submissions[s].number \in 1..Handed
      BY <2>1, <2>3 DEF Taken, NumbersInv, Bounded
    <3> QED BY <2>2, <3>1, <3>2 DEF Placeholder, Candidate
  <2>4. \A s \in Submissions : /\ Taken(s)' /\ submissions[s].series \notin LongPast
                               /\ records'[Candidate(s)] # None
                               => InUse(Candidate(s))
    BY <1>9, <2>3 DEF SaveRecord, InUse, NumbersInv, NumbersTypeOK
  <2> QED BY <1>9, <2>1, <2>4, TakenGoOn DEF SaveRecord
<1>10. ASSUME NEW r \in Submissions, SubmissionFails(r) PROVE TakenNumbers'
  BY <1>1, <1>10, TakenGoOn DEF SubmissionFails, Taken, InUse, Unsubmitted
<1>11. ASSUME NEW r \in Submissions, Filed(r) PROVE TakenNumbers'
  BY <1>1, <1>11, TakenGoOn DEF Filed, Taken, InUse
<1>12. ASSUME NumbersCrash PROVE TakenNumbers'
  BY <1>2, <1>12 DEF NumbersCrash, Taken, Unsubmitted
<1>13. ASSUME UNCHANGED <<numbersVars, spent>> PROVE TakenNumbers'
  BY <1>13, TakenGoOn DEF numbersVars, Taken, InUse
<1> QED BY <1>3, <1>4, <1>5, <1>6, <1>7, <1>8, <1>9, <1>10, <1>11, <1>12, <1>13 DEF NumbersNext

----------------------------------------------------------------------------
(* Photos stay with their submission *)

\* The id under which a submission's photos are, and when it has them there.
HomeOf(r) == IF submissions[r].stage \in {"waiting", "probing", "keeping", "moving"}
             THEN Placeholder(r) ELSE submissions[r].id

HasPhotos(r) ==
    \/ submissions[r].stage \in {"waiting", "probing", "keeping", "moving", "saving"}
    \/ submissions[r].stage = "accepted" /\ records[submissions[r].id] = r

PhotosAtHome == \A r \in Submissions : HasPhotos(r) => folders[HomeOf(r)] = r

LEMMA PhotosAtHomeSays ==
    PhotosAtHome <=> FoldersHaveOwners /\ \A r \in Submissions : PhotosFit(r)
BY DEF PhotosAtHome, HasPhotos, HomeOf, FoldersHaveOwners, PhotosFit

LEMMA Homes ==
    ASSUME NumbersInv, NEW r \in Submissions, HasPhotos(r)
    PROVE  /\ HomeOf(r) \in Ids
           /\ \A s \in Submissions : s # r => HomeOf(r) # Placeholder(s)
<1>1. CASE HomeOf(r) = Placeholder(r)
  BY <1>1 DEF Placeholder, Ids
<1>2. CASE HomeOf(r) # Placeholder(r)
  <2>1. submissions[r].stage \in {"saving", "accepted"} /\ HomeOf(r) = Candidate(r)
    BY <1>2 DEF HasPhotos, HomeOf, NumbersInv, Bounded
  <2>2. submissions[r].number \in 1..Cardinality(Submissions)
    BY <2>1, HandedType DEF NumbersInv, Bounded
  <2>3. Candidate(r) \in Ids
    BY <2>2, IdTypes DEF NumbersInv
  <2>4. \A s \in Submissions : Candidate(r) # Placeholder(s)
    BY <2>2 DEF Candidate, Placeholder
  <2> QED BY <2>1, <2>3, <2>4
<1> QED BY <1>1, <1>2

\* A submission that the step is not about keeps its photos where nobody else's
\* folder changes.
LEMMA OthersKeepPhotos ==
    ASSUME NumbersInv, PhotosAtHome, NEW r \in Submissions, HasPhotos(r)',
           submissions'[r] = submissions[r],
           records'[submissions[r].id] = r => records[submissions[r].id] = r,
           HasPhotos(r) => folders'[HomeOf(r)] = folders[HomeOf(r)]
    PROVE  folders'[HomeOf(r)'] = r
<1>1. HasPhotos(r) /\ HomeOf(r)' = HomeOf(r)
  BY DEF HasPhotos, HomeOf, Placeholder
<1> QED BY <1>1 DEF PhotosAtHome

LEMMA PhotosAtHomeStep ==
    ASSUME NumbersInv, PhotosAtHome, [NumbersNext]_<<numbersVars, spent>>
    PROVE  PhotosAtHome'
<1>1. /\ submissions \in [Submissions -> Submission]
      /\ records \in [Ids -> Submissions \cup {None}] /\ folders \in [Ids -> Submissions \cup {None}]
  BY DEF NumbersInv, NumbersTypeOK
<1> USE DEF Submission
\* A step of s that touches no other submission and replaces none of their records.
<1>2. ASSUME NEW s \in Submissions,
             \A r \in Submissions \ {s} :
                /\ submissions'[r] = submissions[r]
                /\ records'[submissions[r].id] = r => records[submissions[r].id] = r
                /\ HasPhotos(r) => folders'[HomeOf(r)] = folders[HomeOf(r)],
             HasPhotos(s)' => folders'[HomeOf(s)'] = s
      PROVE  PhotosAtHome'
  <2> SUFFICES ASSUME NEW r \in Submissions, HasPhotos(r)' PROVE folders'[HomeOf(r)'] = r
    BY DEF PhotosAtHome
  <2>1. CASE r = s
    BY <1>2, <2>1
  <2>2. CASE r # s
    BY <1>2, <2>2, OthersKeepPhotos
  <2> QED BY <2>1, <2>2
<1>3. ASSUME NEW s \in Submissions, Arrives(s) PROVE PhotosAtHome'
  <2>1. \A r \in Submissions \ {s} : HasPhotos(r) => folders'[HomeOf(r)] = folders[HomeOf(r)]
    BY <1>1, <1>3, Homes DEF Arrives
  <2>2. folders'[HomeOf(s)'] = s
    <3>1. HomeOf(s)' = Placeholder(s) /\ Placeholder(s) \in Ids
      BY <1>1, <1>3 DEF Arrives, HomeOf, Placeholder, Ids
    <3> QED BY <1>1, <1>3, <3>1 DEF Arrives
  <2> QED BY <1>1, <1>2, <1>3, <2>1, <2>2 DEF Arrives
<1>4. ASSUME NEW s \in Submissions, Allocates(s) PROVE PhotosAtHome'
  <2>1. HasPhotos(s) /\ HomeOf(s)' = HomeOf(s)
    BY <1>1, <1>4 DEF Allocates, HasPhotos, HomeOf, Placeholder
  <2>2. folders'[HomeOf(s)'] = s
    BY <1>4, <2>1 DEF Allocates, PhotosAtHome
  <2> QED BY <1>1, <1>2, <1>4, <2>2 DEF Allocates
<1>5. ASSUME NEW s \in Submissions, Probe(s) PROVE PhotosAtHome'
  <2>1. HasPhotos(s) /\ HomeOf(s)' = HomeOf(s)
    BY <1>1, <1>5 DEF Probe, HasPhotos, HomeOf, Placeholder
  <2>2. folders'[HomeOf(s)'] = s
    BY <1>5, <2>1 DEF Probe, PhotosAtHome
  <2> QED BY <1>1, <1>2, <1>5, <2>2 DEF Probe
<1>6. ASSUME NEW s \in Submissions, KeepCounters(s) PROVE PhotosAtHome'
  <2>1. HasPhotos(s) /\ HomeOf(s)' = HomeOf(s)
    BY <1>1, <1>6 DEF KeepCounters, HasPhotos, HomeOf, Placeholder
  <2>2. folders'[HomeOf(s)'] = s
    BY <1>6, <2>1 DEF KeepCounters, PhotosAtHome
  <2> QED BY <1>1, <1>2, <1>6, <2>2 DEF KeepCounters
<1>7. ASSUME NEW s \in Submissions, MoveFolder(s) PROVE PhotosAtHome'
  <2>1. /\ submissions[s].stage = "moving" /\ HasPhotos(s) /\ folders[Placeholder(s)] = s
        /\ submissions'[s].stage = "saving" /\ HomeOf(s)' = submissions'[s].id
        /\ \A r \in Submissions \ {s} : submissions'[r] = submissions[r]
        /\ UNCHANGED records
    BY <1>1, <1>7 DEF MoveFolder, HasPhotos, HomeOf, PhotosAtHome
  <2>2. Placeholder(s) \in Ids /\ Candidate(s) \in Ids /\ Candidate(s) # Placeholder(s)
    <3>1. submissions[s].number \in 1..Cardinality(Submissions)
      BY <2>1, HandedType DEF NumbersInv, Bounded
    <3> QED BY <3>1, IdTypes DEF NumbersInv, Candidate, Placeholder
  <2>3. CASE /\ Free(Candidate(s))
             /\ folders' = [folders EXCEPT ![Placeholder(s)] = None, ![Candidate(s)] = s]
             /\ submissions'[s].id = Candidate(s)
    <3>1. ASSUME NEW r \in Submissions \ {s}, HasPhotos(r)
          PROVE  folders'[HomeOf(r)] = folders[HomeOf(r)]
      <4>1. folders[HomeOf(r)] = r /\ HomeOf(r) # Placeholder(s) /\ HomeOf(r) \in Ids
        BY <3>1, Homes DEF PhotosAtHome
      <4>2. HomeOf(r) # Candidate(s)
        BY <2>3, <4>1, SiteNumbersAssumption DEF Free
      <4> QED BY <1>1, <2>3, <4>1, <4>2
    <3>2. folders'[HomeOf(s)'] = s
      BY <1>1, <2>1, <2>2, <2>3
    <3> QED BY <1>2, <2>1, <3>1, <3>2
  <2>4. CASE UNCHANGED folders /\ submissions'[s].id = Placeholder(s)
    BY <1>2, <2>1, <2>4
  <2> QED BY <1>1, <1>7, <2>3, <2>4 DEF MoveFolder
<1>8. ASSUME NEW s \in Submissions, SaveRecord(s) PROVE PhotosAtHome'
  <2>1. /\ submissions[s].stage = "saving" /\ HasPhotos(s) /\ folders[submissions[s].id] = s
        /\ HomeOf(s)' = submissions[s].id
        /\ \A r \in Submissions \ {s} : submissions'[r] = submissions[r]
        /\ UNCHANGED folders
    BY <1>1, <1>8 DEF SaveRecord, HasPhotos, HomeOf, PhotosAtHome
  <2>2. \A r \in Submissions \ {s} :
           records'[submissions[r].id] = r => records[submissions[r].id] = r
    BY <1>1, <1>8 DEF SaveRecord
  <2> QED BY <1>2, <2>1, <2>2
<1>9. ASSUME NEW s \in Submissions, HasPhotos(s), submissions'[s].stage = "gone",
             \A r \in Submissions \ {s} : submissions'[r] = submissions[r],
             folders' = [folders EXCEPT ![HomeOf(s)] = None], UNCHANGED records
      PROVE  PhotosAtHome'
  <2>1. ASSUME NEW r \in Submissions \ {s}, HasPhotos(r)
        PROVE  folders'[HomeOf(r)] = folders[HomeOf(r)]
    <3>1. folders[HomeOf(r)] = r /\ folders[HomeOf(s)] = s
      BY <1>9, <2>1 DEF PhotosAtHome
    <3> QED BY <1>1, <1>9, <3>1
  <2>2. ~HasPhotos(s)'
    BY <1>9 DEF HasPhotos
  <2> QED BY <1>2, <1>9, <2>1, <2>2
<1>10. ASSUME NEW s \in Submissions, SubmissionFails(s) PROVE PhotosAtHome'
  <2>1. HasPhotos(s) /\ folders' = [folders EXCEPT ![HomeOf(s)] = None]
    BY <1>10 DEF SubmissionFails, HasPhotos, HomeOf
  <2>2. /\ submissions'[s].stage = "gone" /\ UNCHANGED records
        /\ \A r \in Submissions \ {s} : submissions'[r] = submissions[r]
    BY <1>1, <1>10 DEF SubmissionFails, Unsubmitted
  <2> QED BY <1>9, <2>1, <2>2
<1>11. ASSUME NEW s \in Submissions, Filed(s) PROVE PhotosAtHome'
  <2>1. HasPhotos(s) /\ folders' = [folders EXCEPT ![HomeOf(s)] = None]
    BY <1>11 DEF Filed, HasPhotos, HomeOf
  <2>2. /\ submissions'[s].stage = "gone" /\ UNCHANGED records
        /\ \A r \in Submissions \ {s} : submissions'[r] = submissions[r]
    BY <1>1, <1>11 DEF Filed
  <2> QED BY <1>9, <2>1, <2>2
<1>12. ASSUME NumbersCrash PROVE PhotosAtHome'
  <2> SUFFICES ASSUME NEW r \in Submissions, HasPhotos(r)' PROVE folders'[HomeOf(r)'] = r
    BY DEF PhotosAtHome
  <2>1. submissions'[r] = submissions[r] /\ UNCHANGED <<records, folders>>
    BY <1>12 DEF NumbersCrash, HasPhotos, Unsubmitted
  <2> QED BY <2>1, OthersKeepPhotos
<1>13. ASSUME UNCHANGED <<numbersVars, spent>> PROVE PhotosAtHome'
  BY <1>13 DEF numbersVars, PhotosAtHome, HasPhotos, HomeOf, Placeholder
<1> QED BY <1>3, <1>4, <1>5, <1>6, <1>7, <1>8, <1>10, <1>11, <1>12, <1>13 DEF NumbersNext

----------------------------------------------------------------------------
(* Submissions stay apart *)

LEMMA IInvInit == NumbersInit => IInv
<1> SUFFICES ASSUME NumbersInit PROVE IInv
  OBVIOUS
<1>1. \A r \in Submissions : submissions[r].stage = "idle"
  BY DEF NumbersInit, Unsubmitted
<1>2. FoldersHaveOwners /\ \A r \in Submissions : PhotosFit(r)
  BY <1>1 DEF FoldersHaveOwners, PhotosFit
<1>3. PlaceholdersOwn
  BY DEF NumbersInit, PlaceholdersOwn, Placeholder, Ids
<1> QED BY <1>2, <1>3, TypeInit, BoundedInit, NumbersInvInit DEF IInv

LEMMA PlaceholdersOwnStep ==
    ASSUME NumbersTypeOK, Bounded, PlaceholdersOwn, [NumbersNext]_<<numbersVars, spent>>
    PROVE  PlaceholdersOwn'
<1>1. ASSUME NEW r \in Submissions, SaveRecord(r) PROVE PlaceholdersOwn'
  <2>1. submissions[r].id \in {Placeholder(r), Candidate(r)} /\ submissions[r].number \in 1..Handed
    BY <1>1 DEF SaveRecord, Bounded
  <2>2. \A s \in Submissions : submissions[r].id = Placeholder(s) => s = r
    BY <2>1, HandedType DEF Placeholder, Candidate
  <2>3. \A s \in Submissions : Placeholder(s) \in Ids
    BY DEF Placeholder, Ids
  <2>4. records \in [Ids -> Submissions \cup {None}] /\ records' = [records EXCEPT ![submissions[r].id] = r]
    BY <1>1 DEF SaveRecord, NumbersTypeOK
  <2>5. \A s \in Submissions : records'[Placeholder(s)] \in {s, None}
    BY <2>2, <2>3, <2>4 DEF PlaceholdersOwn
  <2> QED BY <2>5 DEF PlaceholdersOwn, Placeholder
<1>2. ASSUME UNCHANGED records PROVE PlaceholdersOwn'
  BY <1>2 DEF PlaceholdersOwn, Placeholder
<1> QED BY <1>1, <1>2 DEF NumbersNext, Arrives, Allocates, Probe, KeepCounters, MoveFolder,
                          SubmissionFails, Filed, NumbersCrash, numbersVars

LEMMA IInvStep == IInv /\ [NumbersNext]_<<numbersVars, spent>> => IInv'
<1> SUFFICES ASSUME IInv, [NumbersNext]_<<numbersVars, spent>> PROVE IInv'
  OBVIOUS
<1>1. NumbersInv /\ PhotosAtHome
  BY PhotosAtHomeSays DEF IInv, NumbersInv
<1>2. NumbersTypeOK' /\ Bounded'
  BY TypeStep, BoundedStep DEF IInv
<1>3. QueueOfOne' /\ ProbesInOrder' /\ TakenNumbers'
  BY <1>1, QueueOfOneStep, ProbesInOrderStep, TakenNumbersStep
<1>4. PhotosAtHome'
  BY <1>1, PhotosAtHomeStep
<1>5. FoldersHaveOwners' /\ (\A r \in Submissions : PhotosFit(r))'
  BY <1>4, PhotosAtHomeSays, PTL
<1>6. PlaceholdersOwn'
  BY PlaceholdersOwnStep DEF IInv
<1> QED BY <1>2, <1>3, <1>5, <1>6 DEF IInv

\* A record is only replaced by its own submission's, where numbers are not
\* known to run into each other.
LEMMA RecordsStay ==
    ASSUME IInv, [NumbersNext]_<<numbersVars, spent>>, NEW i \in Ids
    PROVE  RecordStays(i)
<1> SUFFICES ASSUME records[i] # None, records'[i] # records[i], i[1] \notin LongPast
             PROVE  Crowded(i[1])
  BY DEF RecordStays, Crowded, Records
<1>1. PICK r \in Submissions : SaveRecord(r)
  BY DEF NumbersNext, Arrives, Allocates, Probe, KeepCounters, MoveFolder, SubmissionFails,
         Filed, NumbersCrash, numbersVars
<1>2. i = submissions[r].id /\ submissions[r].stage = "saving" /\ records' = [records EXCEPT ![i] = r]
  BY <1>1 DEF SaveRecord, IInv, NumbersTypeOK
<1>3. i \in {Placeholder(r), Candidate(r)}
  BY <1>2 DEF IInv, Bounded
<1>4. CASE i = Candidate(r)
  BY <1>2, <1>4 DEF IInv, TakenNumbers, Taken, Candidate, InUse
<1>5. CASE i = Placeholder(r)
  <2>1. records[i] = r
    BY <1>5 DEF IInv, PlaceholdersOwn
  <2> QED BY <1>2, <2>1 DEF IInv, NumbersTypeOK
<1> QED BY <1>3, <1>4, <1>5

\* Nobody's record is replaced by another submission's and nobody's photos are
\* filed as somebody else's, for any number of submissions and of probes, with
\* lost counters, failed renames, failed saves and restarts in any order.
THEOREM SubmissionsAreKeptApart == NumbersSpec => SubmissionsStayApart
<1> DEFINE Stays == /\ \A i \in Ids : RecordStays(i)
                    /\ \A r \in Submissions : PhotosFit(r)'
<1>1. IInv /\ [NumbersNext]_<<numbersVars, spent>> => Stays
  <2> SUFFICES ASSUME IInv, [NumbersNext]_<<numbersVars, spent>> PROVE Stays
    OBVIOUS
  <2>1. \A r \in Submissions : PhotosFit(r)'
    BY IInvStep DEF IInv
  <2> QED BY <2>1, RecordsStay
<1>2. NumbersSpec => []IInv
  BY IInvInit, IInvStep, PTL DEF NumbersSpec
<1>3. NumbersSpec => [][Stays]_<<numbersVars, spent>>
  BY <1>1, <1>2, PTL DEF NumbersSpec
<1> QED BY <1>3, PTL DEF SubmissionsStayApart

----------------------------------------------------------------------------
(* The sheet: the least number, and what a filter keeps *)

LEMMA LeastNat == ASSUME NEW T, T \subseteq Nat, T # {} PROVE \E x \in T : \A y \in T : x <= y
<1> DEFINE R == OpToRel(<, Nat)
<1>1. IsWellFoundedOn(R, Nat)
  BY NatLessThanWellFounded
<1>2. \A x, y \in Nat : x < y => <<x, y>> \in R
  BY DEF OpToRel
<1> HIDE DEF R
<1>3. \E x \in T : \A y \in T : ~ (<<y, x>> \in R)
  BY <1>1, WFMin
<1>4. PICK x \in T : \A y \in T : ~ (<<y, x>> \in R)
  BY <1>3
<1>5. ASSUME NEW y \in T PROVE x <= y
  <2>1. x \in Nat /\ y \in Nat /\ ~(y < x)
    BY <1>2, <1>4
  <2> QED BY <2>1
<1> QED BY <1>5

\* The first entries of s that are in keep, one after the other.
Firsts(f, s, keep, n) ==
    f = [k \in 0 .. n |-> IF k = 0 THEN << >>
                          ELSE IF s[k] \in keep THEN Append(f[k - 1], s[k]) ELSE f[k - 1]]

LEMMA FirstsExist == ASSUME NEW s, NEW keep, NEW n \in Nat PROVE \E f : Firsts(f, s, keep, n)
<1> DEFINE Bad == {k \in Nat : ~ \E f : Firsts(f, s, keep, k)}
<1> SUFFICES ASSUME Bad # {} PROVE FALSE
  OBVIOUS
<1>1. PICK k \in Bad : \A j \in Bad : k <= j
  BY LeastNat
<1>2. k # 0
  <2>1. Firsts([j \in 0 .. 0 |-> << >>], s, keep, 0)
    BY DEF Firsts
  <2> QED BY <2>1
<1>3. k - 1 \in Nat /\ ~(k <= k - 1)
  BY <1>2
<1>4. PICK f : Firsts(f, s, keep, k - 1)
  BY <1>1, <1>3
<1> DEFINE h == [j \in 0 .. k |-> IF j = 0 THEN << >>
                                  ELSE IF s[j] \in keep THEN Append(f[j - 1], s[j]) ELSE f[j - 1]]
<1>5. ASSUME NEW j \in 0 .. k - 1 PROVE h[j] = f[j]
  <2>1. j \in 0 .. k
    BY <1>3
  <2>2. f[j] = IF j = 0 THEN << >> ELSE IF s[j] \in keep THEN Append(f[j - 1], s[j]) ELSE f[j - 1]
    BY <1>4 DEF Firsts
  <2> QED BY <2>1, <2>2
<1>6. Firsts(h, s, keep, k)
  <2>1. \A j \in 0 .. k : j # 0 => j - 1 \in 0 .. k - 1
    BY <1>3
  <2> QED BY <1>5, <2>1 DEF Firsts
<1> QED BY <1>1, <1>6

Places(at, s, keep, k, n) ==
    /\ Len(k) \in Nat /\ DOMAIN k = 1 .. Len(k) /\ at \in [1 .. Len(k) -> 1 .. n]
    /\ \A i, j \in 1 .. Len(k) : i < j => at[i] < at[j]
    /\ \A i \in 1 .. Len(k) : k[i] = s[at[i]] /\ k[i] \in keep
    /\ \A j \in 1 .. n : s[j] \in keep => \E i \in 1 .. Len(k) : at[i] = j

Built(k, s, keep, n, S) == k \in Seq(S) /\ \E at : Places(at, s, keep, k, n)

Adds(q, k, s, n, keep) == q = IF s[n] \in keep THEN Append(k, s[n]) ELSE k

LEMMA OneMore ==
    ASSUME NEW S, NEW s \in Seq(S), NEW keep, NEW n \in 1 .. Len(s),
           NEW k, Built(k, s, keep, n - 1, S), NEW q, Adds(q, k, s, n, keep)
    PROVE Built(q, s, keep, n, S)
<1> USE DEF Built, Adds
<1>0. PICK at : Places(at, s, keep, k, n - 1)
  OBVIOUS
<1>1. n \in Nat /\ n - 1 \in Nat /\ s[n] \in S /\ Len(k) \in Nat
  OBVIOUS
<1>2. CASE s[n] \notin keep
  <2>1. 1 .. n - 1 \subseteq 1 .. n /\ \A j \in 1 .. n : j # n => j \in 1 .. n - 1
    BY <1>1
  <2>2. at \in [1 .. Len(k) -> 1 .. n] /\ \A j \in 1 .. n : s[j] \in keep => \E i \in 1 .. Len(k) : at[i] = j
    BY <1>0, <1>2, <2>1 DEF Places
  <2>3. Places(at, s, keep, k, n)
    BY <1>0, <2>2 DEF Places
  <2> QED BY <1>2, <2>3
<1>3. CASE s[n] \in keep
  <2> DEFINE m == Len(k) + 1
             b == [i \in 1 .. m |-> IF i = m THEN n ELSE at[i]]
  <2>1. q \in Seq(S) /\ Len(q) = m /\ DOMAIN q = 1 .. m /\ q[m] = s[n] /\ \A i \in 1 .. Len(k) : q[i] = k[i]
    BY <1>1, <1>3
  <2>2. \A i \in 1 .. m : i # m => i \in 1 .. Len(k)
    BY <1>1
  <2>3. \A i \in 1 .. Len(k) : at[i] \in 1 .. n - 1
    BY <1>0 DEF Places
  <2>4. b \in [1 .. m -> 1 .. n] /\ \A i, j \in 1 .. m : i < j => b[i] < b[j]
    BY <1>0, <1>1, <2>2, <2>3 DEF Places
  <2>5. \A i \in 1 .. m : q[i] = s[b[i]] /\ q[i] \in keep
    BY <1>0, <1>3, <2>1, <2>2 DEF Places
  <2>6. \A j \in 1 .. n : s[j] \in keep => \E i \in 1 .. m : b[i] = j
    <3> SUFFICES ASSUME NEW j \in 1 .. n, s[j] \in keep PROVE \E i \in 1 .. m : b[i] = j
      OBVIOUS
    <3>1. CASE j = n
      BY <1>1, <3>1
    <3>2. CASE j # n
      <4>1. j \in 1 .. n - 1
        BY <1>1, <3>2
      <4>2. PICK i \in 1 .. Len(k) : at[i] = j
        BY <1>0, <4>1 DEF Places
      <4> QED BY <1>1, <4>2
    <3> QED BY <3>1, <3>2
  <2>7. Places(b, s, keep, q, n)
    <3> HIDE DEF b
    <3> QED BY <1>1, <2>1, <2>4, <2>5, <2>6 DEF Places
  <2> QED BY <2>1, <2>7
<1> QED BY <1>2, <1>3

LEMMA FilteredHasPlaces == ASSUME NEW S, NEW s \in Seq(S), NEW keep
    PROVE Filtered(s, keep) \in Seq(S) /\ \E at : Places(at, s, keep, Filtered(s, keep), Len(s))
<1> DEFINE Is(g) == g = [n \in 0 .. Len(s) |-> IF n = 0 THEN << >>
                          ELSE IF s[n] \in keep THEN Append(g[n - 1], s[n]) ELSE g[n - 1]]
           f == CHOOSE g : Is(g)
<1>1. Len(s) \in Nat
  OBVIOUS
<1>2. \E g : Is(g)
  <2>1. PICK g : Firsts(g, s, keep, Len(s))
    BY <1>1, FirstsExist
  <2>2. Is(g)
    BY <2>1 DEF Firsts
  <2> QED BY <2>2
<1>3. Is(f)
  BY <1>2
<1>4. Filtered(s, keep) = f[Len(s)]
  BY DEF Filtered
<1> HIDE DEF f
<1> DEFINE Bad == {n \in 0 .. Len(s) : ~Built(f[n], s, keep, n, S)}
<1>5. Bad = {}
  <2> SUFFICES ASSUME Bad # {} PROVE FALSE
    OBVIOUS
  <2>1. Bad \subseteq Nat
    BY <1>1
  <2>2. PICK k \in Bad : \A j \in Bad : k <= j
    BY <2>1, LeastNat
  <2>3. Built(f[0], s, keep, 0, S)
    <3>1. f[0] = << >>
      BY <1>1, <1>3
    <3>2. Places(<< >>, s, keep, << >>, 0)
      BY DEF Places
    <3> QED BY <3>1, <3>2 DEF Built
  <2>4. k \in 1 .. Len(s) /\ k - 1 \in 0 .. Len(s) /\ ~(k <= k - 1)
    BY <1>1, <2>2, <2>3
  <2>5. Built(f[k - 1], s, keep, k - 1, S)
    BY <2>2, <2>4
  <2>6. Adds(f[k], f[k - 1], s, k, keep)
    <3>1. f[k] = IF k = 0 THEN << >> ELSE IF s[k] \in keep THEN Append(f[k - 1], s[k]) ELSE f[k - 1]
      BY <1>3, <1>1, <2>4
    <3> QED BY <2>4, <3>1 DEF Adds
  <2>7. Built(f[k], s, keep, k, S)
    BY <2>4, <2>5, <2>6, OneMore
  <2> QED BY <2>2, <2>7
<1> QED BY <1>1, <1>4, <1>5 DEF Built

----------------------------------------------------------------------------
(* The sheet: names and columns *)

LEMMA LeastSays == ASSUME NEW T, T \subseteq Nat, T # {} PROVE Least(T) \in T /\ \A k \in T : Least(T) <= k
  BY LeastNat DEF Least

LEMMA LeastIs == ASSUME NEW T, T \subseteq Nat, NEW n \in T, \A k \in T : n <= k PROVE Least(T) = n
<1>1. Least(T) \in T /\ Least(T) <= n /\ n <= Least(T)
  BY LeastSays
<1>2. Least(T) \in Nat /\ n \in Nat
  BY <1>1
<1> QED BY <1>1, <1>2

\* A column at j moves those from j on.
Moved(j, k) == IF k < j THEN k ELSE k + 1

LEMMA MovedSays == ASSUME NEW n \in Nat, NEW j \in 1 .. n + 1
    PROVE /\ \A k \in 1 .. n : Moved(j, k) \in 1 .. n + 1 /\ Moved(j, k) # j
          /\ \A k \in 1 .. n + 1 : k # j => \E i \in 1 .. n : Moved(j, i) = k
          /\ \A i, k \in 1 .. n + 1 : (i < k <=> Moved(j, i) < Moved(j, k)) /\ (i <= k <=> Moved(j, i) <= Moved(j, k))
          /\ Moved(j, n + 1) = n + 2
<1>1. ASSUME NEW k \in 1 .. n PROVE Moved(j, k) \in 1 .. n + 1 /\ Moved(j, k) # j
  BY DEF Moved
<1>2. ASSUME NEW k \in 1 .. n + 1, k # j PROVE \E i \in 1 .. n : Moved(j, i) = k
  <2>1. CASE k < j
    <3>1. k \in 1 .. n /\ Moved(j, k) = k
      BY <2>1 DEF Moved
    <3> QED BY <3>1
  <2>2. CASE k > j
    <3>1. k - 1 \in 1 .. n /\ Moved(j, k - 1) = k
      BY <2>2 DEF Moved
    <3> QED BY <3>1
  <2> QED BY <1>2, <2>1, <2>2
<1>3. \A i, k \in 1 .. n + 1 : (i < k <=> Moved(j, i) < Moved(j, k)) /\ (i <= k <=> Moved(j, i) <= Moved(j, k))
  BY DEF Moved
<1>4. Moved(j, n + 1) = n + 2
  BY DEF Moved
<1> QED BY <1>1, <1>2, <1>3, <1>4

LEMMA InsertedSays == ASSUME NEW S, NEW s \in Seq(S), NEW j \in 1 .. Len(s) + 1, NEW x
    PROVE /\ DOMAIN Inserted(s, j, x) = 1 .. Len(s) + 1
          /\ Inserted(s, j, x)[j] = x
          /\ \A k \in 1 .. Len(s) : Inserted(s, j, x)[Moved(j, k)] = s[k]
          /\ x \in S => Inserted(s, j, x) \in Seq(S) /\ Len(Inserted(s, j, x)) = Len(s) + 1
<1> DEFINE q == Inserted(s, j, x)
<1>0. Len(s) \in Nat /\ DOMAIN s = 1 .. Len(s)
  OBVIOUS
<1>1. DOMAIN q = 1 .. Len(s) + 1 /\ q[j] = x
  BY <1>0 DEF Inserted
<1>2. ASSUME NEW k \in 1 .. Len(s) PROVE q[Moved(j, k)] = s[k]
  BY <1>0 DEF Inserted, Moved
<1>3. ASSUME x \in S PROVE q \in Seq(S) /\ Len(q) = Len(s) + 1
  <2>1. \A k \in 1 .. Len(s) + 1 : q[k] \in S
    BY <1>0, <1>3 DEF Inserted
  <2>2. q = [k \in 1 .. Len(s) + 1 |-> q[k]]
    BY <1>0 DEF Inserted
  <2> HIDE DEF q
  <2> QED BY <1>0, <1>1, <2>1, <2>2
<1> QED BY <1>1, <1>2, <1>3

LEMMA CountIsNat == ASSUME NEW n \in Nat, NEW T, T \subseteq 1 .. n PROVE IsFiniteSet(T) /\ Cardinality(T) \in Nat /\ Cardinality(T) <= n
<1>1. IsFiniteSet(1 .. n) /\ Cardinality(1 .. n) = n
  BY FS_Interval
<1> QED BY <1>1, FS_Subset, FS_CardinalityType

LEMMA FewerInPart == ASSUME NEW n \in Nat, NEW U, U \subseteq 1 .. n, NEW T, T \subseteq U, NEW x \in U, x \notin T
    PROVE Cardinality(T) < Cardinality(U)
<1>1. IsFiniteSet(U) /\ Cardinality(U) \in Nat /\ Cardinality(T) \in Nat
  BY CountIsNat
<1>2. T # U
  OBVIOUS
<1>3. Cardinality(T) <= Cardinality(U) /\ Cardinality(T) # Cardinality(U)
  BY <1>1, <1>2, FS_Subset
<1> QED BY <1>1, <1>3

Named == Texts \cup {None}
Sig(name) == name[1] # None /\ PartOf[name[1]] # {}

LEMMA RawSays == ASSUME NEW c \in Seq(Named), NEW k \in DOMAIN c
    PROVE /\ c[k] = None => RawNames(c)[k] = <<None, k>>
          /\ c[k] # None => RawNames(c)[k] = NameIn[c[k]] /\ c[k] \in Texts
          /\ RawNames(c)[k] \in Seq(Texts \cup Nat \cup {None}) /\ Len(RawNames(c)[k]) \in {1, 2}
          /\ RawNames(c)[k][1] \in Named /\ (RawNames(c)[k][1] = None <=> c[k] = None)
<1>1. k \in Nat
  OBVIOUS
<1>2. CASE c[k] = None
  <2>1. RawNames(c)[k] = <<None, k>>
    BY <1>2 DEF RawNames
  <2>2. <<None, k>> \in Seq(Texts \cup Nat \cup {None}) /\ Len(<<None, k>>) = 2 /\ <<None, k>>[1] = None
    BY <1>1
  <2> QED BY <1>2, <2>1, <2>2 DEF Named
<1>3. CASE c[k] # None
  <2>1. RawNames(c)[k] = NameIn[c[k]] /\ c[k] \in Texts
    BY <1>3 DEF RawNames, Named
  <2>2. NameIn[c[k]] \in Seq(Texts \cup Nat) /\ Len(NameIn[c[k]]) \in {1, 2} /\ NameIn[c[k]][1] \in Texts
    BY <2>1, OrderSheetAssumption
  <2>3. Seq(Texts \cup Nat) \subseteq Seq(Texts \cup Nat \cup {None})
    OBVIOUS
  <2>4. None \notin Texts
    BY OrderSheetAssumption
  <2> QED BY <1>3, <2>1, <2>2, <2>3, <2>4 DEF Named
<1> QED BY <1>2, <1>3

LEMMA NthSays == ASSUME NEW raw, NEW k \in Nat
    PROVE Nth(raw, k) \in Nat
  BY CountIsNat DEF Nth

LEMMA NamesSay == ASSUME NEW c \in Seq(Named), NEW k \in DOMAIN c
    PROVE /\ DOMAIN NamesIn(c) = DOMAIN c
          /\ NamesIn(c)[k] = IF Nth(RawNames(c), k) = 1 THEN RawNames(c)[k] ELSE Append(RawNames(c)[k], Nth(RawNames(c), k))
          /\ NamesIn(c)[k] \in Seq(Texts \cup Nat \cup {None})
          /\ NamesIn(c)[k][1] = RawNames(c)[k][1]
<1> DEFINE r == RawNames(c)[k]  n == Nth(RawNames(c), k)
<1>1. r \in Seq(Texts \cup Nat \cup {None}) /\ Len(r) \in {1, 2} /\ n \in Nat
  BY RawSays, NthSays
<1>2. NamesIn(c)[k] = IF n = 1 THEN r ELSE Append(r, n)
  BY DEF NamesIn
<1> HIDE DEF r, n
<1>3. Append(r, n) \in Seq(Texts \cup Nat \cup {None}) /\ Append(r, n)[1] = r[1]
  BY <1>1
<1>4. DOMAIN NamesIn(c) = DOMAIN c
  BY DEF NamesIn
<1> QED BY <1>1, <1>2, <1>3, <1>4 DEF r, n

IsNames(names) ==
    /\ Len(names) \in Nat /\ DOMAIN names = 1 .. Len(names)
    /\ \A k \in DOMAIN names : names[k] # None /\ names[k][1] \in Named

LEMMA NamesAre == ASSUME NEW c \in Seq(Named) PROVE IsNames(NamesIn(c)) /\ Len(NamesIn(c)) = Len(c)
<1> DEFINE S == Seq(Texts \cup Nat \cup {None})  q == NamesIn(c)
<1>1. \A k \in DOMAIN c : q[k] \in S /\ q[k][1] \in Named
  BY NamesSay, RawSays
<1>2. DOMAIN q = DOMAIN c /\ q = [k \in DOMAIN c |-> q[k]]
  BY DEF NamesIn
<1>3. Len(c) \in Nat /\ DOMAIN c = 1 .. Len(c)
  OBVIOUS
<1>4. None \notin S
  BY OrderSheetAssumption
<1> HIDE DEF S, q
<1>5. q \in Seq(S) /\ Len(q) = Len(c)
  BY <1>1, <1>2, <1>3
<1>6. \A k \in DOMAIN q : q[k] # None
  BY <1>1, <1>2, <1>4
<1>7. Len(q) \in Nat /\ DOMAIN q = 1 .. Len(q) /\ \A k \in DOMAIN q : q[k] # None /\ q[k][1] \in Named
  BY <1>1, <1>2, <1>3, <1>5, <1>6
<1> QED BY <1>5, <1>7 DEF IsNames, q

Pairs(g, T, U) ==
    g \in [T -> U] /\ (\A a, b \in T : g[a] = g[b] => a = b) /\ (\A u \in U : \E a \in T : g[a] = u)

LEMMA SameCount == ASSUME NEW n \in Nat, NEW T, T \subseteq 1 .. n, NEW U, NEW g, Pairs(g, T, U)
                   PROVE Cardinality(U) = Cardinality(T)
<1>1. g \in Bijection(T, U)
  BY DEF Bijection, Injection, Surjection, IsInjective, Pairs
<1>2. ExistsBijection(T, U)
  BY <1>1 DEF ExistsBijection
<1> QED BY <1>2, CountIsNat, FS_Bijection

\* wide has the columns of names that mean anything, and a column at j that
\* means nothing.
Widened(names, wide, j) ==
    /\ IsNames(names) /\ IsNames(wide) /\ Len(wide) = Len(names) + 1 /\ j \in 1 .. Len(names) + 1
    /\ \A k \in DOMAIN names : /\ Sig(names[k]) <=> Sig(wide[Moved(j, k)])
                               /\ Sig(names[k]) => wide[Moved(j, k)] = names[k]
    /\ ~Sig(wide[j])

LEMMA InsertionWidens ==
    ASSUME NEW c \in Seq(Named), NEW j \in 1 .. Len(c) + 1, NEW word \in Named, word = None \/ PartOf[word] = {}
    PROVE Widened(NamesIn(c), NamesIn(Inserted(c, j, word)), j)
<1> DEFINE n == Len(c)  w == Inserted(c, j, word)
           raw == RawNames(c)  wraw == RawNames(w)  e(k) == Moved(j, k)
<1>0. n \in Nat /\ DOMAIN c = 1 .. n
  OBVIOUS
<1>1. /\ DOMAIN w = 1 .. n + 1 /\ w[j] = word /\ w \in Seq(Named) /\ Len(w) = n + 1
      /\ \A k \in 1 .. n : w[e(k)] = c[k]
  BY InsertedSays
<1>2. /\ \A k \in 1 .. n : e(k) \in 1 .. n + 1 /\ e(k) # j
      /\ \A k \in 1 .. n + 1 : k # j => \E i \in 1 .. n : e(i) = k
      /\ \A i, k \in 1 .. n : (i < k <=> e(i) < e(k)) /\ (i <= k <=> e(i) <= e(k))
  <2>1. \A k \in 1 .. n : e(k) \in 1 .. n + 1 /\ e(k) # j
    BY <1>0, MovedSays
  <2>2. \A k \in 1 .. n + 1 : k # j => \E i \in 1 .. n : e(i) = k
    BY <1>0, MovedSays
  <2>3. \A i, k \in 1 .. n + 1 : (i < k <=> e(i) < e(k)) /\ (i <= k <=> e(i) <= e(k))
    BY <1>0, MovedSays
  <2>4. \A k \in 1 .. n : k \in 1 .. n + 1
    BY <1>0
  <2> HIDE DEF e
  <2> QED BY <2>1, <2>2, <2>3, <2>4
<1>a. /\ \A k \in 1 .. n : /\ c[k] = None => raw[k] = <<None, k>>
                           /\ c[k] # None => raw[k] = NameIn[c[k]] /\ c[k] \in Texts
                           /\ raw[k][1] = None <=> c[k] = None
      /\ \A k \in 1 .. n + 1 : /\ w[k] # None => wraw[k] = NameIn[w[k]] /\ w[k] \in Texts
                               /\ wraw[k][1] = None <=> w[k] = None
  BY <1>0, <1>1, RawSays
<1> HIDE DEF raw, wraw
<1>3. ASSUME NEW k \in 1 .. n
      PROVE /\ c[k] # None => wraw[e(k)] = raw[k]
            /\ Sig(raw[k]) <=> Sig(wraw[e(k)])
            /\ Sig(raw[k]) => wraw[e(k)] = raw[k]
  <2>1. e(k) \in 1 .. n + 1 /\ w[e(k)] = c[k]
    BY <1>1, <1>2
  <2>2. c[k] # None => wraw[e(k)] = raw[k]
    BY <1>a, <2>1
  <2>3. c[k] = None => raw[k][1] = None /\ wraw[e(k)][1] = None
    BY <1>a, <2>1
  <2> QED BY <2>2, <2>3 DEF Sig
<1>4. ~Sig(wraw[j])
  <2>1. CASE word = None
    BY <1>a, <1>1, <2>1 DEF Sig
  <2>2. CASE word # None
    <3>1. wraw[j] = NameIn[word] /\ word \in Texts
      BY <1>a, <1>1, <2>2
    <3>2. PartOf[NameIn[word][1]] \subseteq PartOf[word]
      BY <3>1, OrderSheetAssumption
    <3> QED BY <2>2, <3>1, <3>2 DEF Sig
  <2> QED BY <2>1, <2>2
<1>5. ASSUME NEW k \in 1 .. n, Sig(raw[k]) PROVE Nth(wraw, e(k)) = Nth(raw, k)
  <2> DEFINE T == {i \in 1 .. k : raw[i] = raw[k]}
             U == {i \in 1 .. e(k) : wraw[i] = wraw[e(k)]}
             g == [i \in T |-> e(i)]
  <2>0. wraw[e(k)] = raw[k] /\ Sig(wraw[e(k)]) /\ e(k) \in 1 .. n + 1
    BY <1>2, <1>3, <1>5
  <2>1. ASSUME NEW i \in T PROVE g[i] \in U
    <3>1. i \in 1 .. n /\ Sig(raw[i]) /\ i <= k
      BY <1>5
    <3>2. wraw[e(i)] = raw[i] /\ e(i) <= e(k) /\ e(i) \in 1 .. n + 1
      BY <1>2, <1>3, <3>1
    <3>3. e(i) \in 1 .. e(k)
      BY <2>0, <3>2
    <3> QED BY <2>0, <3>2, <3>3
  <2>2. \A a, b \in T : g[a] = g[b] => a = b
    <3>1. ASSUME NEW a \in T, NEW b \in T, e(a) = e(b) PROVE a = b
      <4>1. a \in 1 .. n /\ b \in 1 .. n
        OBVIOUS
      <4>2. e(a) \in Nat /\ e(b) \in Nat
        BY <1>2, <4>1
      <4>3. ~(a < b) /\ ~(b < a)
        BY <1>2, <3>1, <4>1, <4>2
      <4> QED BY <4>1, <4>3
    <3> QED BY <3>1
  <2>3. ASSUME NEW u \in U PROVE \E a \in T : g[a] = u
    <3>1. u \in 1 .. n + 1 /\ Sig(wraw[u]) /\ u <= e(k) /\ wraw[u] = raw[k]
      BY <2>0
    <3>2. u # j
      BY <1>4, <3>1
    <3>3. PICK i \in 1 .. n : e(i) = u
      BY <1>2, <3>1, <3>2
    <3>4. Sig(raw[i]) /\ raw[i] = wraw[u] /\ i <= k
      BY <1>2, <1>3, <3>1, <3>3
    <3>5. i \in T /\ g[i] = u
      BY <3>1, <3>3, <3>4
    <3> QED BY <3>5
  <2>4. T \subseteq 1 .. n /\ g \in [T -> U]
    BY <2>1
  <2> HIDE DEF T, U, g
  <2>6. \A u \in U : \E a \in T : g[a] = u
    BY <2>3
  <2>7. Pairs(g, T, U)
    BY <2>2, <2>4, <2>6 DEF Pairs
  <2>5. Cardinality(U) = Cardinality(T)
    BY <1>0, <2>4, <2>7, SameCount
  <2> QED BY <2>5 DEF T, U, Nth
<1>6. /\ \A k \in 1 .. n : NamesIn(c)[k] = (IF Nth(raw, k) = 1 THEN raw[k] ELSE Append(raw[k], Nth(raw, k))) /\ NamesIn(c)[k][1] = raw[k][1]
      /\ \A k \in 1 .. n + 1 : NamesIn(w)[k] = (IF Nth(wraw, k) = 1 THEN wraw[k] ELSE Append(wraw[k], Nth(wraw, k))) /\ NamesIn(w)[k][1] = wraw[k][1]
  BY <1>0, <1>1, NamesSay DEF raw, wraw
<1>7. IsNames(NamesIn(c)) /\ IsNames(NamesIn(w)) /\ Len(NamesIn(c)) = n /\ Len(NamesIn(w)) = n + 1 /\ DOMAIN NamesIn(c) = 1 .. n
  <2>1. IsNames(NamesIn(c)) /\ Len(NamesIn(c)) = n
    BY NamesAre
  <2>2. IsNames(NamesIn(w)) /\ Len(NamesIn(w)) = n + 1
    BY <1>1, NamesAre
  <2> QED BY <2>1, <2>2 DEF IsNames
<1>8. ASSUME NEW k \in 1 .. n
      PROVE /\ Sig(NamesIn(c)[k]) <=> Sig(NamesIn(w)[e(k)])
            /\ Sig(NamesIn(c)[k]) => NamesIn(w)[e(k)] = NamesIn(c)[k]
  <2>1. e(k) \in 1 .. n + 1
    BY <1>2
  <2>2. (Sig(NamesIn(c)[k]) <=> Sig(raw[k])) /\ (Sig(NamesIn(w)[e(k)]) <=> Sig(wraw[e(k)]))
    BY <1>6, <2>1 DEF Sig
  <2>3. Sig(raw[k]) => Nth(wraw, e(k)) = Nth(raw, k) /\ wraw[e(k)] = raw[k]
    BY <1>3, <1>5
  <2> QED BY <1>3, <1>6, <2>1, <2>2, <2>3
<1>9. ~Sig(NamesIn(w)[j])
  BY <1>0, <1>4, <1>6 DEF Sig
<1> QED BY <1>7, <1>8, <1>9 DEF Widened

----------------------------------------------------------------------------
(* The sheet: which column is found for which field *)

\* No column, or one whose name means something.
Meant(s) == s = None \/ Sig(s)

LEMMA WidenedSays == ASSUME NEW names, NEW wide, NEW j, Widened(names, wide, j)
    PROVE /\ Len(names) \in Nat /\ DOMAIN names = 1 .. Len(names) /\ j \in 1 .. Len(names) + 1
          /\ Len(wide) = Len(names) + 1 /\ DOMAIN wide = 1 .. Len(names) + 1
          /\ \A k \in DOMAIN names : names[k] # None
          /\ \A k \in DOMAIN wide : wide[k] # None
          /\ \A k \in DOMAIN names : Sig(names[k]) => wide[Moved(j, k)] = names[k]
          /\ \A k \in DOMAIN wide : Sig(wide[k]) => \E i \in DOMAIN names : Moved(j, i) = k /\ Sig(names[i]) /\ names[i] = wide[k]
<1>1. /\ Len(names) \in Nat /\ DOMAIN names = 1 .. Len(names) /\ j \in 1 .. Len(names) + 1
      /\ Len(wide) = Len(names) + 1 /\ DOMAIN wide = 1 .. Len(names) + 1
      /\ \A k \in DOMAIN names : names[k] # None
      /\ \A k \in DOMAIN wide : wide[k] # None
      /\ \A k \in DOMAIN names : Sig(names[k]) => wide[Moved(j, k)] = names[k]
  <2>1. IsNames(names) /\ IsNames(wide) /\ Len(wide) = Len(names) + 1 /\ j \in 1 .. Len(names) + 1
    BY DEF Widened
  <2>2. \A k \in DOMAIN names : Sig(names[k]) => wide[Moved(j, k)] = names[k]
    BY DEF Widened
  <2>3. Len(names) \in Nat /\ DOMAIN names = 1 .. Len(names) /\ \A k \in DOMAIN names : names[k] # None
    BY <2>1 DEF IsNames
  <2>4. DOMAIN wide = 1 .. Len(wide) /\ \A k \in DOMAIN wide : wide[k] # None
    BY <2>1 DEF IsNames
  <2> QED BY <2>1, <2>2, <2>3, <2>4
<1>2. ASSUME NEW k \in DOMAIN wide, Sig(wide[k])
      PROVE \E i \in DOMAIN names : Moved(j, i) = k /\ Sig(names[i]) /\ names[i] = wide[k]
  <2>1. k # j /\ k \in 1 .. Len(names) + 1
    <3>1. ~Sig(wide[j])
      BY DEF Widened
    <3>2. k \in 1 .. Len(names) + 1
      BY <1>1, <1>2
    <3> QED BY <1>2, <3>1, <3>2
  <2>2. PICK i \in 1 .. Len(names) : Moved(j, i) = k
    BY <1>1, <2>1, MovedSays
  <2>3. i \in DOMAIN names /\ Sig(names[i])
    BY <1>1, <1>2, <2>2 DEF Widened
  <2> QED BY <1>1, <2>2, <2>3
<1> QED BY <1>1, <1>2

LEMMA ColumnMoves == ASSUME NEW names, NEW wide, NEW j, Widened(names, wide, j), NEW s, Meant(s)
    PROVE ColumnOf(names, s) \in 1 .. Len(names) + 1 /\ ColumnOf(wide, s) = Moved(j, ColumnOf(names, s))
<1> DEFINE n == Len(names)
           T == {n + 1} \cup {k \in DOMAIN names : names[k] = s}
           U == {Len(wide) + 1} \cup {k \in DOMAIN wide : wide[k] = s}
           a == Least(T)
<1>1. /\ n \in Nat /\ DOMAIN names = 1 .. n /\ j \in 1 .. n + 1 /\ Len(wide) = n + 1 /\ DOMAIN wide = 1 .. n + 1
      /\ \A k \in 1 .. n : names[k] # None
      /\ \A k \in 1 .. n + 1 : wide[k] # None
      /\ \A k \in 1 .. n : Sig(names[k]) => wide[Moved(j, k)] = names[k]
      /\ \A k \in 1 .. n + 1 : Sig(wide[k]) => \E i \in 1 .. n : Moved(j, i) = k /\ Sig(names[i]) /\ names[i] = wide[k]
  BY WidenedSays
<1>2. T \subseteq Nat /\ T \subseteq 1 .. n + 1 /\ T # {} /\ U \subseteq Nat
  BY <1>1
<1>3. a \in T /\ \A k \in T : a <= k
  BY <1>2, LeastSays
<1>4. /\ \A k \in 1 .. n : Moved(j, k) \in 1 .. n + 1
      /\ \A i, k \in 1 .. n + 1 : i <= k => Moved(j, i) <= Moved(j, k)
      /\ Moved(j, n + 1) = n + 2
  BY <1>1, MovedSays
<1>5. Moved(j, a) \in U
  <2>1. CASE a = n + 1
    BY <1>1, <1>4, <2>1
  <2>2. CASE a # n + 1
    <3>1. a \in 1 .. n /\ names[a] = s
      BY <1>1, <1>3, <2>2
    <3>2. Sig(names[a])
      BY <1>1, <3>1 DEF Meant
    <3> QED BY <1>1, <1>4, <3>1, <3>2
  <2> QED BY <2>1, <2>2
<1>6. ASSUME NEW u \in U PROVE Moved(j, a) <= u
  <2>1. CASE u = n + 2
    <3>1. a \in 1 .. n + 1 /\ n + 1 \in 1 .. n + 1 /\ a <= n + 1
      BY <1>1, <1>2, <1>3
    <3> QED BY <1>4, <2>1, <3>1
  <2>2. CASE u # n + 2
    <3>1. u \in 1 .. n + 1 /\ wide[u] = s
      BY <1>1, <2>2
    <3>2. Sig(wide[u])
      BY <1>1, <3>1 DEF Meant
    <3>3. PICK i \in 1 .. n : Moved(j, i) = u /\ names[i] = s
      BY <1>1, <3>1, <3>2
    <3>4. i \in T /\ a <= i /\ i \in 1 .. n + 1 /\ a \in 1 .. n + 1
      BY <1>1, <1>2, <1>3, <3>3
    <3> QED BY <1>4, <3>3, <3>4
  <2> QED BY <2>1, <2>2
<1>7. ColumnOf(names, s) = a /\ ColumnOf(wide, s) = Least(U)
  BY DEF ColumnOf
<1> HIDE DEF T, U, a
<1>8. Least(U) = Moved(j, a)
  BY <1>2, <1>5, <1>6, LeastIs
<1> QED BY <1>2, <1>3, <1>7, <1>8

LEMMA TakenSame ==
    ASSUME NEW names, NEW wide, NEW j, Widened(names, wide, j),
           NEW T, T \subseteq DOMAIN names, \A k \in T : Sig(names[k]), NEW U, U = {Moved(j, k) : k \in T}
    PROVE NamedFirst(wide, U) = NamedFirst(names, T) /\ Meant(NamedFirst(names, T))
<1>1. CASE T = {}
  BY <1>1 DEF NamedFirst, Meant
<1>2. CASE T # {}
  <2>1. /\ Len(names) \in Nat /\ DOMAIN names = 1 .. Len(names) /\ j \in 1 .. Len(names) + 1
        /\ \A k \in DOMAIN names : Sig(names[k]) => wide[Moved(j, k)] = names[k]
    BY WidenedSays
  <2>2. T \subseteq Nat
    BY <2>1
  <2>3. Least(T) \in T /\ \A k \in T : Least(T) <= k
    BY <1>2, <2>2, LeastSays
  <2>4. /\ \A k \in 1 .. Len(names) : Moved(j, k) \in 1 .. Len(names) + 1
        /\ \A i, k \in 1 .. Len(names) + 1 : i <= k => Moved(j, i) <= Moved(j, k)
    BY <2>1, MovedSays
  <2>5. U \subseteq Nat /\ Moved(j, Least(T)) \in U
    BY <2>1, <2>3, <2>4
  <2>6. ASSUME NEW u \in U PROVE Moved(j, Least(T)) <= u
    <3>1. PICK k \in T : u = Moved(j, k)
      OBVIOUS
    <3>2. k \in 1 .. Len(names) + 1 /\ Least(T) \in 1 .. Len(names) + 1 /\ Least(T) <= k
      BY <2>1, <2>3
    <3> QED BY <2>4, <3>1, <3>2
  <2>7. Least(U) = Moved(j, Least(T))
    BY <2>5, <2>6, LeastIs
  <2>8. NamedFirst(wide, U) = wide[Moved(j, Least(T))] /\ NamedFirst(names, T) = names[Least(T)]
    BY <1>2, <2>5, <2>7 DEF NamedFirst
  <2> QED BY <2>1, <2>3, <2>8 DEF Meant
<1> QED BY <1>1, <1>2

IsMapping(m) == DOMAIN m = Fields /\ \A f \in Fields : Meant(m[f])

LEMMA NamedMeans == ASSUME NEW name, name[1] \in Named, NEW f, f \in Alias(name) \/ f \in Within(name) PROVE Sig(name)
  BY OrderSheetAssumption DEF Sig, Alias, Within, Named

\* The columns that are free and mean f, in both tables.
LEMMA FreeSame ==
    ASSUME NEW names, NEW wide, NEW j, Widened(names, wide, j), NEW m, IsMapping(m), NEW f \in Fields
    PROVE ByName(wide, m, f) = ByName(names, m, f) /\ ByPart(wide, m, f) = ByPart(names, m, f)
          /\ IsMapping(ByName(names, m, f)) /\ IsMapping(ByPart(names, m, f))
<1>1. /\ Len(names) \in Nat /\ DOMAIN names = 1 .. Len(names) /\ j \in 1 .. Len(names) + 1
      /\ Len(wide) = Len(names) + 1 /\ DOMAIN wide = 1 .. Len(names) + 1
      /\ \A k \in DOMAIN names : Sig(names[k]) => wide[Moved(j, k)] = names[k]
      /\ \A k \in DOMAIN wide : Sig(wide[k]) => \E i \in DOMAIN names : Moved(j, i) = k /\ Sig(names[i]) /\ names[i] = wide[k]
  BY WidenedSays
<1>2. \A k \in DOMAIN names : names[k][1] \in Named
  BY DEF Widened, IsNames
<1>3. \A k \in DOMAIN wide : wide[k][1] \in Named
  BY DEF Widened, IsNames
<1>4. \A k \in 1 .. Len(names) : Moved(j, k) \in 1 .. Len(names) + 1
  BY <1>1, MovedSays
<1>5. ASSUME NEW T, NEW U, NEW P,
             \A k \in DOMAIN names : k \in T <=> names[k] \in P,
             \A k \in DOMAIN wide : k \in U <=> wide[k] \in P,
             T \subseteq DOMAIN names, U \subseteq DOMAIN wide,
             \A k \in T : Sig(names[k]), \A k \in U : Sig(wide[k])
      PROVE NamedFirst(wide, U) = NamedFirst(names, T) /\ Meant(NamedFirst(names, T))
  <2>1. U = {Moved(j, k) : k \in T}
    <3>1. ASSUME NEW k \in T PROVE Moved(j, k) \in U
      BY <1>1, <1>4, <1>5
    <3>2. ASSUME NEW u \in U PROVE \E k \in T : u = Moved(j, k)
      <4>1. PICK i \in DOMAIN names : Moved(j, i) = u /\ names[i] = wide[u]
        BY <1>1, <1>5
      <4>2. i \in T
        BY <1>5, <4>1
      <4> QED BY <4>1, <4>2
    <3> QED BY <3>1, <3>2
  <2> QED BY <1>5, <2>1, TakenSame
<1> DEFINE Used == {m[g] : g \in Fields}
           All == {names[k] : k \in DOMAIN names} \cup {wide[k] : k \in DOMAIN wide}
           P == {x \in All : x \notin Used /\ f \in Alias(x)}
           Q == {x \in All : x \notin Used /\ f \in Within(x)}
           T1 == {k \in Spare(names, m) : f \in Alias(names[k])}
           U1 == {k \in Spare(wide, m) : f \in Alias(wide[k])}
           T2 == {k \in Spare(names, m) : f \in Within(names[k])}
           U2 == {k \in Spare(wide, m) : f \in Within(wide[k])}
<1>6. NamedFirst(wide, U1) = NamedFirst(names, T1) /\ Meant(NamedFirst(names, T1))
  <2>1. \A k \in DOMAIN names : k \in T1 <=> names[k] \in P
    BY DEF Spare
  <2>2. \A k \in DOMAIN wide : k \in U1 <=> wide[k] \in P
    BY DEF Spare
  <2>3. T1 \subseteq DOMAIN names /\ U1 \subseteq DOMAIN wide
    BY DEF Spare
  <2>4. \A k \in T1 : Sig(names[k])
    BY <1>2, <2>3, NamedMeans
  <2>5. \A k \in U1 : Sig(wide[k])
    BY <1>3, <2>3, NamedMeans
  <2> HIDE DEF P, T1, U1
  <2> QED BY <1>5, <2>1, <2>2, <2>3, <2>4, <2>5
<1>7. NamedFirst(wide, U2) = NamedFirst(names, T2) /\ Meant(NamedFirst(names, T2))
  <2>1. \A k \in DOMAIN names : k \in T2 <=> names[k] \in Q
    BY DEF Spare
  <2>2. \A k \in DOMAIN wide : k \in U2 <=> wide[k] \in Q
    BY DEF Spare
  <2>3. T2 \subseteq DOMAIN names /\ U2 \subseteq DOMAIN wide
    BY DEF Spare
  <2>4. \A k \in T2 : Sig(names[k])
    BY <1>2, <2>3, NamedMeans
  <2>5. \A k \in U2 : Sig(wide[k])
    BY <1>3, <2>3, NamedMeans
  <2> HIDE DEF Q, T2, U2
  <2> QED BY <1>5, <2>1, <2>2, <2>3, <2>4, <2>5
<1>8. ByName(wide, m, f) = [m EXCEPT ![f] = NamedFirst(wide, U1)] /\ ByName(names, m, f) = [m EXCEPT ![f] = NamedFirst(names, T1)]
  BY DEF ByName
<1>9. /\ ByPart(wide, m, f) = IF m[f] # None THEN m ELSE [m EXCEPT ![f] = NamedFirst(wide, U2)]
      /\ ByPart(names, m, f) = IF m[f] # None THEN m ELSE [m EXCEPT ![f] = NamedFirst(names, T2)]
  BY DEF ByPart
<1> HIDE DEF T1, T2, U1, U2
<1>10. ASSUME NEW x, Meant(x) PROVE IsMapping([m EXCEPT ![f] = x])
  BY <1>10 DEF IsMapping
<1> DEFINE x1 == NamedFirst(names, T1)  x2 == NamedFirst(names, T2)
<1>11. Meant(x1) /\ Meant(x2)
  BY <1>6, <1>7
<1>12. /\ ByName(wide, m, f) = [m EXCEPT ![f] = x1] /\ ByName(names, m, f) = [m EXCEPT ![f] = x1]
       /\ ByPart(wide, m, f) = ByPart(names, m, f)
       /\ ByPart(names, m, f) = IF m[f] # None THEN m ELSE [m EXCEPT ![f] = x2]
  BY <1>6, <1>7, <1>8, <1>9
<1> HIDE DEF x1, x2
<1>13. IsMapping([m EXCEPT ![f] = x1]) /\ IsMapping([m EXCEPT ![f] = x2])
  BY <1>10, <1>11
<1> QED BY <1>12, <1>13

FieldsAre == {"orderNumber", "customerName", "address", "scheduledDate", "notes", "status"}

LEMMA FieldsSay == Fields = FieldsAre /\ \A i \in 1 .. 6 : FieldOrder[i] \in Fields
<1>1. DOMAIN FieldOrder = 1 .. 6
  BY DEF FieldOrder
<1>2. Fields = {FieldOrder[1], FieldOrder[2], FieldOrder[3], FieldOrder[4], FieldOrder[5], FieldOrder[6]}
  BY <1>1 DEF Fields, Elements
<1> QED BY <1>1, <1>2 DEF FieldOrder, FieldsAre, Fields, Elements

LEMMA AllByName ==
    ASSUME NEW names, NEW wide, NEW j, Widened(names, wide, j), NEW m, IsMapping(m)
    PROVE InOrder(ByName, wide, m) = InOrder(ByName, names, m) /\ IsMapping(InOrder(ByName, names, m))
<1> DEFINE g(q, i) == ByName(names, q, FieldOrder[i])  h(q, i) == ByName(wide, q, FieldOrder[i])
<1>1. \A i \in 1 .. 6 : FieldOrder[i] \in Fields
  BY FieldsSay
<1>2. ASSUME NEW q, IsMapping(q), NEW i \in 1 .. 6 PROVE h(q, i) = g(q, i) /\ IsMapping(g(q, i))
  <2>1. PICK f \in Fields : f = FieldOrder[i]
    BY <1>1
  <2>2. ByName(wide, q, f) = ByName(names, q, f) /\ IsMapping(ByName(names, q, f))
    BY <1>2, FreeSame
  <2> QED BY <2>1, <2>2
<1>3. /\ InOrder(ByName, names, m) = g(g(g(g(g(g(m, 1), 2), 3), 4), 5), 6)
      /\ InOrder(ByName, wide, m) = h(h(h(h(h(h(m, 1), 2), 3), 4), 5), 6)
  BY DEF InOrder
<1> HIDE DEF g, h
<1>4. h(m, 1) = g(m, 1) /\ IsMapping(g(m, 1))
  BY <1>2
<1>5. h(g(m, 1), 2) = g(g(m, 1), 2) /\ IsMapping(g(g(m, 1), 2))
  BY <1>2, <1>4
<1>6. h(g(g(m, 1), 2), 3) = g(g(g(m, 1), 2), 3) /\ IsMapping(g(g(g(m, 1), 2), 3))
  BY <1>2, <1>5
<1>7. h(g(g(g(m, 1), 2), 3), 4) = g(g(g(g(m, 1), 2), 3), 4) /\ IsMapping(g(g(g(g(m, 1), 2), 3), 4))
  BY <1>2, <1>6
<1>8. h(g(g(g(g(m, 1), 2), 3), 4), 5) = g(g(g(g(g(m, 1), 2), 3), 4), 5) /\ IsMapping(g(g(g(g(g(m, 1), 2), 3), 4), 5))
  BY <1>2, <1>7
<1>9. h(g(g(g(g(g(m, 1), 2), 3), 4), 5), 6) = g(g(g(g(g(g(m, 1), 2), 3), 4), 5), 6) /\ IsMapping(g(g(g(g(g(g(m, 1), 2), 3), 4), 5), 6))
  BY <1>2, <1>8
<1> QED BY <1>3, <1>4, <1>5, <1>6, <1>7, <1>8, <1>9
LEMMA AllByPart ==
    ASSUME NEW names, NEW wide, NEW j, Widened(names, wide, j), NEW m, IsMapping(m)
    PROVE InOrder(ByPart, wide, m) = InOrder(ByPart, names, m) /\ IsMapping(InOrder(ByPart, names, m))
<1> DEFINE g(q, i) == ByPart(names, q, FieldOrder[i])  h(q, i) == ByPart(wide, q, FieldOrder[i])
<1>1. \A i \in 1 .. 6 : FieldOrder[i] \in Fields
  BY FieldsSay
<1>2. ASSUME NEW q, IsMapping(q), NEW i \in 1 .. 6 PROVE h(q, i) = g(q, i) /\ IsMapping(g(q, i))
  <2>1. PICK f \in Fields : f = FieldOrder[i]
    BY <1>1
  <2>2. ByPart(wide, q, f) = ByPart(names, q, f) /\ IsMapping(ByPart(names, q, f))
    BY <1>2, FreeSame
  <2> QED BY <2>1, <2>2
<1>3. /\ InOrder(ByPart, names, m) = g(g(g(g(g(g(m, 1), 2), 3), 4), 5), 6)
      /\ InOrder(ByPart, wide, m) = h(h(h(h(h(h(m, 1), 2), 3), 4), 5), 6)
  BY DEF InOrder
<1> HIDE DEF g, h
<1>4. h(m, 1) = g(m, 1) /\ IsMapping(g(m, 1))
  BY <1>2
<1>5. h(g(m, 1), 2) = g(g(m, 1), 2) /\ IsMapping(g(g(m, 1), 2))
  BY <1>2, <1>4
<1>6. h(g(g(m, 1), 2), 3) = g(g(g(m, 1), 2), 3) /\ IsMapping(g(g(g(m, 1), 2), 3))
  BY <1>2, <1>5
<1>7. h(g(g(g(m, 1), 2), 3), 4) = g(g(g(g(m, 1), 2), 3), 4) /\ IsMapping(g(g(g(g(m, 1), 2), 3), 4))
  BY <1>2, <1>6
<1>8. h(g(g(g(g(m, 1), 2), 3), 4), 5) = g(g(g(g(g(m, 1), 2), 3), 4), 5) /\ IsMapping(g(g(g(g(g(m, 1), 2), 3), 4), 5))
  BY <1>2, <1>7
<1>9. h(g(g(g(g(g(m, 1), 2), 3), 4), 5), 6) = g(g(g(g(g(g(m, 1), 2), 3), 4), 5), 6) /\ IsMapping(g(g(g(g(g(g(m, 1), 2), 3), 4), 5), 6))
  BY <1>2, <1>8
<1> QED BY <1>3, <1>4, <1>5, <1>6, <1>7, <1>8, <1>9

LEMMA FoundSame == ASSUME NEW names, NEW wide, NEW j, Widened(names, wide, j)
    PROVE Found(wide) = Found(names) /\ IsMapping(Found(names))
<1>1. PICK m : m = [f \in Fields |-> None]
  OBVIOUS
<1>2. IsMapping(m)
  BY <1>1 DEF IsMapping, Meant
<1>3. InOrder(ByName, wide, m) = InOrder(ByName, names, m) /\ IsMapping(InOrder(ByName, names, m))
  BY <1>2, AllByName
<1>4. PICK q : q = InOrder(ByName, names, m)
  OBVIOUS
<1>5. InOrder(ByPart, wide, q) = InOrder(ByPart, names, q) /\ IsMapping(InOrder(ByPart, names, q))
  BY <1>3, <1>4, AllByPart
<1>6. Found(wide) = InOrder(ByPart, wide, q) /\ Found(names) = InOrder(ByPart, names, q)
  BY <1>1, <1>3, <1>4 DEF Found
<1> QED BY <1>5, <1>6

Lines == [line : SheetLines, cells : Seq(Named)]

LEMMA CellMoves ==
    ASSUME NEW names, NEW wide, NEW j, Widened(names, wide, j), NEW s, Meant(s),
           NEW q \in Seq(Named), Len(q) = Len(names), NEW row, row.cells = q,
           NEW x, NEW row2, row2.cells = Inserted(q, j, x)
    PROVE CellOf(wide, s, row2) = CellOf(names, s, row)
<1> DEFINE n == Len(names)  a == ColumnOf(names, s)
<1>1. n \in Nat /\ j \in 1 .. n + 1
  BY WidenedSays
<1>2. a \in 1 .. n + 1 /\ ColumnOf(wide, s) = Moved(j, a)
  BY ColumnMoves
<1>3. /\ DOMAIN row.cells = 1 .. n
      /\ DOMAIN row2.cells = 1 .. n + 1
      /\ \A k \in 1 .. n : row2.cells[Moved(j, k)] = row.cells[k]
  <2>2. Len(q) = n /\ DOMAIN q = 1 .. n
    OBVIOUS
  <2>3. DOMAIN Inserted(q, j, x) = 1 .. Len(q) + 1 /\ \A k \in 1 .. Len(q) : Inserted(q, j, x)[Moved(j, k)] = q[k]
    BY <1>1, <2>2, InsertedSays
  <2> QED BY <2>2, <2>3
<1>4. /\ \A k \in 1 .. n : Moved(j, k) \in 1 .. n + 1
      /\ Moved(j, n + 1) = n + 2
  BY <1>1, MovedSays
<1> HIDE DEF n, a
<1>5. CASE a \in 1 .. n
  BY <1>2, <1>3, <1>4, <1>5 DEF CellOf, a
<1>6. CASE a = n + 1
  <2>1. a \notin 1 .. n /\ Moved(j, a) \notin 1 .. n + 1
    BY <1>1, <1>4, <1>6
  <2> QED BY <1>2, <1>3, <2>1 DEF CellOf, a
<1> QED BY <1>1, <1>2, <1>5, <1>6

\* Two readings of a line agree on all but the state of its order.
SameCells(n1, m1, r1, n2, m2, r2) ==
    \A f \in FieldsAre \ {"status"} : CellOf(n1, m1[f], r1) = CellOf(n2, m2[f], r2)

LEMMA DraftSame ==
    ASSUME NEW n1, NEW m1, NEW r1, NEW n2, NEW m2, NEW r2, NEW y, SameCells(n1, m1, r1, n2, m2, r2)
    PROVE LET d == DraftFrom(n1, m1, r1, y)
              e == DraftFrom(n2, m2, r2, y)
          IN  (IsOrder(d) <=> IsOrder(e)) /\ SourceKey(d) = SourceKey(e)
<1> DEFINE d == DraftFrom(n1, m1, r1, y)  e == DraftFrom(n2, m2, r2, y)
<1>1. /\ CellOf(n1, m1["orderNumber"], r1) = CellOf(n2, m2["orderNumber"], r2)
      /\ CellOf(n1, m1["customerName"], r1) = CellOf(n2, m2["customerName"], r2)
      /\ CellOf(n1, m1["address"], r1) = CellOf(n2, m2["address"], r2)
      /\ CellOf(n1, m1["scheduledDate"], r1) = CellOf(n2, m2["scheduledDate"], r2)
  BY DEF SameCells, FieldsAre
<1>2. d.orderNumber = e.orderNumber /\ d.customerName = e.customerName /\ d.address = e.address /\ d.scheduledDate = e.scheduledDate
  BY <1>1 DEF DraftFrom
<1> HIDE DEF d, e
<1>3. (IsOrder(d) <=> IsOrder(e)) /\ SourceKey(d) = SourceKey(e)
  BY <1>2 DEF IsOrder, SourceKey
<1> QED BY <1>3 DEF d, e

CellAt(row, c) == IF c \in DOMAIN row.cells THEN row.cells[c] ELSE None

\* Read in year y, the line is an order under its key, by these names and
\* columns; c is the column that tells its state.
StillOrder(names, m, c, row, key, y) ==
    /\ IsOrder(DraftFrom(names, m, row, y)) /\ SourceKey(DraftFrom(names, m, row, y)) = key
    /\ ~LooksCancelled(CellAt(row, c))

LEMMA StillSame ==
    ASSUME NEW n1, NEW m1, NEW r1, NEW n2, NEW m2, NEW r2, NEW y, SameCells(n1, m1, r1, n2, m2, r2),
           NEW c1, NEW c2, CellAt(r1, c1) = CellAt(r2, c2), NEW key, StillOrder(n1, m1, c1, r1, key, y)
    PROVE StillOrder(n2, m2, c2, r2, key, y)
<1>1. /\ IsOrder(DraftFrom(n1, m1, r1, y)) <=> IsOrder(DraftFrom(n2, m2, r2, y))
      /\ SourceKey(DraftFrom(n1, m1, r1, y)) = SourceKey(DraftFrom(n2, m2, r2, y))
  BY DraftSame
<1> QED BY <1>1 DEF StillOrder

\* A line with an order number, and one whose date says its year, reads the
\* same in any year.
LEMMA DatedSame ==
    ASSUME NEW names, NEW m, NEW c, NEW row, NEW key, NEW y, NEW z, StillOrder(names, m, c, row, key, y),
           NEW cell, cell = CellOf(names, m["scheduledDate"], row),
           key[1] # "sig" \/ NormalizeDate(cell, y) = NormalizeDate(cell, z)
    PROVE StillOrder(names, m, c, row, key, z)
<1>1. PICK d : d = DraftFrom(names, m, row, y)
  OBVIOUS
<1>2. PICK e : e = DraftFrom(names, m, row, z)
  OBVIOUS
<1>3. /\ d.orderNumber = e.orderNumber /\ d.customerName = e.customerName /\ d.address = e.address
      /\ d.scheduledDate = NormalizeDate(cell, y) /\ e.scheduledDate = NormalizeDate(cell, z)
  BY <1>1, <1>2 DEF DraftFrom
<1>4. IsOrder(d) /\ SourceKey(d) = key
  BY <1>1 DEF StillOrder
<1>5. IsOrder(e) /\ SourceKey(e) = key
  <2>1. CASE d.scheduledDate = e.scheduledDate
    BY <1>3, <1>4, <2>1 DEF IsOrder, SourceKey
  <2>2. CASE d.scheduledDate # e.scheduledDate
    <3>1. d.orderNumber # None
      BY <1>3, <1>4, <2>2 DEF SourceKey
    <3> QED BY <1>3, <1>4, <3>1 DEF IsOrder, SourceKey
  <2> QED BY <2>1, <2>2
<1> QED BY <1>2, <1>5 DEF StillOrder

LEMMA IsRead == ASSUME NEW names, NEW m, NEW row, NEW y
    PROVE DraftFrom(names, m, row, y).cancelled <=> LooksCancelled(CellAt(row, ColumnOf(names, m["status"])))
  BY DEF DraftFrom, CellOf, CellAt, LooksCancelled

LEMMA OrderIsFilled == ASSUME NEW names, NEW m, NEW row, NEW y, IsOrder(DraftFrom(names, m, row, y)) PROVE IsFilled(row.cells)
<1> DEFINE d == DraftFrom(names, m, row, y)
<1>1. \E x \in {d.customerName, d.address, d.scheduledDate, d.orderNumber} : x # None
  BY DEF IsOrder
<1>2. /\ d.customerName = CellOf(names, m["customerName"], row) /\ d.address = CellOf(names, m["address"], row)
      /\ d.scheduledDate = NormalizeDate(CellOf(names, m["scheduledDate"], row), y)
      /\ d.orderNumber \in {None, CellOf(names, m["orderNumber"], row)}
  BY DEF DraftFrom
<1> HIDE DEF d
<1>3. \E s : CellOf(names, s, row) # None
  BY <1>1, <1>2 DEF NormalizeDate
<1> QED BY <1>3 DEF CellOf, IsFilled

----------------------------------------------------------------------------

LEMMA SheetSays == ASSUME NEW g, IsSheet(g)
    PROVE /\ g \in Seq(Lines) /\ Len(g) \in Nat /\ DOMAIN g = 1 .. Len(g) /\ Len(g) >= 1
          /\ Width(g) \in Nat
          /\ \A i \in DOMAIN g : g[i] \in Lines /\ Len(g[i].cells) = Width(g) /\ DOMAIN g[i].cells = 1 .. Width(g)
          /\ \A i, j \in DOMAIN g : g[i].line = g[j].line => i = j
          /\ \E p \in DOMAIN g : g[p].line = "names"
<1>1. g \in Seq(Lines)
  BY DEF IsSheet, Lines, Named
<1>2. Len(g) \in Nat /\ DOMAIN g = 1 .. Len(g) /\ \A i \in DOMAIN g : g[i] \in Lines
  BY <1>1
<1>3. PICK p \in DOMAIN g : g[p].line = "names"
  BY DEF IsSheet, LinesOf
<1>4. Len(g) >= 1 /\ 1 \in DOMAIN g
  BY <1>2, <1>3
<1>5. \A i \in DOMAIN g : Len(g[i].cells) = Width(g)
  BY DEF IsSheet
<1>6. \A i \in DOMAIN g : g[i].cells \in Seq(Named)
  BY <1>2 DEF Lines
<1>7. Width(g) \in Nat
  BY <1>4, <1>6 DEF Width
<1>8. \A i \in DOMAIN g : DOMAIN g[i].cells = 1 .. Width(g)
  BY <1>5, <1>6
<1>9. \A i, j \in DOMAIN g : g[i].line = g[j].line => i = j
  BY DEF IsSheet
<1> QED BY <1>1, <1>2, <1>3, <1>4, <1>5, <1>7, <1>8, <1>9

\* The filled lines, and where they are in the sheet.
At(at, g, rows) ==
    /\ rows \in Seq(Lines) /\ Len(rows) \in Nat /\ DOMAIN rows = 1 .. Len(rows)
    /\ at \in [1 .. Len(rows) -> DOMAIN g]
    /\ \A i, j \in 1 .. Len(rows) : i < j => at[i] < at[j]
    /\ \A i \in 1 .. Len(rows) : rows[i] = g[at[i]] /\ DOMAIN rows[i].cells = 1 .. Width(g) /\ Len(rows[i].cells) = Width(g)
    /\ \A j \in DOMAIN g : IsFilled(g[j].cells) => \E i \in 1 .. Len(rows) : at[i] = j

LEMMA FilledSays == ASSUME NEW g, IsSheet(g) PROVE \E at : At(at, g, FilledLines(g))
<1> DEFINE keep == {r \in Elements(g) : IsFilled(r.cells)}  rows == FilledLines(g)
<1>1. /\ g \in Seq(Lines) /\ Len(g) \in Nat /\ DOMAIN g = 1 .. Len(g)
      /\ \A i \in DOMAIN g : g[i] \in Lines /\ Len(g[i].cells) = Width(g) /\ DOMAIN g[i].cells = 1 .. Width(g)
  BY SheetSays
<1>2. rows = Filtered(g, keep)
  BY DEF FilledLines
<1>3. \A j \in DOMAIN g : IsFilled(g[j].cells) => g[j] \in keep
  BY DEF Elements
<1> HIDE DEF keep, rows
<1>4. rows \in Seq(Lines) /\ \E at : Places(at, g, keep, rows, Len(g))
  BY <1>1, <1>2, FilteredHasPlaces
<1>5. PICK at : Places(at, g, keep, rows, Len(g))
  BY <1>4
<1>6. /\ Len(rows) \in Nat /\ DOMAIN rows = 1 .. Len(rows) /\ at \in [1 .. Len(rows) -> DOMAIN g]
      /\ \A i, j \in 1 .. Len(rows) : i < j => at[i] < at[j]
      /\ \A i \in 1 .. Len(rows) : rows[i] = g[at[i]]
      /\ \A j \in DOMAIN g : g[j] \in keep => \E i \in 1 .. Len(rows) : at[i] = j
  BY <1>1, <1>5 DEF Places
<1>7. At(at, g, rows)
  BY <1>1, <1>3, <1>4, <1>6 DEF At
<1> QED BY <1>7 DEF rows

LEMMA LabelsSay == ASSUME NEW w \in Nat, NEW cells, DOMAIN cells = 1 .. w PROVE LabelsIn(cells) \in 0 .. w
<1>1. {j \in DOMAIN cells : cells[j] \in Plain} \subseteq 1 .. w
  OBVIOUS
<1>2. LabelsIn(cells) \in Nat /\ LabelsIn(cells) <= w
  BY <1>1, CountIsNat DEF LabelsIn
<1> QED BY <1>2

LEMMA ScoreSays == ASSUME NEW g, IsSheet(g), NEW at, NEW rows, At(at, g, rows), NEW i \in 1 .. Len(rows)
    PROVE /\ LabelsIn(rows[i].cells) \in 0 .. Width(g) /\ Width(g) \in Nat /\ Below(rows, i) \in Nat
          /\ Score(rows, i) = LabelsIn(rows[i].cells) + (IF Below(rows, i) <= 3 THEN Below(rows, i) ELSE 3)
          /\ i = Len(rows) => Below(rows, i) = 0
<1>1. Width(g) \in Nat
  BY SheetSays
<1>2. LabelsIn(rows[i].cells) \in 0 .. Width(g)
  BY <1>1, LabelsSay DEF At
<1>3. Below(rows, i) \in Nat
  <2>1. CASE i = Len(rows)
    BY <2>1 DEF Below
  <2>2. CASE i # Len(rows)
    <3>0. Len(rows) \in Nat
      BY DEF At
    <3>1. i + 1 \in 1 .. Len(rows)
      BY <2>2, <3>0
    <3>2. DOMAIN rows[i + 1].cells = 1 .. Width(g)
      BY <3>1 DEF At
    <3>3. {j \in DOMAIN rows[i + 1].cells : rows[i + 1].cells[j] # None} \subseteq 1 .. Width(g)
      BY <3>2
    <3>4. Cardinality({j \in DOMAIN rows[i + 1].cells : rows[i + 1].cells[j] # None}) \in Nat
      BY <1>1, <3>3, CountIsNat
    <3> QED BY <2>2, <3>4 DEF Below
  <2> QED BY <2>1, <2>2
<1>4. ASSUME NEW b \in Nat PROVE Least({b, 3}) = IF b <= 3 THEN b ELSE 3
  <2>1. PICK T : T = {b, 3}
    OBVIOUS
  <2>2. T \subseteq Nat /\ b \in T /\ 3 \in T
    BY <2>1
  <2>3. CASE b <= 3
    <3>1. \A k \in T : b <= k
      BY <2>1, <2>3
    <3>2. Least(T) = b
      BY <2>2, <3>1, LeastIs
    <3> QED BY <2>1, <2>3, <3>2
  <2>4. CASE ~(b <= 3)
    <3>1. \A k \in T : 3 <= k
      BY <2>1, <2>4
    <3>2. Least(T) = 3
      BY <2>2, <3>1, LeastIs
    <3> QED BY <2>1, <2>4, <3>2
  <2> QED BY <2>3, <2>4
<1>5. i = Len(rows) => Below(rows, i) = 0
  BY DEF Below
<1> QED BY <1>1, <1>2, <1>3, <1>4, <1>5 DEF Score

----------------------------------------------------------------------------
(* The sheet: where its names are and what is read below them *)

LEMMA HeaderIsThere == ASSUME NEW g, IsSheet(g), NEW at, NEW rows, At(at, g, rows), Len(rows) >= 1
    PROVE HeaderAt(rows) \in 1 .. Len(rows)
<1> DEFINE dense == {i \in DOMAIN rows : i <= 30 /\ LabelsIn(rows[i].cells) >= 3}
           best == {i \in dense : \A k \in dense : Score(rows, i) >= Score(rows, k)}
<1>0. Len(rows) \in Nat /\ DOMAIN rows = 1 .. Len(rows)
  BY DEF At
<1>1. CASE dense = {}
  BY <1>0, <1>1 DEF HeaderAt
<1>2. CASE dense # {}
  <2> DEFINE top == Width(g) + 3
             miss == {top - Score(rows, i) : i \in dense}
  <2>1. Width(g) \in Nat
    BY SheetSays
  <2>2. ASSUME NEW i \in dense PROVE Score(rows, i) \in Nat /\ top - Score(rows, i) \in Nat
    <3>1. i \in 1 .. Len(rows)
      BY <1>0
    <3>2. /\ LabelsIn(rows[i].cells) \in 0 .. Width(g) /\ Below(rows, i) \in Nat
          /\ Score(rows, i) = LabelsIn(rows[i].cells) + (IF Below(rows, i) <= 3 THEN Below(rows, i) ELSE 3)
      BY <3>1, ScoreSays
    <3> QED BY <2>1, <3>2
  <2> HIDE DEF dense
  <2>3. miss \subseteq Nat /\ miss # {}
    BY <1>2, <2>2
  <2>4. PICK x \in miss : \A y \in miss : x <= y
    BY <2>3, LeastNat
  <2>5. PICK i \in dense : x = top - Score(rows, i)
    BY <2>4
  <2>6. ASSUME NEW k \in dense PROVE Score(rows, i) >= Score(rows, k)
    <3>1. x <= top - Score(rows, k)
      BY <2>4
    <3>2. Score(rows, k) \in Nat /\ Score(rows, i) \in Nat
      BY <2>2
    <3> QED BY <2>1, <2>5, <3>1, <3>2
  <2>7. best # {} /\ best \subseteq 1 .. Len(rows)
    BY <1>0, <2>5, <2>6 DEF dense
  <2>8. Least(best) \in best
    BY <2>7, LeastSays
  <2>9. HeaderAt(rows) = Least(best)
    BY <1>2 DEF HeaderAt, dense
  <2> QED BY <2>7, <2>8, <2>9
<1> QED BY <1>1, <1>2

LEMMA HeaderIsNames == ASSUME NEW g, IsSheet(g), NEW at, At(at, g, FilledLines(g)), StandsOut(g)
    PROVE FilledLines(g)[HeaderAt(FilledLines(g))].line = "names"
<1>0. PICK rows : rows = FilledLines(g)
  OBVIOUS
<1>1. PICK h \in DOMAIN rows :
          /\ rows[h].line = "names" /\ h < Len(rows) /\ h <= 30
          /\ LabelsIn(rows[h].cells) >= 3 /\ Below(rows, h) >= 3
          /\ \A i \in DOMAIN rows : /\ LabelsIn(rows[i].cells) <= LabelsIn(rows[h].cells)
                                    /\ i < h => LabelsIn(rows[i].cells) < LabelsIn(rows[h].cells)
  BY <1>0 DEF StandsOut
<1>2. At(at, g, rows)
  BY <1>0
<1>3. Len(rows) \in Nat /\ DOMAIN rows = 1 .. Len(rows)
  BY <1>2 DEF At
<1> DEFINE dense == {i \in DOMAIN rows : i <= 30 /\ LabelsIn(rows[i].cells) >= 3}
           best == {i \in dense : \A k \in dense : Score(rows, i) >= Score(rows, k)}
<1>4. h \in dense
  BY <1>1
<1>5. ASSUME NEW i \in DOMAIN rows
      PROVE /\ LabelsIn(rows[i].cells) \in Nat /\ Score(rows, i) \in Nat
            /\ Score(rows, i) <= LabelsIn(rows[i].cells) + 3
            /\ Below(rows, i) >= 3 => Score(rows, i) = LabelsIn(rows[i].cells) + 3
  <2>1. i \in 1 .. Len(rows)
    BY <1>3
  <2>2. /\ LabelsIn(rows[i].cells) \in 0 .. Width(g) /\ Width(g) \in Nat /\ Below(rows, i) \in Nat
        /\ Score(rows, i) = LabelsIn(rows[i].cells) + (IF Below(rows, i) <= 3 THEN Below(rows, i) ELSE 3)
    BY <1>2, <2>1, ScoreSays
  <2> QED BY <2>2
<1>6. Score(rows, h) = LabelsIn(rows[h].cells) + 3 /\ LabelsIn(rows[h].cells) \in Nat
  BY <1>1, <1>5
<1>7. ASSUME NEW k \in DOMAIN rows PROVE Score(rows, h) >= Score(rows, k) /\ (k < h => Score(rows, h) > Score(rows, k))
  <2>1. LabelsIn(rows[k].cells) \in Nat /\ Score(rows, k) \in Nat /\ Score(rows, k) <= LabelsIn(rows[k].cells) + 3
    BY <1>5
  <2>2. LabelsIn(rows[k].cells) <= LabelsIn(rows[h].cells) /\ (k < h => LabelsIn(rows[k].cells) < LabelsIn(rows[h].cells))
    BY <1>1
  <2> QED BY <1>6, <2>1, <2>2
<1>8. h \in best /\ best \subseteq Nat
  BY <1>3, <1>4, <1>7
<1>9. ASSUME NEW k \in best PROVE h <= k
  <2>1. k \in DOMAIN rows /\ Score(rows, k) >= Score(rows, h)
    BY <1>4
  <2>2. Score(rows, k) \in Nat /\ Score(rows, h) \in Nat
    BY <1>1, <1>5, <2>1
  <2>3. ~(k < h)
    BY <1>7, <2>1, <2>2
  <2> QED BY <1>3, <1>1, <2>1, <2>3
<1> HIDE DEF best
<1>10. Least(best) = h
  BY <1>8, <1>9, LeastIs
<1>11. HeaderAt(rows) = Least(best)
  BY <1>4 DEF HeaderAt, best
<1> QED BY <1>0, <1>1, <1>10, <1>11

\* What a table has: the names in one line and filled lines after it.
TableOf(g, t, h) ==
    /\ h \in DOMAIN g /\ t.names = NamesIn(g[h].cells)
    /\ \A k \in DOMAIN t.rows : \E i \in DOMAIN g : i > h /\ t.rows[k] = g[i]
    /\ \A i \in DOMAIN g : i > h /\ IsFilled(g[i].cells) => \E k \in DOMAIN t.rows : t.rows[k] = g[i]
    /\ StandsOut(g) => g[h].line = "names"

LEMMA TableSays == ASSUME NEW g, IsSheet(g)
    PROVE (Table(g) = [names |-> << >>, rows |-> << >>] /\ ~StandsOut(g)) \/ \E h : TableOf(g, Table(g), h)
<1>1. PICK rows : rows = FilledLines(g)
  OBVIOUS
<1>2. PICK at : At(at, g, rows)
  BY <1>1, FilledSays
<1>3. /\ rows \in Seq(Lines) /\ Len(rows) \in Nat /\ DOMAIN rows = 1 .. Len(rows)
      /\ at \in [1 .. Len(rows) -> DOMAIN g]
      /\ \A i, j \in 1 .. Len(rows) : i < j => at[i] < at[j]
      /\ \A i \in 1 .. Len(rows) : rows[i] = g[at[i]]
      /\ \A j \in DOMAIN g : IsFilled(g[j].cells) => \E i \in 1 .. Len(rows) : at[i] = j
  BY <1>2 DEF At
<1>4. CASE rows = << >>
  <2>1. Table(g) = [names |-> << >>, rows |-> << >>]
    BY <1>1, <1>4 DEF Table
  <2>2. DOMAIN rows = {}
    BY <1>4
  <2>3. ~StandsOut(g)
    BY <1>1, <2>2 DEF StandsOut
  <2> QED BY <2>1, <2>3
<1>5. CASE rows # << >>
  <2>0. Len(rows) >= 1
    BY <1>3, <1>5
  <2>1. PICK n : n = HeaderAt(rows)
    OBVIOUS
  <2>2. n \in 1 .. Len(rows)
    BY <1>2, <2>0, <2>1, HeaderIsThere
  <2>3. PICK tail : tail = SubSeq(rows, n + 1, Len(rows))
    OBVIOUS
  <2>4. Table(g) = [names |-> NamesIn(rows[n].cells), rows |-> tail]
    BY <1>1, <1>5, <2>1, <2>3 DEF Table
  <2>5. DOMAIN tail = 1 .. Len(rows) - n /\ \A k \in 1 .. Len(rows) - n : tail[k] = rows[n + k]
    BY <1>3, <2>2, <2>3
  <2>6. PICK h : h = at[n]
    OBVIOUS
  <2>7. h \in DOMAIN g /\ rows[n] = g[h]
    BY <1>3, <2>2, <2>6
  <2>8. \A k \in DOMAIN tail : \E i \in DOMAIN g : i > h /\ tail[k] = g[i]
    <3>1. ASSUME NEW k \in DOMAIN tail PROVE \E i \in DOMAIN g : i > h /\ tail[k] = g[i]
      <4>1. n + k \in 1 .. Len(rows) /\ n < n + k /\ tail[k] = rows[n + k]
        BY <1>3, <2>2, <2>5
      <4>2. at[n + k] \in DOMAIN g /\ at[n + k] > h /\ rows[n + k] = g[at[n + k]]
        BY <1>3, <2>2, <2>6, <4>1
      <4> QED BY <4>1, <4>2
    <3> QED BY <3>1
  <2>9. \A i \in DOMAIN g : i > h /\ IsFilled(g[i].cells) => \E k \in DOMAIN tail : tail[k] = g[i]
    <3>1. ASSUME NEW i \in DOMAIN g, i > h, IsFilled(g[i].cells) PROVE \E k \in DOMAIN tail : tail[k] = g[i]
      <4>1. PICK q \in 1 .. Len(rows) : at[q] = i
        BY <1>3, <3>1
      <4>2. DOMAIN g = 1 .. Len(g) /\ Len(g) \in Nat
        BY SheetSays
      <4>3. ~(q < n) /\ q # n
        BY <1>3, <2>2, <2>6, <3>1, <4>1, <4>2
      <4>4. q - n \in DOMAIN tail /\ n + (q - n) = q
        BY <1>3, <2>2, <2>5, <4>3
      <4>5. tail[q - n] = rows[q] /\ rows[q] = g[i]
        BY <1>3, <2>5, <4>1, <4>4
      <4> QED BY <4>4, <4>5
    <3> QED BY <3>1
  <2>10. StandsOut(g) => g[h].line = "names"
    BY <1>1, <1>2, <2>1, <2>7, HeaderIsNames
  <2>11. TableOf(g, Table(g), h)
    BY <2>4, <2>7, <2>8, <2>9, <2>10 DEF TableOf
  <2> QED BY <2>11
<1> QED BY <1>4, <1>5

\* The keys that are read from a table are those of its lines.
KeysAre(t, m, c, y) ==
    /\ \A l \in DOMAIN KeysOf(t, m, y) : \E k \in DOMAIN t.rows :
          t.rows[k].line = l /\ StillOrder(t.names, m, c, t.rows[k], KeysOf(t, m, y)[l], y)
    /\ \A k \in DOMAIN t.rows : \A key : StillOrder(t.names, m, c, t.rows[k], key, y) =>
          t.rows[k].line \in DOMAIN KeysOf(t, m, y) /\ KeysOf(t, m, y)[t.rows[k].line] = key

LEMMA ReadKeysSay == ASSUME NEW g, IsSheet(g), NEW m, NEW t, t = Table(g), NEW y
                 PROVE KeysAre(t, m, ColumnOf(t.names, m["status"]), y)
<1> DEFINE d(k) == DraftFrom(t.names, m, t.rows[k], y)
           ds == {x \in DraftsOf(t, m, y) : ~x.cancelled}
<1>1. \A k \in DOMAIN t.rows : \E i \in DOMAIN g : t.rows[k] = g[i]
  <2>1. CASE t = [names |-> << >>, rows |-> << >>]
    BY <2>1
  <2>2. ASSUME NEW h, TableOf(g, t, h) PROVE \A k \in DOMAIN t.rows : \E i \in DOMAIN g : t.rows[k] = g[i]
    BY <2>2 DEF TableOf
  <2> QED BY <2>1, <2>2, TableSays
<1>2. \A i, j \in DOMAIN g : g[i].line = g[j].line => i = j
  BY SheetSays
<1>3. \A k, q \in DOMAIN t.rows : t.rows[k].line = t.rows[q].line => t.rows[k] = t.rows[q]
  BY <1>1, <1>2
<1>4. KeysOf(t, m, y) = [l \in {x.line : x \in ds} |-> SourceKey(CHOOSE x \in ds : x.line = l)]
  BY DEF KeysOf
<1>5. \A x : x \in ds <=> \E k \in DOMAIN t.rows : x = d(k) /\ IsOrder(d(k)) /\ ~d(k).cancelled
  BY DEF DraftsOf
<1>6. \A k : d(k).line = t.rows[k].line
  BY DEF DraftFrom
<1>7. \A k : d(k).cancelled <=> LooksCancelled(CellAt(t.rows[k], ColumnOf(t.names, m["status"])))
  BY IsRead
<1>8. \A k, q \in DOMAIN t.rows : d(k).line = d(q).line => d(k) = d(q)
  BY <1>3, <1>6
<1>9. \A k : t.rows[k].line = d(k).line
  BY <1>6
<1>10. \A k, key : StillOrder(t.names, m, ColumnOf(t.names, m["status"]), t.rows[k], key, y)
                   <=> IsOrder(d(k)) /\ SourceKey(d(k)) = key /\ ~d(k).cancelled
  BY <1>7 DEF StillOrder
<1> HIDE DEF d, ds
<1>11. ASSUME NEW l \in {x.line : x \in ds}
       PROVE \E k \in DOMAIN t.rows : t.rows[k].line = l /\ IsOrder(d(k)) /\ ~d(k).cancelled /\ SourceKey(d(k)) = KeysOf(t, m, y)[l]
  <2>1. \E x \in ds : x.line = l
    OBVIOUS
  <2>2. PICK x : x \in ds /\ x.line = l /\ x = CHOOSE z \in ds : z.line = l
    BY <2>1
  <2>3. PICK k \in DOMAIN t.rows : x = d(k) /\ IsOrder(d(k)) /\ ~d(k).cancelled
    BY <1>5, <2>2
  <2>4. KeysOf(t, m, y)[l] = SourceKey(x)
    BY <1>4, <2>2
  <2> QED BY <1>9, <2>2, <2>3, <2>4
<1>12. ASSUME NEW k \in DOMAIN t.rows, IsOrder(d(k)), ~d(k).cancelled
       PROVE t.rows[k].line \in DOMAIN KeysOf(t, m, y) /\ KeysOf(t, m, y)[t.rows[k].line] = SourceKey(d(k))
  <2>1. d(k) \in ds
    BY <1>5, <1>12
  <2>2. t.rows[k].line \in {x.line : x \in ds}
    BY <1>9, <2>1
  <2>3. PICK x : x \in ds /\ x.line = t.rows[k].line /\ x = CHOOSE z \in ds : z.line = t.rows[k].line
    BY <1>9, <2>1
  <2>4. x = d(k)
    BY <1>5, <1>8, <1>9, <2>3
  <2>5. PICK l : l = t.rows[k].line
    OBVIOUS
  <2>6. l \in DOMAIN KeysOf(t, m, y)
    BY <1>4, <2>2, <2>5
  <2>7. KeysOf(t, m, y)[l] = SourceKey(x)
    BY <1>4, <2>2, <2>3, <2>5
  <2> QED BY <2>4, <2>5, <2>6, <2>7
<1> DEFINE c == ColumnOf(t.names, m["status"])
<1>13. DOMAIN KeysOf(t, m, y) = {x.line : x \in ds}
  BY <1>4
<1>14. \A l \in DOMAIN KeysOf(t, m, y) : \E k \in DOMAIN t.rows : t.rows[k].line = l /\ StillOrder(t.names, m, c, t.rows[k], KeysOf(t, m, y)[l], y)
  <2>1. ASSUME NEW l \in DOMAIN KeysOf(t, m, y)
        PROVE \E k \in DOMAIN t.rows : t.rows[k].line = l /\ StillOrder(t.names, m, c, t.rows[k], KeysOf(t, m, y)[l], y)
    <3>1. PICK k \in DOMAIN t.rows : t.rows[k].line = l /\ IsOrder(d(k)) /\ ~d(k).cancelled /\ SourceKey(d(k)) = KeysOf(t, m, y)[l]
      BY <1>11, <1>13, <2>1
    <3>2. StillOrder(t.names, m, c, t.rows[k], KeysOf(t, m, y)[l], y)
      BY <1>10, <3>1
    <3> QED BY <3>1, <3>2
  <2> QED BY <2>1
<1>15. \A k \in DOMAIN t.rows : \A key : StillOrder(t.names, m, c, t.rows[k], key, y) =>
          t.rows[k].line \in DOMAIN KeysOf(t, m, y) /\ KeysOf(t, m, y)[t.rows[k].line] = key
  BY <1>10, <1>12
<1> QED BY <1>14, <1>15 DEF KeysAre

\* The columns of all fields but the state mean something.
LooseMapping(m) == DOMAIN m = Fields /\ \A f \in FieldsAre \ {"status"} : Meant(m[f])

MappingNow(names, cols) == IF cols # None THEN cols ELSE Found(names)

\* Read in year y, the order of every line nobody wrote on is still below the
\* names, under its key.
RowsKept(g, cols, ks, c, wr, y) ==
    \E p \in DOMAIN g :
      /\ g[p].line = "names"
      /\ \A l \in DOMAIN ks \ wr : \E i \in DOMAIN g :
           /\ i > p /\ g[i].line = l
           /\ StillOrder(NamesIn(g[p].cells), MappingNow(NamesIn(g[p].cells), cols), c, g[i], ks[l], y)

SheetOK(g, cols, ks, c, wr, clr, y) ==
    /\ y \in Years /\ IsSheet(g) /\ c \in 1 .. Width(g) + 1
    /\ cols # None => LooseMapping(cols)
    /\ DOMAIN ks \subseteq SheetLines /\ wr \subseteq SheetLines /\ clr \in BOOLEAN
    /\ clr => RowsKept(g, cols, ks, c, wr, y)

SheetInv == SheetOK(grid, columns, keys, telling, written, clear, readIn) /\ year \in Years

LEMMA FoundMeans == ASSUME NEW c \in Seq(Named) PROVE IsMapping(Found(NamesIn(c)))
<1>1. 1 \in 1 .. Len(c) + 1 /\ None \in Named
  BY DEF Named
<1>2. Widened(NamesIn(c), NamesIn(Inserted(c, 1, None)), 1)
  BY <1>1, InsertionWidens
<1> QED BY <1>2, FoundSame

\* The names of a table are those in the cells of a line, or there are none.
TableFrom(g, t, c) ==
    /\ t.names = NamesIn(c)
    /\ Len(c) = 0 \/ Len(c) = Width(g)
    /\ \A k \in DOMAIN t.rows : \E i \in DOMAIN g : t.rows[k] = g[i] /\ Len(c) = Len(g[i].cells)
    /\ \A k \in DOMAIN c : \E i \in DOMAIN g : k \in DOMAIN g[i].cells /\ c[k] = g[i].cells[k]

LEMMA TableIs == ASSUME NEW g, IsSheet(g)
    PROVE \E c \in Seq(Named) : TableFrom(g, Table(g), c)
<1>0. /\ \A i \in DOMAIN g : g[i] \in Lines /\ Len(g[i].cells) = Width(g)
  BY SheetSays
<1>1. CASE Table(g) = [names |-> << >>, rows |-> << >>]
  <2>1. << >> \in Seq(Named) /\ Len(<< >>) = 0
    OBVIOUS
  <2>5. DOMAIN << >> = {}
    OBVIOUS
  <2>2. NamesIn(<< >>) = << >>
    BY <2>1 DEF NamesIn
  <2>3. Table(g).names = NamesIn(<< >>) /\ Table(g).rows = << >>
    BY <1>1, <2>2
  <2>4. TableFrom(g, Table(g), << >>)
    BY <2>1, <2>3, <2>5 DEF TableFrom
  <2> QED BY <2>1, <2>4
<1>2. ASSUME NEW h, TableOf(g, Table(g), h)
      PROVE \E c \in Seq(Named) : TableFrom(g, Table(g), c)
  <2>1. /\ h \in DOMAIN g /\ Table(g).names = NamesIn(g[h].cells)
        /\ \A k \in DOMAIN Table(g).rows : \E i \in DOMAIN g : Table(g).rows[k] = g[i]
    BY <1>2 DEF TableOf
  <2>2. PICK c \in Seq(Named) : c = g[h].cells
    BY <1>0, <2>1 DEF Lines
  <2>3. Len(c) = Width(g) /\ \A i \in DOMAIN g : Len(c) = Len(g[i].cells)
    BY <1>0, <2>1, <2>2
  <2>4. Table(g).names = NamesIn(c) /\ \A k \in DOMAIN c : h \in DOMAIN g /\ k \in DOMAIN g[h].cells /\ c[k] = g[h].cells[k]
    BY <2>1, <2>2
  <2>5. TableFrom(g, Table(g), c)
    BY <2>1, <2>3, <2>4 DEF TableFrom
  <2> QED BY <2>5
<1>3. Table(g) = [names |-> << >>, rows |-> << >>] \/ \E h : TableOf(g, Table(g), h)
  BY TableSays
<1>4. CASE \E h : TableOf(g, Table(g), h)
  <2>1. PICK h : TableOf(g, Table(g), h)
    BY <1>4
  <2> QED BY <1>2, <2>1
<1> QED BY <1>1, <1>3, <1>4

LEMMA ColumnIsThere == ASSUME NEW names, IsNames(names), NEW s
    PROVE /\ ColumnOf(names, s) \in 1 .. Len(names) + 1
          /\ ColumnOf(names, s) \in DOMAIN names => names[ColumnOf(names, s)] = s
<1> DEFINE T == {Len(names) + 1} \cup {k \in DOMAIN names : names[k] = s}
<1>1. Len(names) \in Nat /\ DOMAIN names = 1 .. Len(names)
  BY DEF IsNames
<1>2. T \subseteq Nat /\ T # {} /\ T \subseteq 1 .. Len(names) + 1
  BY <1>1
<1>3. Least(T) \in T
  BY <1>2, LeastSays
<1>4. Least(T) # Len(names) + 1 => names[Least(T)] = s
  BY <1>3
<1>5. ColumnOf(names, s) = Least(T)
  BY DEF ColumnOf
<1> HIDE DEF T
<1>6. ColumnOf(names, s) \in 1 .. Len(names) + 1
  BY <1>2, <1>3, <1>5
<1>7. ASSUME ColumnOf(names, s) \in DOMAIN names PROVE names[ColumnOf(names, s)] = s
  <2>1. ColumnOf(names, s) # Len(names) + 1
    BY <1>1, <1>7
  <2> QED BY <1>4, <1>5, <2>1
<1> QED BY <1>6, <1>7

LEMMA DetectSays == ASSUME NEW g, IsSheet(g), NEW t, t = Table(g)
    PROVE /\ LooseMapping(DetectMapping(t))
          /\ \A f \in FieldsAre \ {"status"} : DetectMapping(t)[f] = Found(t.names)[f]
<1>1. PICK c \in Seq(Named) : t.names = NamesIn(c)
  BY TableIs DEF TableFrom
<1>2. IsMapping(Found(t.names))
  BY <1>1, FoundMeans
<1>3. PICK found : found = Found(t.names)
  OBVIOUS
<1>4. DOMAIN found = Fields /\ Fields = FieldsAre /\ \A f \in FieldsAre : Meant(found[f])
  BY <1>2, <1>3, FieldsSay DEF IsMapping
<1>5. \E x : DetectMapping(t) = found \/ DetectMapping(t) = [found EXCEPT !["status"] = x]
  BY <1>3 DEF DetectMapping
<1>6. PICK m : m = DetectMapping(t)
  OBVIOUS
<1>7. DOMAIN m = Fields /\ \A f \in FieldsAre \ {"status"} : m[f] = found[f]
  BY <1>4, <1>5, <1>6
<1>8. LooseMapping(m)
  BY <1>4, <1>7 DEF LooseMapping
<1> QED BY <1>3, <1>6, <1>7, <1>8

\* The columns a reading of the table uses.
ReadBy(m, cols, t) == m = IF cols # None THEN cols ELSE DetectMapping(t)

LEMMA ReadBySays == ASSUME NEW g, IsSheet(g), NEW t, t = Table(g), NEW cols, NEW m, ReadBy(m, cols, t)
    PROVE \A f \in FieldsAre \ {"status"} : m[f] = MappingNow(t.names, cols)[f]
  BY DetectSays DEF ReadBy, MappingNow

LEMMA SameBy == ASSUME NEW names, NEW m1, NEW m2, \A f \in FieldsAre \ {"status"} : m1[f] = m2[f],
                       NEW row, NEW c, NEW key, NEW y, StillOrder(names, m1, c, row, key, y)
                PROVE StillOrder(names, m2, c, row, key, y)
<1>1. SameCells(names, m1, row, names, m2, row)
  BY DEF SameCells
<1> QED BY <1>1, StillSame

LEMMA ReadKeeps ==
    ASSUME NEW g, IsSheet(g), StandsOut(g), NEW t, t = Table(g), NEW cols, NEW m, ReadBy(m, cols, t), NEW y
    PROVE RowsKept(g, cols, KeysOf(t, m, y), ColumnOf(t.names, m["status"]), {}, y)
<1>1. PICK h : TableOf(g, t, h)
  BY TableSays
<1>2. /\ h \in DOMAIN g /\ t.names = NamesIn(g[h].cells) /\ g[h].line = "names"
      /\ \A k \in DOMAIN t.rows : \E i \in DOMAIN g : i > h /\ t.rows[k] = g[i]
  BY <1>1 DEF TableOf
<1>3. PICK c : c = ColumnOf(t.names, m["status"])
  OBVIOUS
<1>4. PICK now : now = MappingNow(t.names, cols)
  OBVIOUS
<1>5. \A f \in FieldsAre \ {"status"} : m[f] = now[f]
  BY <1>4, ReadBySays
<1>6. ASSUME NEW l \in DOMAIN KeysOf(t, m, y)
      PROVE \E i \in DOMAIN g : i > h /\ g[i].line = l /\ StillOrder(t.names, now, c, g[i], KeysOf(t, m, y)[l], y)
  <2>1. PICK k \in DOMAIN t.rows : t.rows[k].line = l /\ StillOrder(t.names, m, c, t.rows[k], KeysOf(t, m, y)[l], y)
    <3>1. KeysAre(t, m, c, y)
      BY <1>3, ReadKeysSay
    <3> QED BY <1>6, <3>1 DEF KeysAre
  <2>2. PICK i \in DOMAIN g : i > h /\ t.rows[k] = g[i]
    BY <1>2
  <2>3. StillOrder(t.names, now, c, t.rows[k], KeysOf(t, m, y)[l], y)
    BY <1>5, <2>1, SameBy
  <2> QED BY <2>1, <2>2, <2>3
<1> QED BY <1>2, <1>3, <1>4, <1>6 DEF RowsKept

LEMMA KeptIsRead ==
    ASSUME NEW g, IsSheet(g), StandsOut(g), NEW t, t = Table(g), NEW cols, NEW m, ReadBy(m, cols, t),
           NEW ks, NEW wr, NEW y, NEW c, c = ColumnOf(t.names, m["status"]), RowsKept(g, cols, ks, c, wr, y),
           NEW l \in DOMAIN ks \ wr
    PROVE l \in DOMAIN KeysOf(t, m, y) /\ KeysOf(t, m, y)[l] = ks[l]
<1>1. PICK h : TableOf(g, t, h)
  BY TableSays
<1>2. /\ h \in DOMAIN g /\ t.names = NamesIn(g[h].cells) /\ g[h].line = "names"
      /\ \A i \in DOMAIN g : i > h /\ IsFilled(g[i].cells) => \E k \in DOMAIN t.rows : t.rows[k] = g[i]
  BY <1>1 DEF TableOf
<1>3. \A i, j \in DOMAIN g : g[i].line = g[j].line => i = j
  BY SheetSays
<1>4. PICK p \in DOMAIN g : /\ g[p].line = "names"
                            /\ \E i \in DOMAIN g : i > p /\ g[i].line = l /\ StillOrder(NamesIn(g[p].cells), MappingNow(NamesIn(g[p].cells), cols), c, g[i], ks[l], y)
  BY DEF RowsKept
<1>5. p = h
  BY <1>2, <1>3, <1>4
<1>6. PICK i \in DOMAIN g : i > h /\ g[i].line = l /\ StillOrder(t.names, MappingNow(t.names, cols), c, g[i], ks[l], y)
  BY <1>2, <1>4, <1>5
<1>7. PICK now : now = MappingNow(t.names, cols)
  OBVIOUS
<1>8. \A f \in FieldsAre \ {"status"} : now[f] = m[f]
  BY <1>7, ReadBySays
<1>9. StillOrder(t.names, m, c, g[i], ks[l], y)
  BY <1>6, <1>7, <1>8, SameBy
<1>10. IsFilled(g[i].cells)
  BY <1>9, OrderIsFilled DEF StillOrder
<1>11. PICK k \in DOMAIN t.rows : t.rows[k] = g[i]
  BY <1>2, <1>6, <1>10
<1>12. KeysAre(t, m, c, y)
  BY ReadKeysSay
<1> QED BY <1>6, <1>9, <1>11, <1>12 DEF KeysAre

----------------------------------------------------------------------------
(* The sheet: every step *)

EachOnce(g) == \A i, j \in DOMAIN g : g[i].line = g[j].line => i = j
AllWide(g, w) == \A i \in DOMAIN g : Len(g[i].cells) = w

LEMMA IsSheetIs ==
    ASSUME NEW g, g \in Seq(Lines), EachOnce(g), NEW w, AllWide(g, w), NEW p \in DOMAIN g, g[p].line = "names"
    PROVE IsSheet(g) /\ Width(g) = w
<1>1. 1 \in DOMAIN g
  <2>1. DOMAIN g = 1 .. Len(g) /\ Len(g) \in Nat
    OBVIOUS
  <2> QED BY <2>1
<1>2. Width(g) = w
  BY <1>1 DEF Width, AllWide
<1>3. "names" \in LinesOf(g)
  BY DEF LinesOf
<1> QED BY <1>2, <1>3 DEF IsSheet, Lines, Named, EachOnce, AllWide

LEMMA CellAtMoves ==
    ASSUME NEW w \in Nat, NEW j \in 1 .. w + 1, NEW s \in Seq(Named), Len(s) = w, NEW row, row.cells = s,
           NEW x, NEW row2, row2.cells = Inserted(s, j, x), NEW c \in 1 .. w + 1
    PROVE CellAt(row2, Moved(j, c)) = CellAt(row, c)
<1>1. PICK q \in Seq(Named) : q = s
  OBVIOUS
<1>2. Len(q) = w /\ DOMAIN q = 1 .. w
  BY <1>1
<1>3. DOMAIN row2.cells = 1 .. w + 1 /\ \A k \in 1 .. w : row2.cells[Moved(j, k)] = q[k]
  <2>1. j \in 1 .. Len(q) + 1
    BY <1>2
  <2>2. DOMAIN Inserted(q, j, x) = 1 .. Len(q) + 1 /\ \A k \in 1 .. Len(q) : Inserted(q, j, x)[Moved(j, k)] = q[k]
    BY <2>1, InsertedSays
  <2> QED BY <1>1, <1>2, <2>2
<1>4. (\A k \in 1 .. w : Moved(j, k) \in 1 .. w + 1) /\ Moved(j, w + 1) = w + 2
  BY MovedSays
<1>5. CASE c = w + 1
  <2>1. c \notin 1 .. w /\ Moved(j, c) \notin 1 .. w + 1
    BY <1>4, <1>5
  <2> QED BY <1>1, <1>2, <1>3, <2>1 DEF CellAt
<1>6. CASE c # w + 1
  <2>1. c \in 1 .. w
    BY <1>6
  <2> QED BY <1>1, <1>2, <1>3, <1>4, <2>1 DEF CellAt
<1> QED BY <1>5, <1>6

\* g with a column at j: word among the names, nothing below.
Wider(g, j, word) ==
    [i \in DOMAIN g |-> [g[i] EXCEPT !.cells = Inserted(@, j, IF g[i].line = "names" THEN word ELSE None)]]

LEMMA WiderSays ==
    ASSUME NEW g, IsSheet(g), NEW j \in 1 .. Width(g) + 1, NEW word \in Named, NEW wide, wide = Wider(g, j, word)
    PROVE /\ DOMAIN wide = DOMAIN g
          /\ \A i \in DOMAIN g : /\ wide[i].line = g[i].line
                                 /\ wide[i].cells = Inserted(g[i].cells, j, IF g[i].line = "names" THEN word ELSE None)
          /\ IsSheet(wide) /\ Width(wide) = Width(g) + 1
<1>1. /\ g \in Seq(Lines) /\ Len(g) \in Nat /\ DOMAIN g = 1 .. Len(g) /\ Width(g) \in Nat
      /\ \A i \in DOMAIN g : g[i] \in Lines /\ Len(g[i].cells) = Width(g)
      /\ \A i, k \in DOMAIN g : g[i].line = g[k].line => i = k
  BY SheetSays
<1>2. DOMAIN wide = DOMAIN g
  BY DEF Wider
<1>3. ASSUME NEW i \in DOMAIN g
      PROVE /\ wide[i].line = g[i].line
            /\ wide[i].cells = Inserted(g[i].cells, j, IF g[i].line = "names" THEN word ELSE None)
            /\ wide[i] \in Lines /\ Len(wide[i].cells) = Width(g) + 1
  <2>1. g[i] \in [line : SheetLines, cells : Seq(Named)] /\ Len(g[i].cells) = Width(g)
    BY <1>1 DEF Lines
  <2>2. PICK x \in Named : x = IF g[i].line = "names" THEN word ELSE None
    BY DEF Named
  <2>3. wide[i] = [g[i] EXCEPT !.cells = Inserted(g[i].cells, j, x)]
    BY <2>2 DEF Wider
  <2>4. PICK q \in Seq(Named) : q = g[i].cells
    BY <2>1
  <2>5. Inserted(q, j, x) \in Seq(Named) /\ Len(Inserted(q, j, x)) = Width(g) + 1
    BY <2>1, <2>4, InsertedSays
  <2>6. wide[i].line = g[i].line /\ wide[i].cells = Inserted(q, j, x) /\ wide[i] \in [line : SheetLines, cells : Seq(Named)]
    BY <2>1, <2>3, <2>4, <2>5
  <2> QED BY <2>2, <2>4, <2>5, <2>6 DEF Lines
<1>4. wide \in Seq(Lines)
  <2>1. wide = [i \in 1 .. Len(g) |-> wide[i]]
    BY <1>1 DEF Wider
  <2> QED BY <1>1, <1>3, <2>1
<1>5. PICK p \in DOMAIN g : g[p].line = "names"
  BY SheetSays
<1>6. p \in DOMAIN wide /\ wide[p].line = "names"
  BY <1>2, <1>3, <1>5
<1>7. EachOnce(wide)
  BY <1>1, <1>2, <1>3 DEF EachOnce
<1>8. AllWide(wide, Width(g) + 1)
  BY <1>2, <1>3 DEF AllWide
<1>9. IsSheet(wide) /\ Width(wide) = Width(g) + 1
  BY <1>4, <1>6, <1>7, <1>8, IsSheetIs
<1> QED BY <1>2, <1>3, <1>9

LEMMA WiderKeeps ==
    ASSUME NEW g, IsSheet(g), NEW j \in 1 .. Width(g) + 1, NEW word \in Named, word = None \/ PartOf[word] = {},
           NEW wide, wide = Wider(g, j, word), NEW cols, cols # None => LooseMapping(cols),
           NEW ks, NEW c \in 1 .. Width(g) + 1, NEW wr, NEW y, RowsKept(g, cols, ks, c, wr, y)
    PROVE RowsKept(wide, cols, ks, Moved(j, c), wr, y)
<1>1. /\ Width(g) \in Nat /\ DOMAIN g = 1 .. Len(g)
      /\ \A i \in DOMAIN g : g[i] \in Lines /\ Len(g[i].cells) = Width(g)
      /\ \A i, k \in DOMAIN g : g[i].line = g[k].line => i = k
  BY SheetSays
<1>2. /\ DOMAIN wide = DOMAIN g
      /\ \A i \in DOMAIN g : /\ wide[i].line = g[i].line
                             /\ wide[i].cells = Inserted(g[i].cells, j, IF g[i].line = "names" THEN word ELSE None)
  BY WiderSays
<1>3. PICK p \in DOMAIN g :
      /\ g[p].line = "names"
      /\ \A l \in DOMAIN ks \ wr : \E i \in DOMAIN g :
           /\ i > p /\ g[i].line = l
           /\ StillOrder(NamesIn(g[p].cells), MappingNow(NamesIn(g[p].cells), cols), c, g[i], ks[l], y)
  BY DEF RowsKept
<1>4. PICK head \in Seq(Named) : head = g[p].cells
  BY <1>1 DEF Lines
<1>5. PICK names : names = NamesIn(head)
  OBVIOUS
<1>6. PICK more : more = NamesIn(Inserted(head, j, word))
  OBVIOUS
<1>7. Len(head) = Width(g)
  BY <1>1, <1>4
<1>8. Widened(names, more, j) /\ Len(names) = Width(g)
  BY <1>5, <1>6, <1>7, InsertionWidens, NamesAre
<1>9. Found(more) = Found(names) /\ IsMapping(Found(names))
  BY <1>8, FoundSame
<1>10. PICK m : m = MappingNow(names, cols)
  OBVIOUS
<1>11. MappingNow(more, cols) = m
  BY <1>9, <1>10 DEF MappingNow
<1>12. \A f \in FieldsAre \ {"status"} : Meant(m[f])
  <2>1. Fields = FieldsAre
    BY FieldsSay
  <2>2. CASE cols = None
    BY <1>9, <1>10, <2>1, <2>2 DEF IsMapping, MappingNow
  <2>3. CASE cols # None
    BY <1>10, <2>3 DEF LooseMapping, MappingNow
  <2> QED BY <2>2, <2>3
<1>13. ASSUME NEW l \in DOMAIN ks \ wr
       PROVE \E i \in DOMAIN wide : i > p /\ wide[i].line = l /\ StillOrder(more, m, Moved(j, c), wide[i], ks[l], y)
  <2>1. PICK i \in DOMAIN g : i > p /\ g[i].line = l /\ StillOrder(names, m, c, g[i], ks[l], y)
    BY <1>3, <1>4, <1>5, <1>10
  <2>2. p # i /\ g[i].line # "names"
    BY <1>1, <1>3, <2>1
  <2>3. wide[i].cells = Inserted(g[i].cells, j, None) /\ wide[i].line = l
    BY <1>2, <2>1, <2>2
  <2>4. PICK q \in Seq(Named) : q = g[i].cells /\ Len(q) = Width(g)
    BY <1>1 DEF Lines
  <2>9. g[i].cells = q /\ wide[i].cells = Inserted(q, j, None)
    BY <2>3, <2>4
  <2>5. ASSUME NEW f \in FieldsAre \ {"status"} PROVE CellOf(names, m[f], g[i]) = CellOf(more, m[f], wide[i])
    <3>1. PICK s : s = m[f]
      OBVIOUS
    <3>2. Meant(s)
      BY <1>12, <3>1
    <3>3. Len(q) = Len(names) /\ Widened(names, more, j)
      BY <1>8, <2>4
    <3>4. CellOf(more, s, wide[i]) = CellOf(names, s, g[i])
      BY <2>9, <3>2, <3>3, CellMoves
    <3> QED BY <3>1, <3>4
  <2>6. SameCells(names, m, g[i], more, m, wide[i])
    BY <2>5 DEF SameCells
  <2>7. CellAt(g[i], c) = CellAt(wide[i], Moved(j, c))
    BY <1>1, <2>4, <2>9, CellAtMoves
  <2>8. StillOrder(more, m, Moved(j, c), wide[i], ks[l], y)
    BY <2>1, <2>6, <2>7, StillSame
  <2> QED BY <1>2, <2>1, <2>3, <2>8
<1>14. p \in DOMAIN wide /\ wide[p].line = "names" /\ more = NamesIn(wide[p].cells)
  BY <1>2, <1>3, <1>4, <1>6
<1> QED BY <1>11, <1>13, <1>14 DEF RowsKept

LEMMA LongerSays ==
    ASSUME NEW g, IsSheet(g), NEW i \in 1 .. Len(g) + 1, NEW r \in Lines, Len(r.cells) = Width(g), r.line \notin LinesOf(g)
    PROVE IsSheet(Inserted(g, i, r)) /\ Width(Inserted(g, i, r)) = Width(g)
<1>1. /\ g \in Seq(Lines) /\ Len(g) \in Nat /\ DOMAIN g = 1 .. Len(g) /\ Width(g) \in Nat
      /\ \A k \in DOMAIN g : g[k] \in Lines /\ Len(g[k].cells) = Width(g)
      /\ \A a, b \in DOMAIN g : g[a].line = g[b].line => a = b
  BY SheetSays
<1>2. PICK q : q = Inserted(g, i, r)
  OBVIOUS
<1>3. /\ q \in Seq(Lines) /\ DOMAIN q = 1 .. Len(g) + 1 /\ q[i] = r
      /\ \A k \in 1 .. Len(g) : q[Moved(i, k)] = g[k]
  <2>1. /\ DOMAIN Inserted(g, i, r) = 1 .. Len(g) + 1 /\ Inserted(g, i, r)[i] = r
        /\ \A k \in 1 .. Len(g) : Inserted(g, i, r)[Moved(i, k)] = g[k]
    BY <1>1, InsertedSays
  <2>2. Inserted(g, i, r) \in Seq(Lines)
    BY <1>1, InsertedSays
  <2> QED BY <1>2, <2>1, <2>2
<1>4. /\ \A k \in 1 .. Len(g) : Moved(i, k) \in 1 .. Len(g) + 1
      /\ \A k \in 1 .. Len(g) + 1 : k # i => \E a \in 1 .. Len(g) : Moved(i, a) = k
  BY <1>1, MovedSays
<1>5. \A k \in DOMAIN q : k = i \/ \E a \in DOMAIN g : Moved(i, a) = k /\ q[k] = g[a]
  BY <1>1, <1>3, <1>4
<1>6. AllWide(q, Width(g))
  BY <1>1, <1>3, <1>5 DEF AllWide
<1>7. \A k \in DOMAIN g : g[k].line # r.line
  BY DEF LinesOf
<1>8. EachOnce(q)
  BY <1>1, <1>3, <1>5, <1>7 DEF EachOnce
<1>9. PICK p \in DOMAIN g : g[p].line = "names"
  BY SheetSays
<1>10. Moved(i, p) \in DOMAIN q /\ q[Moved(i, p)].line = "names"
  BY <1>1, <1>3, <1>4, <1>9
<1>11. q \in Seq(Lines)
  BY <1>3
<1>12. IsSheet(q) /\ Width(q) = Width(g)
  BY <1>6, <1>8, <1>10, <1>11, IsSheetIs
<1> QED BY <1>2, <1>12

LEMMA LongerKeeps ==
    ASSUME NEW g, IsSheet(g), NEW i \in 1 .. Len(g) + 1, NEW r \in Lines,
           NEW cols, NEW ks, NEW c, NEW wr, NEW y, RowsKept(g, cols, ks, c, wr, y)
    PROVE RowsKept(Inserted(g, i, r), cols, ks, c, wr, y)
<1>1. g \in Seq(Lines) /\ Len(g) \in Nat /\ DOMAIN g = 1 .. Len(g)
  BY SheetSays
<1>2. PICK q : q = Inserted(g, i, r)
  OBVIOUS
<1>3. DOMAIN q = 1 .. Len(g) + 1 /\ \A k \in 1 .. Len(g) : q[Moved(i, k)] = g[k]
  BY <1>1, <1>2, InsertedSays
<1>4. /\ \A k \in 1 .. Len(g) : Moved(i, k) \in 1 .. Len(g) + 1
      /\ \A a, b \in 1 .. Len(g) + 1 : a < b <=> Moved(i, a) < Moved(i, b)
  BY <1>1, MovedSays
<1>5. PICK p \in DOMAIN g :
      /\ g[p].line = "names"
      /\ \A l \in DOMAIN ks \ wr : \E k \in DOMAIN g :
           /\ k > p /\ g[k].line = l
           /\ StillOrder(NamesIn(g[p].cells), MappingNow(NamesIn(g[p].cells), cols), c, g[k], ks[l], y)
  BY DEF RowsKept
<1>6. PICK h : h = Moved(i, p)
  OBVIOUS
<1>7. h \in DOMAIN q /\ q[h] = g[p]
  BY <1>1, <1>3, <1>4, <1>6
<1>8. ASSUME NEW l \in DOMAIN ks \ wr
      PROVE \E k \in DOMAIN q : k > h /\ q[k].line = l
                /\ StillOrder(NamesIn(q[h].cells), MappingNow(NamesIn(q[h].cells), cols), c, q[k], ks[l], y)
  <2>1. PICK k \in DOMAIN g : k > p /\ g[k].line = l
           /\ StillOrder(NamesIn(g[p].cells), MappingNow(NamesIn(g[p].cells), cols), c, g[k], ks[l], y)
    BY <1>5
  <2>2. p \in 1 .. Len(g) + 1 /\ k \in 1 .. Len(g) + 1 /\ p < k
    BY <1>1, <2>1
  <2>3. Moved(i, k) \in DOMAIN q /\ Moved(i, k) > h /\ q[Moved(i, k)] = g[k]
    BY <1>1, <1>3, <1>4, <1>6, <2>2
  <2> QED BY <1>7, <2>1, <2>3
<1> QED BY <1>2, <1>5, <1>7, <1>8 DEF RowsKept

\* q is g with another text in line i.
Rewritten(g, i, q) ==
    /\ IsSheet(q) /\ Width(q) = Width(g) /\ DOMAIN q = DOMAIN g
    /\ \A k \in DOMAIN g : q[k].line = g[k].line /\ (k # i => q[k] = g[k])

LEMMA WrittenSays ==
    ASSUME NEW g, IsSheet(g), NEW i \in DOMAIN g, NEW j \in 1 .. Width(g), NEW word \in Named,
           NEW q, q = [g EXCEPT ![i].cells[j] = word]
    PROVE Rewritten(g, i, q)
<1>1. /\ g \in Seq(Lines) /\ Len(g) \in Nat /\ DOMAIN g = 1 .. Len(g) /\ Width(g) \in Nat
      /\ \A k \in DOMAIN g : g[k] \in Lines /\ Len(g[k].cells) = Width(g)
      /\ \A a, b \in DOMAIN g : g[a].line = g[b].line => a = b
  BY SheetSays
<1>2. g[i] \in [line : SheetLines, cells : Seq(Named)] /\ g[i].cells \in Seq(Named) /\ Len(g[i].cells) = Width(g)
  BY <1>1 DEF Lines
<1>3. PICK cells : cells = [g[i].cells EXCEPT ![j] = word]
  OBVIOUS
<1>4. cells \in Seq(Named) /\ Len(cells) = Width(g)
  BY <1>2, <1>3
<1>5. PICK r : r = [g[i] EXCEPT !.cells = cells]
  OBVIOUS
<1>6. r \in Lines /\ r.line = g[i].line /\ r.cells = cells
  BY <1>2, <1>4, <1>5 DEF Lines
<1>7. q = [g EXCEPT ![i] = r]
  BY <1>3, <1>5
<1>8. q \in Seq(Lines) /\ DOMAIN q = DOMAIN g /\ q[i] = r /\ \A k \in DOMAIN g : k # i => q[k] = g[k]
  BY <1>1, <1>6, <1>7
<1>9. \A k \in DOMAIN g : q[k].line = g[k].line /\ Len(q[k].cells) = Width(g)
  BY <1>1, <1>4, <1>6, <1>8
<1>10. PICK p \in DOMAIN g : g[p].line = "names"
  BY SheetSays
<1>11. p \in DOMAIN q /\ q[p].line = "names"
  BY <1>8, <1>9, <1>10
<1>13. EachOnce(q)
  BY <1>1, <1>8, <1>9 DEF EachOnce
<1>14. AllWide(q, Width(g))
  BY <1>8, <1>9 DEF AllWide
<1>12. IsSheet(q) /\ Width(q) = Width(g)
  BY <1>8, <1>11, <1>13, <1>14, IsSheetIs
<1> QED BY <1>8, <1>9, <1>12 DEF Rewritten

LEMMA WrittenKeeps ==
    ASSUME NEW g, IsSheet(g), NEW i \in DOMAIN g, NEW j \in 1 .. Width(g), NEW word \in Named,
           NEW q, q = [g EXCEPT ![i].cells[j] = word], g[i].line # "names",
           NEW cols, NEW ks, NEW c, NEW wr, NEW y, RowsKept(g, cols, ks, c, wr, y)
    PROVE RowsKept(q, cols, ks, c, wr \cup {g[i].line}, y)
<1>1. DOMAIN q = DOMAIN g /\ \A k \in DOMAIN g : q[k].line = g[k].line /\ (k # i => q[k] = g[k])
  BY WrittenSays DEF Rewritten
<1>2. PICK p \in DOMAIN g :
      /\ g[p].line = "names"
      /\ \A l \in DOMAIN ks \ wr : \E k \in DOMAIN g :
           /\ k > p /\ g[k].line = l
           /\ StillOrder(NamesIn(g[p].cells), MappingNow(NamesIn(g[p].cells), cols), c, g[k], ks[l], y)
  BY DEF RowsKept
<1>3. q[p] = g[p]
  BY <1>1, <1>2
<1>4. ASSUME NEW l \in DOMAIN ks \ (wr \cup {g[i].line})
      PROVE \E k \in DOMAIN q : k > p /\ q[k].line = l
                /\ StillOrder(NamesIn(q[p].cells), MappingNow(NamesIn(q[p].cells), cols), c, q[k], ks[l], y)
  <2>1. PICK k \in DOMAIN g : k > p /\ g[k].line = l
           /\ StillOrder(NamesIn(g[p].cells), MappingNow(NamesIn(g[p].cells), cols), c, g[k], ks[l], y)
    BY <1>2
  <2>2. k # i /\ q[k] = g[k]
    BY <1>1, <2>1
  <2> QED BY <1>1, <1>3, <2>1, <2>2
<1> QED BY <1>1, <1>2, <1>3, <1>4 DEF RowsKept

LEMMA ReadingSays ==
    ASSUME NEW g, IsSheet(g), NEW t, t = Table(g), NEW cols, cols # None => LooseMapping(cols),
           NEW m, ReadBy(m, cols, t), NEW y \in Years
    PROVE SheetOK(g, cols, KeysOf(t, m, y), ColumnOf(t.names, m["status"]), {}, StandsOut(g), y)
<1>1. PICK c \in Seq(Named) : TableFrom(g, t, c)
  BY TableIs
<1>2. t.names = NamesIn(c) /\ (Len(c) = 0 \/ Len(c) = Width(g)) /\ Width(g) \in Nat
      /\ \A k \in DOMAIN t.rows : \E i \in DOMAIN g : t.rows[k] = g[i]
  BY <1>1, SheetSays DEF TableFrom
<1>3. IsNames(t.names) /\ Len(t.names) = Len(c)
  BY <1>2, NamesAre
<1>4. ColumnOf(t.names, m["status"]) \in 1 .. Width(g) + 1
  <2>1. ColumnOf(t.names, m["status"]) \in 1 .. Len(t.names) + 1
    BY <1>3, ColumnIsThere
  <2> QED BY <1>2, <1>3, <2>1
<1>5. DOMAIN KeysOf(t, m, y) \subseteq SheetLines
  <2>1. KeysAre(t, m, ColumnOf(t.names, m["status"]), y)
    BY ReadKeysSay
  <2>2. \A i \in DOMAIN g : g[i] \in Lines
    BY SheetSays
  <2>3. ASSUME NEW l \in DOMAIN KeysOf(t, m, y) PROVE l \in SheetLines
    <3>1. PICK k \in DOMAIN t.rows : t.rows[k].line = l
      BY <2>1 DEF KeysAre
    <3>2. PICK i \in DOMAIN g : t.rows[k] = g[i]
      BY <1>2
    <3> QED BY <2>2, <3>1, <3>2 DEF Lines
  <2> QED BY <2>3
<1>6. StandsOut(g) => RowsKept(g, cols, KeysOf(t, m, y), ColumnOf(t.names, m["status"]), {}, y)
  BY ReadKeeps
<1>7. StandsOut(g) \in BOOLEAN
  BY DEF StandsOut
<1> QED BY <1>4, <1>5, <1>6, <1>7 DEF SheetOK

LEMMA SheetStart == SheetInit => SheetInv
<1> SUFFICES ASSUME SheetInit PROVE SheetInv
  OBVIOUS
<1>1. IsSheet(grid) /\ columns = None /\ year \in Years /\ readIn = year
  BY SheetsAssumption DEF SheetInit
<1>2. PICK t : t = Table(grid)
  OBVIOUS
<1>3. PICK m : m = MappingOf(t)
  OBVIOUS
<1>4. ReadBy(m, columns, t)
  BY <1>3 DEF ReadBy, MappingOf
<1>5. SheetOK(grid, columns, KeysOf(t, m, year), ColumnOf(t.names, m["status"]), {}, StandsOut(grid), year)
  BY <1>1, <1>2, <1>4, ReadingSays
<1>6. keys = KeysOf(t, m, year) /\ telling = ColumnOf(t.names, m["status"]) /\ written = {} /\ clear = StandsOut(grid)
  BY <1>2, <1>3 DEF SheetInit, KeysRead, TellingRead
<1> QED BY <1>1, <1>5, <1>6 DEF SheetInv

LEMMA ReadStep == ASSUME SheetInv, ReadSheet PROVE SheetInv'
<1>1. IsSheet(grid) /\ (columns # None => LooseMapping(columns)) /\ year \in Years
  BY DEF SheetInv, SheetOK
<1>2. PICK t : t = Table(grid)
  OBVIOUS
<1>3. PICK m : m = MappingOf(t)
  OBVIOUS
<1>4. ReadBy(m, columns, t)
  BY <1>3 DEF ReadBy, MappingOf
<1>5. SheetOK(grid, columns, KeysOf(t, m, year), ColumnOf(t.names, m["status"]), {}, StandsOut(grid), year)
  BY <1>1, <1>2, <1>4, ReadingSays
<1>6. keys' = KeysOf(t, m, year) /\ telling' = ColumnOf(t.names, m["status"]) /\ written' = {} /\ clear' = StandsOut(grid)
      /\ grid' = grid /\ columns' = columns /\ readIn' = year /\ year' = year
  BY <1>2, <1>3 DEF ReadSheet, KeysRead, TellingRead
<1> QED BY <1>1, <1>5, <1>6 DEF SheetInv

LEMMA SaveStep == ASSUME SheetInv, SaveColumns PROVE SheetInv'
<1>1. /\ IsSheet(grid) /\ telling \in 1 .. Width(grid) + 1
      /\ DOMAIN keys \subseteq SheetLines /\ written \subseteq SheetLines /\ clear \in BOOLEAN
      /\ clear => RowsKept(grid, columns, keys, telling, written, readIn)
      /\ {year, readIn} \subseteq Years
  BY DEF SheetInv, SheetOK
<1>2. PICK t : t = Table(grid)
  OBVIOUS
<1>3. PICK m : m = DetectMapping(t)
  OBVIOUS
<1>4. /\ columns = None /\ columns' = IF m["address"] = None THEN None ELSE m
      /\ clear' = (clear /\ StandsOut(grid))
      /\ UNCHANGED <<grid, keys, telling, written, year, readIn>>
  BY <1>2, <1>3 DEF SaveColumns
<1>5. LooseMapping(m) /\ \A f \in FieldsAre \ {"status"} : m[f] = Found(t.names)[f]
  BY <1>1, <1>2, <1>3, DetectSays
<1>6. ASSUME clear, StandsOut(grid) PROVE RowsKept(grid, columns', keys, telling, written, readIn)
  <2>1. PICK h : TableOf(grid, t, h)
    BY <1>1, <1>2, <1>6, TableSays
  <2>2. h \in DOMAIN grid /\ t.names = NamesIn(grid[h].cells) /\ grid[h].line = "names"
    BY <1>6, <2>1 DEF TableOf
  <2>3. \A i, j \in DOMAIN grid : grid[i].line = grid[j].line => i = j
    BY <1>1, SheetSays
  <2>4. PICK p \in DOMAIN grid :
      /\ grid[p].line = "names"
      /\ \A l \in DOMAIN keys \ written : \E i \in DOMAIN grid :
           /\ i > p /\ grid[i].line = l
           /\ StillOrder(NamesIn(grid[p].cells), MappingNow(NamesIn(grid[p].cells), columns), telling, grid[i], keys[l], readIn)
    BY <1>1, <1>6 DEF RowsKept
  <2>5. NamesIn(grid[p].cells) = t.names
    BY <2>2, <2>3, <2>4
  <2>6. PICK old : old = MappingNow(t.names, columns)
    OBVIOUS
  <2>7. PICK new : new = MappingNow(t.names, columns')
    OBVIOUS
  <2>8. \A f \in FieldsAre \ {"status"} : old[f] = new[f]
    BY <1>4, <1>5, <2>6, <2>7 DEF MappingNow
  <2>9. ASSUME NEW l \in DOMAIN keys \ written
        PROVE \E i \in DOMAIN grid : i > p /\ grid[i].line = l /\ StillOrder(t.names, new, telling, grid[i], keys[l], readIn)
    <3>1. PICK i \in DOMAIN grid : i > p /\ grid[i].line = l /\ StillOrder(t.names, old, telling, grid[i], keys[l], readIn)
      BY <2>4, <2>5, <2>6
    <3>2. StillOrder(t.names, new, telling, grid[i], keys[l], readIn)
      BY <2>8, <3>1, SameBy
    <3> QED BY <3>1, <3>2
  <2> QED BY <2>4, <2>5, <2>7, <2>9 DEF RowsKept
<1>7. clear' => RowsKept(grid, columns', keys, telling, written, readIn)
  BY <1>4, <1>6
<1>8. clear' \in BOOLEAN
  BY <1>4 DEF StandsOut
<1>9. columns' # None => LooseMapping(columns')
  BY <1>4, <1>5
<1>10. SheetOK(grid, columns', keys, telling, written, clear', readIn)
  BY <1>1, <1>7, <1>8, <1>9 DEF SheetOK
<1> QED BY <1>1, <1>4, <1>10 DEF SheetInv

LEMMA ColumnStep ==
    ASSUME SheetInv, NEW j \in 1 .. Width(grid) + 1, NEW word \in NewNames, InsertColumn(j, word)
    PROVE SheetInv'
<1>1. /\ IsSheet(grid) /\ telling \in 1 .. Width(grid) + 1 /\ (columns # None => LooseMapping(columns))
      /\ DOMAIN keys \subseteq SheetLines /\ written \subseteq SheetLines /\ clear \in BOOLEAN
      /\ clear => RowsKept(grid, columns, keys, telling, written, readIn)
      /\ {year, readIn} \subseteq Years
  BY DEF SheetInv, SheetOK
<1>2. word \in Named
  BY SheetsAssumption DEF Named
<1>3. PICK wide : wide = Wider(grid, j, word)
  OBVIOUS
<1>4. /\ grid' = wide /\ telling' = Moved(j, telling)
      /\ clear' = (clear /\ (word = None \/ PartOf[word] = {}))
      /\ UNCHANGED <<columns, keys, written, year, readIn>>
  BY <1>3 DEF InsertColumn, Wider, Moved
<1>5. IsSheet(wide) /\ Width(wide) = Width(grid) + 1
  BY <1>1, <1>2, <1>3, WiderSays
<1>6. Width(grid) \in Nat
  BY <1>1, SheetSays
<1>7. Moved(j, telling) \in 1 .. Width(wide) + 1
  BY <1>1, <1>5, <1>6 DEF Moved
<1>8. clear /\ (word = None \/ PartOf[word] = {}) => RowsKept(wide, columns, keys, Moved(j, telling), written, readIn)
  BY <1>1, <1>2, <1>3, WiderKeeps
<1>9. clear' \in BOOLEAN
  BY <1>1, <1>4
<1>10. SheetOK(wide, columns, keys, Moved(j, telling), written, clear', readIn)
  BY <1>1, <1>4, <1>5, <1>7, <1>8, <1>9 DEF SheetOK
<1> QED BY <1>1, <1>4, <1>10 DEF SheetInv

LEMMA PaddedSays == ASSUME NEW s \in Seq(Named), NEW w \in Nat, Len(s) <= w
    PROVE s \o [j \in 1 .. w - Len(s) |-> None] \in Seq(Named) /\ Len(s \o [j \in 1 .. w - Len(s) |-> None]) = w
<1>1. Len(s) \in Nat /\ w - Len(s) \in Nat
  OBVIOUS
<1>2. None \in Named
  BY DEF Named
<1>3. PICK n \in Nat : n = w - Len(s)
  BY <1>1
<1>4. PICK q : q = [j \in 1 .. n |-> None]
  OBVIOUS
<1> HIDE DEF Named
<1>5. q \in Seq(Named) /\ Len(q) = n
  BY <1>2, <1>4
<1>6. s \o q \in Seq(Named) /\ Len(s \o q) = Len(s) + n
  BY <1>5
<1>7. q = [j \in 1 .. w - Len(s) |-> None]
  BY <1>3, <1>4
<1>8. Len(s) + n = w
  BY <1>1, <1>3
<1> HIDE DEF Named
<1> QED BY <1>6, <1>7, <1>8

LEMMA LineStep ==
    ASSUME SheetInv, NEW l \in SheetLines, NEW i \in 1 .. Len(grid) + 1, NEW cells \in NewLines, InsertLine(l, i, cells)
    PROVE SheetInv'
<1>1. /\ IsSheet(grid) /\ telling \in 1 .. Width(grid) + 1 /\ (columns # None => LooseMapping(columns))
      /\ DOMAIN keys \subseteq SheetLines /\ written \subseteq SheetLines /\ clear \in BOOLEAN
      /\ clear => RowsKept(grid, columns, keys, telling, written, readIn)
      /\ {year, readIn} \subseteq Years
  BY DEF SheetInv, SheetOK
<1>2. Width(grid) \in Nat
  BY <1>1, SheetSays
<1>3. cells \in Seq(Named) /\ Len(cells) <= Width(grid)
  BY SheetsAssumption DEF Named, InsertLine
<1>4. PICK s : s = cells \o [j \in 1 .. Width(grid) - Len(cells) |-> None]
  OBVIOUS
<1>5. s \in Seq(Named) /\ Len(s) = Width(grid)
  BY <1>2, <1>3, <1>4, PaddedSays
<1>6. PICK r : r = Line(l, s)
  OBVIOUS
<1>7. r \in Lines /\ Len(r.cells) = Width(grid) /\ r.line \notin LinesOf(grid)
  BY <1>5, <1>6 DEF Line, Lines, InsertLine
<1>8. grid' = Inserted(grid, i, r) /\ UNCHANGED <<columns, keys, telling, written, clear, year, readIn>>
  BY <1>4, <1>6 DEF InsertLine
<1>9. IsSheet(grid') /\ Width(grid') = Width(grid)
  BY <1>1, <1>7, <1>8, LongerSays
<1>10. clear => RowsKept(grid', columns, keys, telling, written, readIn)
  BY <1>1, <1>7, <1>8, LongerKeeps
<1>11. SheetOK(grid', columns, keys, telling, written, clear, readIn)
  BY <1>1, <1>9, <1>10 DEF SheetOK
<1> QED BY <1>1, <1>8, <1>11 DEF SheetInv

LEMMA CellStep ==
    ASSUME SheetInv, NEW i \in DOMAIN grid, NEW j \in 1 .. Width(grid), NEW word \in NewNames \cup NewWords, WriteCell(i, j, word)
    PROVE SheetInv'
<1>1. /\ IsSheet(grid) /\ telling \in 1 .. Width(grid) + 1 /\ (columns # None => LooseMapping(columns))
      /\ DOMAIN keys \subseteq SheetLines /\ written \subseteq SheetLines /\ clear \in BOOLEAN
      /\ clear => RowsKept(grid, columns, keys, telling, written, readIn)
      /\ {year, readIn} \subseteq Years
  BY DEF SheetInv, SheetOK
<1>2. word \in Named
  BY SheetsAssumption DEF Named
<1>3. /\ grid' = [grid EXCEPT ![i].cells[j] = word]
      /\ written' = written \cup {grid[i].line} /\ clear' = (clear /\ grid[i].line # "names")
      /\ UNCHANGED <<columns, keys, telling, year, readIn>>
  BY DEF WriteCell
<1>4. PICK q : q = [grid EXCEPT ![i].cells[j] = word]
  OBVIOUS
<1>9. PICK g : g = grid
  OBVIOUS
<1>10. IsSheet(g) /\ i \in DOMAIN g /\ j \in 1 .. Width(g) /\ q = [g EXCEPT ![i].cells[j] = word]
  BY <1>1, <1>4, <1>9
<1>12. Rewritten(g, i, q)
  BY <1>2, <1>10, WrittenSays
<1>11. IsSheet(q) /\ Width(q) = Width(g)
  BY <1>12 DEF Rewritten
<1>5. IsSheet(q) /\ Width(q) = Width(grid)
  BY <1>9, <1>11
<1>6. grid[i].line \in SheetLines
  BY <1>1, SheetSays DEF Lines
<1>7. clear /\ grid[i].line # "names" => RowsKept(q, columns, keys, telling, written \cup {grid[i].line}, readIn)
  BY <1>1, <1>2, <1>4, WrittenKeeps
<1>8. SheetOK(q, columns, keys, telling, written', clear', readIn)
  BY <1>1, <1>3, <1>5, <1>6, <1>7 DEF SheetOK
<1> QED BY <1>1, <1>3, <1>4, <1>8 DEF SheetInv

LEMMA YearStep == ASSUME SheetInv, NewYear PROVE SheetInv'
  BY DEF SheetInv, NewYear

LEMMA SheetKeeps == SheetInv /\ (SheetNext \/ UNCHANGED sheetVars) => SheetInv'
<1>1. SheetInv /\ UNCHANGED sheetVars => SheetInv'
  BY DEF sheetVars, SheetInv
<1> QED BY <1>1, ReadStep, SaveStep, ColumnStep, LineStep, CellStep, YearStep DEF SheetNext

LEMMA SheetTypes == SheetInv => SheetTypeOK
  BY DEF SheetInv, SheetOK, SheetTypeOK, LooseMapping

LEMMA RowsStay ==
    ASSUME SheetInv, SheetNext \/ UNCHANGED sheetVars, keys' # keys, clear, clear', telling' = telling,
           NEW l \in DOMAIN keys \ (written \cup Redated)
    PROVE l \in DOMAIN keys' /\ keys'[l] = keys[l]
<1>1. ReadSheet
  BY DEF SheetNext, SaveColumns, InsertLine, InsertColumn, WriteCell, NewYear, sheetVars
<1>2. IsSheet(grid) /\ RowsKept(grid, columns, keys, telling, written, readIn) /\ StandsOut(grid)
  BY <1>1 DEF SheetInv, SheetOK, ReadSheet
<1>3. PICK t : t = Table(grid)
  OBVIOUS
<1>4. PICK m : m = MappingOf(t)
  OBVIOUS
<1>5. ReadBy(m, columns, t)
  BY <1>4 DEF ReadBy, MappingOf
<1>6. keys' = KeysOf(t, m, year) /\ telling = ColumnOf(t.names, m["status"])
  BY <1>1, <1>3, <1>4 DEF ReadSheet, KeysRead, TellingRead
<1>7. l \in DOMAIN KeysOf(t, m, readIn) /\ KeysOf(t, m, readIn)[l] = keys[l]
  BY <1>2, <1>3, <1>5, <1>6, KeptIsRead
<1>8. KeysAre(t, m, telling, readIn) /\ KeysAre(t, m, telling, year)
  BY <1>2, <1>3, <1>6, ReadKeysSay
<1>9. PICK k \in DOMAIN t.rows : t.rows[k].line = l /\ StillOrder(t.names, m, telling, t.rows[k], keys[l], readIn)
  BY <1>7, <1>8 DEF KeysAre
<1>10. PICK cell : cell = CellOf(t.names, m["scheduledDate"], t.rows[k])
  OBVIOUS
<1>11. keys[l][1] # "sig" \/ NormalizeDate(cell, readIn) = NormalizeDate(cell, year)
  BY <1>3, <1>4, <1>9, <1>10 DEF Redated
<1>12. StillOrder(t.names, m, telling, t.rows[k], keys[l], year)
  BY <1>9, <1>10, <1>11, DatedSame
<1>13. l \in DOMAIN KeysOf(t, m, year) /\ KeysOf(t, m, year)[l] = keys[l]
  BY <1>8, <1>9, <1>12 DEF KeysAre
<1> QED BY <1>6, <1>13

LEMMA NothingLost == IsSheet(grid) => NothingIsLost
<1> SUFFICES ASSUME IsSheet(grid) PROVE NothingIsLost
  OBVIOUS
<1>1. PICK t : t = Table(grid)
  OBVIOUS
<1>2. PICK m : m = MappingOf(t)
  OBVIOUS
<1>3. PICK c \in Seq(Named) : TableFrom(grid, t, c)
  BY <1>1, TableIs
<1>4. /\ t.names = NamesIn(c)
      /\ \A k \in DOMAIN t.rows : \E i \in DOMAIN grid : t.rows[k] = grid[i] /\ Len(c) = Len(grid[i].cells)
  BY <1>3 DEF TableFrom
<1>5. IsNames(t.names) /\ Len(t.names) = Len(c)
  BY <1>4, NamesAre
<1>6. /\ \A i \in DOMAIN grid : grid[i] \in Lines /\ Len(grid[i].cells) = Width(grid) /\ DOMAIN grid[i].cells = 1 .. Width(grid)
      /\ \A i, j \in DOMAIN grid : grid[i].line = grid[j].line => i = j
  BY SheetSays
<1>7. \A k, q \in DOMAIN t.rows : t.rows[k].line = t.rows[q].line => t.rows[k] = t.rows[q]
  BY <1>4, <1>6
<1>8. ASSUME NEW d \in DraftsOf(t, m, year), NEW i \in DOMAIN t.rows, t.rows[i].line = d.line, NEW j \in DOMAIN t.rows[i].cells
      PROVE \/ t.rows[i].cells[j] \in {None, d.orderNumber, d.customerName, d.address, d.notes} \cup d.extras
            \/ \E f \in {"orderNumber", "scheduledDate", "status"} : t.names[j] = m[f]
  <2>1. PICK k \in DOMAIN t.rows : d = DraftFrom(t.names, m, t.rows[k], year)
    BY <1>8 DEF DraftsOf
  <2>2. t.rows[k] = t.rows[i]
    BY <1>7, <1>8, <2>1 DEF DraftFrom
  <2>3. PICK row : row = t.rows[i]
    OBVIOUS
  <2>4. d = DraftFrom(t.names, m, row, year)
    BY <2>1, <2>2, <2>3
  <2>5. CASE \E f \in Fields : j = ColumnOf(t.names, m[f])
    <3>1. PICK f \in Fields : j = ColumnOf(t.names, m[f])
      BY <2>5
    <3>2. PICK p \in DOMAIN grid : row = grid[p] /\ Len(c) = Len(grid[p].cells)
      BY <1>4, <2>3
    <3>3. j \in DOMAIN t.names
      <4>1. DOMAIN t.names = 1 .. Len(t.names)
        BY <1>5 DEF IsNames
      <4>2. DOMAIN grid[p].cells = 1 .. Len(c)
        BY <1>6, <3>2
      <4> QED BY <1>5, <1>8, <2>3, <3>2, <4>1, <4>2
    <3>4. t.names[j] = m[f]
      BY <1>5, <3>1, <3>3, ColumnIsThere
    <3>5. CellOf(t.names, m[f], row) = row.cells[j]
      BY <1>8, <2>3, <3>1 DEF CellOf
    <3>6. f \in FieldsAre
      BY FieldsSay
    <3>7. /\ d.customerName = CellOf(t.names, m["customerName"], row)
          /\ d.address = CellOf(t.names, m["address"], row) /\ d.notes = CellOf(t.names, m["notes"], row)
      BY <2>4 DEF DraftFrom
    <3>8. CASE f \in {"orderNumber", "scheduledDate", "status"}
      BY <3>4, <3>8
    <3>9. CASE f \in {"customerName", "address", "notes"}
      BY <2>3, <3>5, <3>7, <3>9
    <3> QED BY <3>6, <3>8, <3>9 DEF FieldsAre
  <2>6. CASE ~ \E f \in Fields : j = ColumnOf(t.names, m[f])
    <3>1. j \in DOMAIN row.cells \ {ColumnOf(t.names, m[f]) : f \in Fields}
      BY <1>8, <2>3, <2>6
    <3>2. row.cells[j] \in d.extras
      BY <2>4, <3>1 DEF DraftFrom
    <3> QED BY <2>3, <3>2
  <2> QED BY <2>5, <2>6
<1> QED BY <1>1, <1>2, <1>8 DEF NothingIsLost

LEMMA NthGrows == ASSUME NEW raw, NEW i \in Nat, NEW j \in Nat, 1 <= i, i < j, raw[i] = raw[j] PROVE Nth(raw, i) < Nth(raw, j)
<1> DEFINE T == {k \in 1 .. i : raw[k] = raw[i]}  U == {k \in 1 .. j : raw[k] = raw[j]}
<1>1. U \subseteq 1 .. j /\ T \subseteq U /\ j \in U /\ j \notin T
  OBVIOUS
<1> HIDE DEF T, U
<1>2. Cardinality(T) < Cardinality(U)
  BY <1>1, FewerInPart
<1> QED BY <1>2 DEF T, U, Nth

\* Without a made-up name in the sheet, raw names are of one text or of none and a number.
LEMMA NamesApart ==
    ASSUME NEW c \in Seq(Named), \A k \in DOMAIN c : c[k] # None => Len(NameIn[c[k]]) = 1,
           NEW i \in DOMAIN c, NEW j \in DOMAIN c, i < j
    PROVE NamesIn(c)[i] # NamesIn(c)[j]
<1> DEFINE raw == RawNames(c)  S == Texts \cup Nat \cup {None}
<1>1. i \in Nat /\ j \in Nat /\ 1 <= i
  OBVIOUS
<1>2. ASSUME NEW k \in DOMAIN c
      PROVE /\ raw[k] \in Seq(S) /\ Nth(raw, k) \in Nat
            /\ NamesIn(c)[k] = IF Nth(raw, k) = 1 THEN raw[k] ELSE Append(raw[k], Nth(raw, k))
            /\ Len(raw[k]) = IF raw[k][1] = None THEN 2 ELSE 1
  <2>1. raw[k] \in Seq(S) /\ (c[k] = None => raw[k] = <<None, k>>) /\ (c[k] # None => raw[k] = NameIn[c[k]])
        /\ (raw[k][1] = None <=> c[k] = None)
    BY RawSays
  <2>2. k \in Nat
    OBVIOUS
  <2>3. Nth(raw, k) \in Nat
    BY <2>2, NthSays
  <2>4. NamesIn(c)[k] = IF Nth(raw, k) = 1 THEN raw[k] ELSE Append(raw[k], Nth(raw, k))
    BY NamesSay
  <2>5. Len(<<None, k>>) = 2
    OBVIOUS
  <2>6. c[k] # None => Len(NameIn[c[k]]) = 1
    OBVIOUS
  <2>7. Len(raw[k]) = IF raw[k][1] = None THEN 2 ELSE 1
    BY <2>1, <2>5, <2>6
  <2> QED BY <2>1, <2>3, <2>4, <2>7
<1> HIDE DEF raw, S
<1>3. \A s \in Seq(S) : \A n : Len(Append(s, n)) = Len(s) + 1
  OBVIOUS
<1>4. \A s \in Seq(S) : \A n : Len(s) >= 1 => Append(s, n)[1] = s[1]
  OBVIOUS
<1>6. PICK a \in Seq(S) : a = raw[i]
  BY <1>2
<1>7. PICK b \in Seq(S) : b = raw[j]
  BY <1>2
<1>8. PICK x \in Nat : x = Nth(raw, i)
  BY <1>2
<1>9. PICK y \in Nat : y = Nth(raw, j)
  BY <1>2
<1>10. /\ NamesIn(c)[i] = (IF x = 1 THEN a ELSE Append(a, x)) /\ Len(a) = (IF a[1] = None THEN 2 ELSE 1)
       /\ NamesIn(c)[j] = (IF y = 1 THEN b ELSE Append(b, y)) /\ Len(b) = (IF b[1] = None THEN 2 ELSE 1)
  BY <1>2, <1>6, <1>7, <1>8, <1>9
<1>11. a = b => x < y
  BY <1>1, <1>6, <1>7, <1>8, <1>9, NthGrows
<1>12. SUFFICES ASSUME NamesIn(c)[i] = NamesIn(c)[j] PROVE FALSE
  OBVIOUS
<1>17. Len(a) \in {1, 2} /\ (Len(a) = 2 <=> a[1] = None)
  BY <1>10
<1>18. Len(b) \in {1, 2} /\ (Len(b) = 2 <=> b[1] = None)
  BY <1>10
<1>19. ASSUME NEW s \in Seq(S), NEW q \in Seq(S), NEW n, q = Append(s, n), Len(s) \in {1, 2}
       PROVE Len(q) = Len(s) + 1 /\ q[1] = s[1]
  <2>1. 1 <= Len(s)
    BY <1>19
  <2> QED BY <1>3, <1>4, <1>19, <2>1
<1>13. CASE x = 1 /\ y = 1
  BY <1>10, <1>11, <1>12, <1>13
<1>14. CASE x # 1 /\ y # 1
  <2>1. Append(a, x) = Append(b, y)
    BY <1>10, <1>12, <1>14
  <2>3. a \in Seq(S) /\ b \in Seq(S)
    BY <1>6, <1>7
  <2>4. Len(a) = Len(b)
    <3>1. Len(Append(a, x)) = Len(a) + 1 /\ Len(Append(b, y)) = Len(b) + 1 /\ Len(a) \in Nat /\ Len(b) \in Nat
      BY <2>3
    <3> QED BY <2>1, <3>1
  <2>5. x = y
    BY <2>1, <2>3, <2>4
  <2>6. \A k \in 1 .. Len(a) : a[k] = b[k]
    BY <2>1, <2>3, <2>4
  <2>2. a = b /\ x = y
    BY <2>3, <2>4, <2>5, <2>6
  <2> QED BY <1>11, <2>2
<1>15. CASE x = 1 /\ y # 1
  <2>1. a = Append(b, y)
    BY <1>10, <1>12, <1>15
  <2>2. Len(a) = Len(b) + 1 /\ a[1] = b[1]
    BY <1>18, <1>19, <2>1
  <2>3. Len(a) = 2 /\ Len(b) = 1
    BY <1>17, <1>18, <2>2
  <2> QED BY <1>17, <1>18, <2>2, <2>3
<1>16. CASE x # 1 /\ y = 1
  <2>1. b = Append(a, x)
    BY <1>10, <1>12, <1>16
  <2>2. Len(b) = Len(a) + 1 /\ b[1] = a[1]
    BY <1>17, <1>19, <2>1
  <2>3. Len(b) = 2 /\ Len(a) = 1
    BY <1>17, <1>18, <2>2
  <2> QED BY <1>17, <1>18, <2>2, <2>3
<1> QED BY <1>13, <1>14, <1>15, <1>16

LEMMA NamesTold == IsSheet(grid) => NamesDiffer
<1> SUFFICES ASSUME IsSheet(grid) PROVE NamesDiffer
  OBVIOUS
<1>1. PICK names : names = Table(grid).names
  OBVIOUS
<1>2. PICK c \in Seq(Named) : TableFrom(grid, Table(grid), c)
  BY TableIs
<1>3. names = NamesIn(c) /\ \A k \in DOMAIN c : \E i \in DOMAIN grid : k \in DOMAIN grid[i].cells /\ c[k] = grid[i].cells[k]
  BY <1>1, <1>2 DEF TableFrom
<1>4. DOMAIN names = DOMAIN c /\ DOMAIN c = 1 .. Len(c) /\ Len(c) \in Nat
  BY <1>3 DEF NamesIn
<1>5. ASSUME NEW i \in DOMAIN names, NEW j \in DOMAIN names, i # j, names[i] = names[j],
             ~ \E k \in DOMAIN grid : \E x \in DOMAIN grid[k].cells : grid[k].cells[x] # None /\ Len(NameIn[grid[k].cells[x]]) > 1
      PROVE FALSE
  <2>1. \A k \in DOMAIN c : c[k] # None => Len(NameIn[c[k]]) = 1
    <3>1. ASSUME NEW k \in DOMAIN c, c[k] # None PROVE Len(NameIn[c[k]]) = 1
      <4>1. PICK p \in DOMAIN grid : k \in DOMAIN grid[p].cells /\ c[k] = grid[p].cells[k]
        BY <1>3
      <4>2. ~(Len(NameIn[c[k]]) > 1)
        BY <1>5, <3>1, <4>1
      <4>3. c[k] \in Texts
        BY <3>1 DEF Named
      <4>4. Len(NameIn[c[k]]) \in {1, 2}
        BY <4>3, OrderSheetAssumption
      <4>5. \A n : n \in {1, 2} /\ ~(n > 1) => n = 1
        OBVIOUS
      <4> QED BY <4>2, <4>4, <4>5
    <3> QED BY <3>1
  <2>2. i \in DOMAIN c /\ j \in DOMAIN c /\ (i < j \/ j < i)
    BY <1>4, <1>5
  <2>3. CASE i < j
    BY <1>3, <1>5, <2>1, <2>2, <2>3, NamesApart
  <2>4. CASE j < i
    BY <1>3, <1>5, <2>1, <2>2, <2>4, NamesApart
  <2> QED BY <2>2, <2>3, <2>4
<1> QED BY <1>1, <1>5 DEF NamesDiffer

----------------------------------------------------------------------------
(* The review: every step, and both together *)

RowReviewed(l) ==
    \/ PageOf[l] \in rebuilt
    \/ preview[l] = "gone"
    \/ l \notin struck /\ (l \in Unreadable \cup Cancelled => l \in fixed \/ preview[l] \in {"trouble", "cancelled"})

\* As long as nothing was done while another answer was awaited: there is one
\* request at most, a change of columns is based on what is shown, and every
\* row that would go has been reviewed.
AllReviewed ==
    /\ \A a, b \in asks : a = b
    /\ \A a \in asks : a.what = "remap" => preview # None /\ a.base = preview /\ a.page \in rebuilt
    /\ preview # None => \A l \in FileRows : RowReviewed(l)

ReviewInv == ReviewTypeOK /\ (~overlapped => AllReviewed)

LEMMA AskSays == ASSUME NEW a \in Asking
    PROVE /\ a.what = "remap" => a.page \in Pages /\ a.base \in Review /\ a.wrong \in BOOLEAN /\ a.rows \in BOOLEAN
          /\ a.what = "import" => a.lines \in SUBSET FileRows
  BY DEF Asking

LEMMA LooksSay ==
    /\ AsRead \in Review /\ \A w, r \in BOOLEAN : FromOriginal(w, r) \in Review
    /\ \A l \in FileRows : l \in Unreadable \cup Cancelled => AsRead[l] \in {"trouble", "cancelled"}
<1>1. ASSUME NEW l \in FileRows PROVE AsRead[l] \in Look /\ (l \in Unreadable \cup Cancelled => AsRead[l] \in {"trouble", "cancelled"})
  <2>1. CASE l \in Cancelled
    BY <2>1 DEF AsRead, Look
  <2>2. CASE l \in Unreadable \ Cancelled
    BY <2>2 DEF AsRead, Look
  <2>3. CASE l \notin Unreadable \cup Cancelled
    BY <2>3 DEF AsRead, Look
  <2> QED BY <2>1, <2>2, <2>3
<1>2. AsRead \in Review
  <2>1. AsRead = [l \in FileRows |-> AsRead[l]]
    BY DEF AsRead
  <2> QED BY <1>1, <2>1 DEF Review
<1>3. ASSUME NEW w \in BOOLEAN, NEW r \in BOOLEAN PROVE FromOriginal(w, r) \in Review
  <2>1. ASSUME NEW l \in FileRows PROVE FromOriginal(w, r)[l] \in Look
    <3>1. CASE ~r
      BY <3>1 DEF FromOriginal, Look
    <3>2. CASE r /\ w
      BY <3>2 DEF FromOriginal, Look
    <3>3. CASE r /\ ~w /\ l \in Cancelled
      BY <3>3 DEF FromOriginal, Look
    <3>4. CASE r /\ ~w /\ l \in Unreadable \ Cancelled
      BY <3>4 DEF FromOriginal, Look
    <3>5. CASE r /\ ~w /\ l \notin Unreadable \cup Cancelled
      BY <3>5 DEF FromOriginal, Look
    <3> QED BY <3>1, <3>2, <3>3, <3>4, <3>5
  <2>2. FromOriginal(w, r) = [l \in FileRows |-> FromOriginal(w, r)[l]]
    BY DEF FromOriginal
  <2> QED BY <2>1, <2>2 DEF Review
<1> QED BY <1>1, <1>2, <1>3

LEMMA ReviewStart == ReviewInit => ReviewInv
<1> SUFFICES ASSUME ReviewInit PROVE ReviewInv
  OBVIOUS
<1>1. FirstPage \in Pages
  BY OrderReviewAssumption DEF FirstPage
<1> QED BY <1>1 DEF ReviewInit, ReviewInv, ReviewTypeOK, AllReviewed

LEMMA OnPageSays == ASSUME NEW v \in Review, NEW p, NEW q \in Review
    PROVE /\ OnPage(v, p, q) \in Review
          /\ \A l \in FileRows : OnPage(v, p, q)[l] = IF PageOf[l] = p THEN q[l] ELSE v[l]
  BY DEF OnPage, Review

LEMMA ReviewTypeKept == ASSUME ReviewTypeOK, ReviewNext \/ UNCHANGED reviewVars PROVE ReviewTypeOK'
<1> USE DEF ReviewTypeOK
<1>0. FirstPage \in Pages
  BY OrderReviewAssumption DEF FirstPage
<1>1. ASSUME ChooseFile PROVE ReviewTypeOK'
  <2>1. [what |-> "file"] \in Asking
    BY DEF Asking
  <2> QED BY <1>1, <2>1 DEF ChooseFile
<1>2. ASSUME Discard PROVE ReviewTypeOK'
  BY <1>2 DEF Discard
<1>3. ASSUME SendRows PROVE ReviewTypeOK'
  <2>1. [what |-> "import", lines |-> ReadyRows(preview)] \in Asking
    BY DEF Asking, ReadyRows
  <2> QED BY <1>3, <2>1 DEF SendRows
<1>4. ASSUME NEW p \in Pages, ShowPage(p) PROVE ReviewTypeOK'
  BY <1>4 DEF ShowPage
<1>5. ASSUME NEW l \in FileRows, EditRow(l) PROVE ReviewTypeOK'
  <2>1. preview \in Review
    BY <1>5 DEF EditRow
  <2>2. PICK v : v = [preview EXCEPT ![l] = "corrected"]
    OBVIOUS
  <2>4. v \in Review /\ v[l] = "corrected" /\ \A k \in FileRows : k # l => v[k] = preview[k]
    BY <2>1, <2>2 DEF Review, Look
  <2>5. preview' = OnPage(preview, active, v)
    BY <1>5, <2>2 DEF EditRow
  <2>6. v \in Review
    BY <2>4
  <2>3. preview' \in Review
    BY <2>1, <2>5, <2>6, OnPageSays
  <2> QED BY <1>5, <2>3 DEF EditRow
<1>6. ASSUME NEW l \in FileRows, DropRow(l) PROVE ReviewTypeOK'
  <2>1. preview \in Review
    BY <1>6 DEF DropRow
  <2>2. PICK v \in Review : v = [preview EXCEPT ![l] = "gone"]
    BY <2>1 DEF Review, Look
  <2>4. preview' = OnPage(preview, active, v)
    BY <1>6, <2>2 DEF DropRow
  <2>3. preview' \in Review
    BY <2>1, <2>4, OnPageSays
  <2> QED BY <1>6, <2>3 DEF DropRow
<1>7. ASSUME NEW wrong \in BOOLEAN, ChangeMapping(wrong) PROVE ReviewTypeOK'
  <2>1. preview \in Review
    BY <1>7 DEF ChangeMapping
  <2>2. [what |-> "remap", page |-> active, base |-> preview, wrong |-> wrong, rows |-> original] \in Asking
    BY <2>1 DEF Asking
  <2> QED BY <1>7, <2>2 DEF ChangeMapping
<1>8. ASSUME NEW a \in asks, FileShown(a) PROVE ReviewTypeOK'
  BY <1>0, <1>8, LooksSay DEF FileShown, Done
<1>9. ASSUME NEW a \in asks, Remapped(a) PROVE ReviewTypeOK'
  <2>1. a.base \in Review /\ a.wrong \in BOOLEAN /\ a.rows \in BOOLEAN
    BY <1>9, AskSays DEF Remapped
  <2>2. preview' \in Review
    BY <1>9, <2>1, LooksSay, OnPageSays DEF Remapped
  <2> QED BY <1>9, <2>2 DEF Remapped, Done
<1>10. ASSUME NEW a \in asks, Imported(a) \/ AskFails(a) PROVE ReviewTypeOK'
  BY <1>10 DEF Imported, AskFails, Done
<1>11. CASE UNCHANGED reviewVars
  BY <1>11 DEF reviewVars
<1> QED BY <1>1, <1>2, <1>3, <1>4, <1>5, <1>6, <1>7, <1>8, <1>9, <1>10, <1>11 DEF ReviewNext

LEMMA ReviewKeeps == ASSUME ReviewInv, ReviewNext \/ UNCHANGED reviewVars PROVE ReviewInv'
<1>0. ReviewTypeOK' /\ ReviewTypeOK
  BY ReviewTypeKept DEF ReviewInv
<1>a. /\ overlapped \in BOOLEAN /\ asks \subseteq Asking /\ preview \in Review \cup {None}
      /\ ~overlapped => AllReviewed
  BY DEF ReviewInv, ReviewTypeOK
<1> SUFFICES ASSUME ~overlapped' PROVE AllReviewed'
  BY <1>0 DEF ReviewInv
<1>1. ASSUME ChooseFile PROVE AllReviewed'
  <2>1. asks = {} /\ AllReviewed /\ asks' = {[what |-> "file"]} /\ UNCHANGED <<preview, fixed, struck, rebuilt>>
    BY <1>a, <1>1 DEF ChooseFile
  <2> QED BY <2>1 DEF AllReviewed, RowReviewed
<1>2. ASSUME Discard PROVE AllReviewed'
  <2>1. asks' = {} /\ preview' = None
    BY <1>a, <1>2 DEF Discard
  <2> QED BY <2>1 DEF AllReviewed
<1>3. ASSUME SendRows PROVE AllReviewed'
  <2>1. /\ asks = {} /\ AllReviewed /\ UNCHANGED <<preview, fixed, struck, rebuilt>>
        /\ asks' = {[what |-> "import", lines |-> ReadyRows(preview)]}
    BY <1>a, <1>3 DEF SendRows
  <2> QED BY <2>1 DEF AllReviewed, RowReviewed
<1>4. ASSUME NEW p \in Pages, ShowPage(p) PROVE AllReviewed'
  BY <1>a, <1>4 DEF ShowPage, AllReviewed, RowReviewed
<1>5. ASSUME NEW l \in FileRows, EditRow(l) PROVE AllReviewed'
  <2>1. /\ asks = {} /\ asks' = {} /\ AllReviewed /\ preview \in Review /\ fixed' = fixed \cup {l}
        /\ preview' = OnPage(preview, active, [preview EXCEPT ![l] = "corrected"])
        /\ preview[l] # "gone" /\ UNCHANGED <<struck, rebuilt>>
    BY <1>a, <1>5 DEF EditRow
  <2>2. PICK v : v = [preview EXCEPT ![l] = "corrected"]
    OBVIOUS
  <2>4. v \in Review /\ v[l] = "corrected" /\ \A k \in FileRows : k # l => v[k] = preview[k]
    BY <2>1, <2>2 DEF Review, Look
  <2>3. \A k \in FileRows : k # l => preview'[k] = preview[k]
    <3>2. preview' = OnPage(preview, active, v) /\ preview \in Review /\ v \in Review
      BY <2>1, <2>2, <2>4
    <3>3. \A k \in FileRows : OnPage(preview, active, v)[k] = IF PageOf[k] = active THEN v[k] ELSE preview[k]
      BY <3>2, OnPageSays
    <3>1. \A k \in FileRows : preview'[k] = IF PageOf[k] = active THEN v[k] ELSE preview[k]
      BY <3>2, <3>3
    <3> QED BY <2>4, <3>1
  <2>5. ASSUME NEW k \in FileRows PROVE RowReviewed(k)'
    <3>1. RowReviewed(k)
      BY <1>5, <2>1 DEF AllReviewed, EditRow
    <3>2. CASE k = l
      BY <2>1, <3>1, <3>2, <1>5 DEF RowReviewed, EditRow
    <3>3. CASE k # l
      BY <2>1, <2>3, <3>1, <3>3 DEF RowReviewed
    <3> QED BY <3>2, <3>3
  <2> QED BY <2>1, <2>5 DEF AllReviewed
<1>6. ASSUME NEW l \in FileRows, DropRow(l) PROVE AllReviewed'
  <2>1. /\ asks = {} /\ asks' = {} /\ AllReviewed /\ preview \in Review /\ struck' = struck \cup {l}
        /\ preview' = OnPage(preview, active, [preview EXCEPT ![l] = "gone"])
        /\ PageOf[l] = active /\ UNCHANGED <<fixed, rebuilt>>
    BY <1>a, <1>6 DEF DropRow
  <2>2. PICK v : v = [preview EXCEPT ![l] = "gone"]
    OBVIOUS
  <2>4. v \in Review /\ v[l] = "gone" /\ \A k \in FileRows : k # l => v[k] = preview[k]
    BY <2>1, <2>2 DEF Review, Look
  <2>3. preview'[l] = "gone" /\ \A k \in FileRows : k # l => preview'[k] = preview[k]
    <3>2. preview' = OnPage(preview, active, v) /\ preview \in Review /\ v \in Review
      BY <2>1, <2>2, <2>4
    <3>3. \A k \in FileRows : OnPage(preview, active, v)[k] = IF PageOf[k] = active THEN v[k] ELSE preview[k]
      BY <3>2, OnPageSays
    <3>1. \A k \in FileRows : preview'[k] = IF PageOf[k] = active THEN v[k] ELSE preview[k]
      BY <3>2, <3>3
    <3> QED BY <2>1, <2>4, <3>1
  <2>5. ASSUME NEW k \in FileRows PROVE RowReviewed(k)'
    <3>1. RowReviewed(k)
      BY <1>6, <2>1 DEF AllReviewed, DropRow
    <3> QED BY <2>1, <2>3, <3>1 DEF RowReviewed
  <2> QED BY <2>1, <2>5 DEF AllReviewed
<1>7. ASSUME NEW wrong \in BOOLEAN, ChangeMapping(wrong) PROVE AllReviewed'
  <2>1. PICK a : a = [what |-> "remap", page |-> active, base |-> preview, wrong |-> wrong, rows |-> original]
    OBVIOUS
  <2>2. /\ asks = {} /\ asks' = {a} /\ AllReviewed /\ preview # None
        /\ rebuilt' = rebuilt \cup {active} /\ UNCHANGED <<preview, fixed, struck>>
    BY <1>a, <1>7, <2>1 DEF ChangeMapping
  <2>3. a.base = preview /\ a.page = active
    BY <2>1
  <2> QED BY <2>2, <2>3 DEF AllReviewed, RowReviewed
<1>8. ASSUME NEW a \in asks, FileShown(a) PROVE AllReviewed'
  <2>1. asks' = {} /\ preview' = AsRead /\ fixed' = {} /\ struck' = {} /\ rebuilt' = {}
    BY <1>8 DEF FileShown
  <2>2. \A l \in FileRows : l \in Unreadable \cup Cancelled => preview'[l] \in {"trouble", "cancelled"}
    BY <2>1, LooksSay
  <2> QED BY <2>1, <2>2 DEF AllReviewed, RowReviewed
<1>9. ASSUME NEW a \in asks, Remapped(a) PROVE AllReviewed'
  <2>1. /\ AllReviewed /\ a.what = "remap" /\ asks' = asks \ {a}
        /\ preview' = OnPage(a.base, a.page, FromOriginal(a.wrong, a.rows))
        /\ UNCHANGED <<fixed, struck, rebuilt>>
    BY <1>a, <1>9 DEF Remapped, Done
  <2>2. asks' = {} /\ preview # None /\ a.base = preview /\ a.page \in rebuilt
    BY <2>1 DEF AllReviewed
  <2>3. a.base \in Review /\ a.wrong \in BOOLEAN /\ a.rows \in BOOLEAN
    BY <1>a, <2>1, AskSays
  <2>4. FromOriginal(a.wrong, a.rows) \in Review
    BY <2>3, LooksSay
  <2>5. \A l \in FileRows : preview'[l] = IF PageOf[l] = a.page THEN FromOriginal(a.wrong, a.rows)[l] ELSE a.base[l]
    BY <2>1, <2>3, <2>4, OnPageSays
  <2>6. ASSUME NEW l \in FileRows PROVE RowReviewed(l)'
    <3>1. RowReviewed(l)
      BY <2>1, <2>2 DEF AllReviewed
    <3>2. CASE PageOf[l] = a.page
      BY <2>1, <2>2, <3>2 DEF RowReviewed
    <3>3. CASE PageOf[l] # a.page
      BY <2>1, <2>2, <2>5, <3>1, <3>3 DEF RowReviewed
    <3> QED BY <3>2, <3>3
  <2> QED BY <2>2, <2>6 DEF AllReviewed
<1>10. ASSUME NEW a \in asks, Imported(a) PROVE AllReviewed'
  <2>1. AllReviewed /\ asks' = asks \ {a} /\ preview' = None
    BY <1>a, <1>10 DEF Imported, Done
  <2>2. asks' = {}
    BY <2>1 DEF AllReviewed
  <2> QED BY <2>1, <2>2 DEF AllReviewed
<1>11. ASSUME NEW a \in asks, AskFails(a) PROVE AllReviewed'
  <2>1. AllReviewed /\ asks' = asks \ {a} /\ UNCHANGED <<preview, fixed, struck, rebuilt>>
    BY <1>a, <1>11 DEF AskFails, Done
  <2> QED BY <2>1 DEF AllReviewed, RowReviewed
<1>12. CASE UNCHANGED reviewVars
  BY <1>a, <1>12 DEF reviewVars, AllReviewed, RowReviewed
<1> QED BY <1>1, <1>2, <1>3, <1>4, <1>5, <1>6, <1>7, <1>8, <1>9, <1>10, <1>11, <1>12 DEF ReviewNext

LEMMA OnlyReviewed ==
    ASSUME ReviewInv, ReviewNext \/ UNCHANGED reviewVars, NEW a \in asks' \ asks, a.what = "import", NEW l \in a.lines
    PROVE \/ PageOf[l] \in rebuilt
          \/ overlapped'
          \/ l \notin struck /\ (l \in Unreadable \cup Cancelled => l \in fixed)
<1>1. SendRows
  <2>1. a \in asks' /\ a \notin asks
    OBVIOUS
  <2>2. ~(asks' \subseteq asks)
    BY <2>1
  <2>3. CASE ChooseFile
    BY <2>1, <2>3 DEF ChooseFile
  <2>4. CASE \E wrong \in BOOLEAN : ChangeMapping(wrong)
    BY <2>1, <2>4 DEF ChangeMapping
  <2> QED BY <2>2, <2>3, <2>4 DEF ReviewNext, Discard, ShowPage, EditRow, DropRow, FileShown, Remapped, Imported, AskFails, Done, reviewVars
<1>2. a.lines = ReadyRows(preview) /\ preview # None /\ overlapped' = (overlapped \/ asks # {})
  BY <1>1 DEF SendRows
<1>3. l \in FileRows /\ preview[l] \notin {"trouble", "cancelled", "gone"}
  BY <1>2 DEF ReadyRows
<1>4. overlapped \in BOOLEAN /\ (~overlapped => AllReviewed)
  BY DEF ReviewInv, ReviewTypeOK
<1>5. CASE ~overlapped
  BY <1>2, <1>3, <1>4, <1>5 DEF AllReviewed, RowReviewed
<1>6. CASE overlapped
  BY <1>2, <1>6
<1> QED BY <1>5, <1>6

\* The sheet that the server reads, and the review of an order file.
SheetsInit == SheetInit /\ ReviewInit /\ NothingSpent

SheetsNext ==
    \/ SheetNext /\ UNCHANGED reviewVars
    \/ ReviewNext /\ UNCHANGED sheetVars

SheetsSpec == SheetsInit /\ [][SheetsNext]_<<sheetVars, reviewVars, spent>>

SheetsInv == SheetInv /\ ReviewInv

LEMMA SheetsHold == SheetsSpec => []SheetsInv
<1>1. SheetsInit => SheetsInv
  BY SheetStart, ReviewStart DEF SheetsInit, SheetsInv
<1>2. SheetsInv /\ [SheetsNext]_<<sheetVars, reviewVars, spent>> => SheetsInv'
  <2>1. [SheetsNext]_<<sheetVars, reviewVars, spent>> => (SheetNext \/ UNCHANGED sheetVars) /\ (ReviewNext \/ UNCHANGED reviewVars)
    BY DEF SheetsNext
  <2> QED BY <2>1, SheetKeeps, ReviewKeeps DEF SheetsInv
<1> QED BY <1>1, <1>2, PTL DEF SheetsSpec

\* Type correctness of the sheet, its readings and the review.
THEOREM SheetsTypeCorrect == SheetsSpec => [](SheetTypeOK /\ ReviewTypeOK)
<1>1. SheetsInv => SheetTypeOK /\ ReviewTypeOK
  BY SheetTypes DEF SheetsInv, ReviewInv
<1> QED BY <1>1, SheetsHold, PTL

\* What is sent has been reviewed; an order nobody wrote on keeps its key
\* whatever lines and columns come between it and the names, at New Year too
\* unless its date, of which the key is made, says no year; nothing of a line is
\* dropped and every column has a name of its own.
THEOREM OrdersComeFromTheirRowsAlways == SheetsSpec => OrdersComeFromTheirRows
<1> DEFINE Kept == keys' # keys /\ clear /\ clear' /\ telling' = telling =>
                     \A l \in DOMAIN keys \ (written \cup Redated) : l \in DOMAIN keys' /\ keys'[l] = keys[l]
           Sent == \A a \in asks' \ asks : a.what = "import" =>
                     \A l \in a.lines :
                       \/ PageOf[l] \in rebuilt
                       \/ overlapped'
                       \/ l \notin struck /\ (l \in Unreadable \cup Cancelled => l \in fixed)
<1>1. SheetsInv => NothingIsLost /\ NamesDiffer
  <2>1. SheetsInv => IsSheet(grid)
    BY DEF SheetsInv, SheetInv, SheetOK
  <2> QED BY <2>1, NothingLost, NamesTold
<1>2. SheetsInv /\ [SheetsNext]_<<sheetVars, reviewVars, spent>> => [Kept]_sheetVars /\ [Sent]_reviewVars
  <2> SUFFICES ASSUME SheetsInv, [SheetsNext]_<<sheetVars, reviewVars, spent>> PROVE [Kept]_sheetVars /\ [Sent]_reviewVars
    OBVIOUS
  <2>1. (SheetNext \/ UNCHANGED sheetVars) /\ (ReviewNext \/ UNCHANGED reviewVars) /\ SheetInv /\ ReviewInv
    BY DEF SheetsNext, SheetsInv
  <2>2. Kept
    BY <2>1, RowsStay
  <2>3. Sent
    BY <2>1, OnlyReviewed
  <2> QED BY <2>2, <2>3
<1>3. SheetsSpec => [][Kept]_sheetVars /\ [][Sent]_reviewVars
  BY <1>2, SheetsHold, PTL DEF SheetsSpec
<1>4. SheetsSpec => [](NothingIsLost /\ NamesDiffer)
  BY <1>1, SheetsHold, PTL
<1> QED BY <1>3, <1>4 DEF OrdersComeFromTheirRows, OnlyReviewedRowsGo, RowsKeepTheirOrders
=============================================================================
