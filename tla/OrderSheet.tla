----------------------------- MODULE OrderSheet -----------------------------
(***************************************************************************)
(* How an order sheet is read: which line holds the names of the columns,  *)
(* what each column means, which lines are orders, and by what key an      *)
(* order is known again.  People keep working on the sheet between two     *)
(* readings, and an order whose key is not read any more is deleted.       *)
(*                                                                         *)
(* What is abstracted: a cell is a text of which the module knows what the *)
(* reader tells apart (a column's name, a date in it, a word that says the *)
(* order is off); 시공종류 and telephone numbers, which are columns like   *)
(* the customer's name; the formats (.xlsx, CSV, the Sheets API) that a    *)
(* grid of texts is taken from.                                            *)
(***************************************************************************)
EXTENDS Common

CONSTANTS
    Texts,      \* what a cell may say
    NameIn,     \* per text, the name a column so headed has: <<text>>, or what the
                \* reader would make of a second column of a name: <<name, 2>>
    AliasOf,    \* per text, the fields it is a name of
    PartOf,     \* per text, the fields of which it contains a name
    Plain,      \* texts that are short and not a number
    Undone,     \* texts that say an order is cancelled or finished
    Stamps,     \* texts that are a date and nothing else
    Years,      \* years the server may read in
    DateIn,     \* per text and year, the date in it, or None; a text that says no
                \* year has the date of the year it is read in
    SheetLines, \* lines there may be
    FirstSheets, \* what the sheet may be at first: sequences of lines
    NewLines,   \* what people may put on a new line
    NewNames,   \* what they may call a column
    NewWords    \* what they may write into another cell

\* Exact names are looked for in this order, then parts of names.
FieldOrder == <<"orderNumber", "customerName", "address", "scheduledDate", "notes", "status">>
Fields == Elements(FieldOrder)

Line(l, cells) == [line |-> l, cells |-> cells]
LinesOf(g) == {g[i].line : i \in DOMAIN g}
Width(g) == Len(g[1].cells)
IsFilled(cells) == \E j \in DOMAIN cells : cells[j] # None

\* Lines of one width, one of them with the names.
IsSheet(g) ==
    /\ g \in Seq([line : SheetLines, cells : Seq(Texts \cup {None})])
    /\ \A i, j \in DOMAIN g : g[i].line = g[j].line => i = j
    /\ \A i \in DOMAIN g : Len(g[i].cells) = Width(g)
    /\ "names" \in LinesOf(g)

\* A name with a number contains what the name without it contains.
ASSUME OrderSheetAssumption ==
    /\ Plain \cup Undone \cup Stamps \subseteq Texts
    /\ None \notin Texts \cup Seq(Texts \cup Nat \cup {None})
    /\ DOMAIN AliasOf = Texts /\ DOMAIN PartOf = Texts /\ DOMAIN DateIn = Texts /\ DOMAIN NameIn = Texts
    /\ Years \subseteq Nat /\ \A t \in Texts : DOMAIN DateIn[t] = Years
    /\ \A t \in Texts : /\ AliasOf[t] \subseteq PartOf[t]
                        /\ NameIn[t] \in Seq(Texts \cup Nat) /\ Len(NameIn[t]) \in {1, 2}
                        /\ NameIn[t][1] \in Texts /\ PartOf[NameIn[t][1]] \subseteq PartOf[t]

ASSUME SheetsAssumption ==
    /\ \A g \in FirstSheets : IsSheet(g)
    /\ NewLines \subseteq Seq(Texts \cup {None}) /\ NewNames \cup NewWords \subseteq Texts \cup {None}

VARIABLES
    grid,    \* the lines of the sheet, the line "names" among them
    columns, \* the columns the link was saved with; None: found at each reading
    keys,    \* the key of every order that was read last
    telling, \* where the column now is that told which orders are off; past the last: none
    written, \* ghost: lines that were written on since
    clear,   \* ghost: the column names stood out at the last reading, and when
             \* columns were saved since, and nobody has touched them since or
             \* named a new column like one of them
    year,    \* the year it is
    readIn   \* ghost: the year of the last reading

sheetVars == <<grid, columns, keys, telling, written, clear, year, readIn>>

SheetTypeOK ==
    /\ IsSheet(grid) /\ telling \in 1 .. Width(grid) + 1
    /\ columns # None => DOMAIN columns = Fields
    /\ DOMAIN keys \subseteq SheetLines /\ written \subseteq SheetLines /\ clear \in BOOLEAN
    /\ {year, readIn} \subseteq Years

LooksCancelled(cell) == cell \in Undone
LooksLikeDate(cell) == cell \in Stamps
NormalizeDate(cell, y) == IF cell = None THEN None ELSE DateIn[cell][y]

----------------------------------------------------------------------------
(* The table in a sheet *)

FilledLines(g) == Filtered(g, {r \in Elements(g) : IsFilled(r.cells)})

LabelsIn(cells) == Cardinality({j \in DOMAIN cells : cells[j] \in Plain})

\* Filled cells under line i.
Below(rows, i) ==
    IF i = Len(rows) THEN 0 ELSE Cardinality({j \in DOMAIN rows[i + 1].cells : rows[i + 1].cells[j] # None})

\* A line under it counts for up to three labels.
Score(rows, i) == LabelsIn(rows[i].cells) + Least({Below(rows, i), 3})

\* The first line of the best score, among the first 30.
HeaderAt(rows) ==
    LET dense == {i \in DOMAIN rows : i <= 30 /\ LabelsIn(rows[i].cells) >= 3}
    IN  IF dense = {} THEN 1
        ELSE Least({i \in dense : \A k \in dense : Score(rows, i) >= Score(rows, k)})

\* The second column of a name gets a number, one without a name its place.
RawNames(cells) == [j \in DOMAIN cells |-> IF cells[j] = None THEN <<None, j>> ELSE NameIn[cells[j]]]
Nth(raw, j) == Cardinality({i \in 1 .. j : raw[i] = raw[j]})
NamesIn(cells) ==
    LET raw == RawNames(cells)
    IN  [j \in DOMAIN cells |-> IF Nth(raw, j) = 1 THEN raw[j] ELSE Append(raw[j], Nth(raw, j))]

Table(g) ==
    LET rows == FilledLines(g)
        at == HeaderAt(rows)
    IN  IF rows = << >> THEN [names |-> << >>, rows |-> << >>]
        ELSE [names |-> NamesIn(rows[at].cells), rows |-> SubSeq(rows, at + 1, Len(rows))]

----------------------------------------------------------------------------
(* What the columns mean *)

Alias(name) == IF name[1] # None /\ Len(name) = 1 THEN AliasOf[name[1]] ELSE {}
Within(name) == IF name[1] # None THEN PartOf[name[1]] ELSE {}

NamedFirst(names, ok) == IF ok = {} THEN None ELSE names[Least(ok)]
Spare(names, m) == {j \in DOMAIN names : names[j] \notin {m[f] : f \in Fields}}

ByName(names, m, f) ==
    [m EXCEPT ![f] = NamedFirst(names, {j \in Spare(names, m) : f \in Alias(names[j])})]
ByPart(names, m, f) ==
    IF m[f] # None THEN m
    ELSE [m EXCEPT ![f] = NamedFirst(names, {j \in Spare(names, m) : f \in Within(names[j])})]

InOrder(Take(_, _, _), names, m) ==
    LET next(q, i) == Take(names, q, FieldOrder[i])
    IN  next(next(next(next(next(next(m, 1), 2), 3), 4), 5), 6)

\* Names as they are, then parts of names.
Found(names) == InOrder(ByPart, names, InOrder(ByName, names, [f \in Fields |-> None]))

\* Lines that say an order is off in column j.
Hits(t, j) == Cardinality({i \in DOMAIN t.rows : LooksCancelled(t.rows[i].cells[j])})

\* Without a column for the state of an order, the one that says most often
\* that an order is off, if at least every fiftieth line does.
DetectMapping(t) ==
    LET found == Found(t.names)
        most == {j \in DOMAIN t.names : /\ Hits(t, j) >= 1 /\ 50 * Hits(t, j) >= Len(t.rows)
                                        /\ \A k \in DOMAIN t.names : Hits(t, k) <= Hits(t, j)}
    IN  IF found["status"] # None THEN found
        ELSE [found EXCEPT !["status"] = NamedFirst(t.names, most)]

MappingOf(t) == IF columns # None THEN columns ELSE DetectMapping(t)

----------------------------------------------------------------------------
(* The orders in a table *)

\* A column is found by its name; past the last: there is none.
ColumnOf(names, name) == Least({Len(names) + 1} \cup {j \in DOMAIN names : names[j] = name})

CellOf(names, name, row) ==
    IF ColumnOf(names, name) \in DOMAIN row.cells THEN row.cells[ColumnOf(names, name)] ELSE None

DraftFrom(names, m, row, y) ==
    LET cell(f) == CellOf(names, m[f], row)
    IN  [ line          |-> row.line,
          orderNumber   |-> IF LooksLikeDate(cell("orderNumber")) THEN None ELSE cell("orderNumber"),
          customerName  |-> cell("customerName"),
          address       |-> cell("address"),
          scheduledDate |-> NormalizeDate(cell("scheduledDate"), y),
          notes         |-> cell("notes"),
          cancelled     |-> LooksCancelled(cell("status")),
          extras        |-> { row.cells[j] : j \in DOMAIN row.cells \ {ColumnOf(names, m[f]) : f \in Fields} } ]

\* A line without any of these is no order.
IsOrder(d) == {d.customerName, d.address, d.scheduledDate, d.orderNumber} # {None}

DraftsOf(t, m, y) == {d \in {DraftFrom(t.names, m, t.rows[i], y) : i \in DOMAIN t.rows} : IsOrder(d)}

SourceKey(d) ==
    IF d.orderNumber # None THEN <<"no", d.orderNumber>>
    ELSE <<"sig", d.address, d.scheduledDate, d.customerName>>

KeysOf(t, m, y) ==
    LET ds == {d \in DraftsOf(t, m, y) : ~d.cancelled}
    IN  [l \in {d.line : d \in ds} |-> SourceKey(CHOOSE d \in ds : d.line = l)]

KeysRead(g) == KeysOf(Table(g), MappingOf(Table(g)), year)
TellingRead(g) == ColumnOf(Table(g).names, MappingOf(Table(g))["status"])

----------------------------------------------------------------------------
(* People work on the sheet, the server reads it *)

\* The names stand out: among the first 30 lines, with three labels or more,
\* as many as any line and more than those above, and with three cells or more
\* in the line under them.
StandsOut(g) ==
    LET rows == FilledLines(g)
    IN  \E at \in DOMAIN rows :
          /\ rows[at].line = "names" /\ at < Len(rows) /\ at <= 30
          /\ LabelsIn(rows[at].cells) >= 3 /\ Below(rows, at) >= 3
          /\ \A i \in DOMAIN rows : /\ LabelsIn(rows[i].cells) <= LabelsIn(rows[at].cells)
                                    /\ i < at => LabelsIn(rows[i].cells) < LabelsIn(rows[at].cells)

SheetInit ==
    /\ grid \in FirstSheets /\ columns = None
    /\ year \in Years /\ readIn = year
    /\ keys = KeysRead(grid) /\ telling = TellingRead(grid)
    /\ written = {} /\ clear = StandsOut(grid)

ReadSheet ==
    /\ keys' = KeysRead(grid) /\ telling' = TellingRead(grid)
    /\ written' = {} /\ clear' = StandsOut(grid) /\ readIn' = year
    /\ UNCHANGED <<grid, columns, year, spent>>

\* The office keeps the columns as it sees them in a preview of the sheet;
\* columns without an address are not used.
SaveColumns ==
    /\ columns = None /\ Spend("columns")
    /\ LET m == DetectMapping(Table(grid))
       IN  columns' = IF m["address"] = None THEN None ELSE m
    /\ clear' = (clear /\ StandsOut(grid))
    /\ UNCHANGED <<grid, keys, telling, written, year, readIn>>

Inserted(s, i, x) == [k \in 1 .. Len(s) + 1 |-> IF k < i THEN s[k] ELSE IF k = i THEN x ELSE s[k - 1]]

InsertLine(l, i, cells) ==
    /\ l \notin LinesOf(grid) /\ Len(cells) <= Width(grid) /\ Spend("sheet")
    /\ grid' = Inserted(grid, i, Line(l, cells \o [j \in 1 .. Width(grid) - Len(cells) |-> None]))
    /\ UNCHANGED <<columns, keys, telling, written, clear, year, readIn>>

InsertColumn(j, word) ==
    /\ Spend("sheet")
    /\ grid' = [i \in DOMAIN grid |->
                  [grid[i] EXCEPT !.cells = Inserted(@, j, IF grid[i].line = "names" THEN word ELSE None)]]
    /\ telling' = IF telling < j THEN telling ELSE telling + 1
    /\ clear' = (clear /\ (word = None \/ PartOf[word] = {}))
    /\ UNCHANGED <<columns, keys, written, year, readIn>>

WriteCell(i, j, word) ==
    /\ grid[i].cells[j] # word /\ Spend("cell")
    /\ word \in IF grid[i].line = "names" THEN NewNames ELSE NewWords
    /\ grid' = [grid EXCEPT ![i].cells[j] = word]
    /\ written' = written \cup {grid[i].line}
    /\ clear' = (clear /\ grid[i].line # "names")
    /\ UNCHANGED <<columns, keys, telling, year, readIn>>

NewYear ==
    /\ year + 1 \in Years /\ Spend("year")
    /\ year' = year + 1
    /\ UNCHANGED <<grid, columns, keys, telling, written, clear, readIn>>

SheetNext ==
    \/ ReadSheet \/ SaveColumns \/ NewYear
    \/ \E j \in 1 .. Width(grid) + 1, word \in NewNames : InsertColumn(j, word)
    \/ \E i \in DOMAIN grid, j \in 1 .. Width(grid), word \in NewNames \cup NewWords : WriteCell(i, j, word)
    \/ \E l \in SheetLines, i \in 1 .. Len(grid) + 1, cells \in NewLines : InsertLine(l, i, cells)

----------------------------------------------------------------------------
(* Properties *)

\* Lines without an order number whose date says no year, and so is another
\* date than it was at the last reading.
Redated ==
    LET t == Table(grid)
        date(row) == CellOf(t.names, MappingOf(t)["scheduledDate"], row)
    IN  {l \in DOMAIN keys :
           /\ keys[l][1] = "sig"
           /\ \E i \in DOMAIN t.rows :
                /\ t.rows[i].line = l
                /\ NormalizeDate(date(t.rows[i]), readIn) # NormalizeDate(date(t.rows[i]), year)}

\* Whatever lines and columns people put between those of an order and the
\* names of the columns, the order that nobody wrote on is read again under
\* the key it had, and so is not deleted.  The names have to stand out, new
\* columns may not be called like one of them, and the column that tells which
\* orders are off has to stay the same.  An order known by a date without a
\* year does not survive New Year: the same line is then another order.
RowsKeepTheirOrders ==
    [][ keys' # keys /\ clear /\ clear' /\ telling' = telling =>
          \A l \in DOMAIN keys \ (written \cup Redated) :
            l \in DOMAIN keys' /\ keys'[l] = keys[l] ]_sheetVars

\* Nothing of an order is dropped: every cell of its line is a field of the
\* draft or kept beside it, except a date that stands where the order number
\* should, what does not read as a date where the date should, and the word
\* that tells the state of the order.
NothingIsLost ==
    LET t == Table(grid)
        m == MappingOf(t)
    IN  \A d \in DraftsOf(t, m, year), i \in DOMAIN t.rows : t.rows[i].line = d.line =>
          \A j \in DOMAIN t.rows[i].cells :
            \/ t.rows[i].cells[j] \in {None, d.orderNumber, d.customerName, d.address, d.notes} \cup d.extras
            \/ \E f \in {"orderNumber", "scheduledDate", "status"} : t.names[j] = m[f]

\* Every column can be told from the others by its name, unless the sheet
\* itself has a name of the kind that the reader makes up.
NamesDiffer ==
    LET names == Table(grid).names
    IN  \A i, j \in DOMAIN names : i # j /\ names[i] = names[j] =>
          \E k \in DOMAIN grid : \E c \in DOMAIN grid[k].cells :
            grid[k].cells[c] # None /\ Len(NameIn[grid[k].cells[c]]) > 1
=============================================================================
