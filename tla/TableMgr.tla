------------------------------- MODULE TableMgr -------------------------------
(* UAZTableMgr: the tables of RawContent/Csv.  The first line of a file names *)
(* its columns, a column whose name begins with ~ is left out, the second is  *)
(* read over, and every other line is a row under the number in its first     *)
(* column.  Empty cells are dropped where a line is split.                    *)
EXTENDS Naturals, SequencesExt, Selection

CONSTANTS Tables,      \* the tables, in the order of LoadAll
          Directory,   \* what the directory may hold: a file for each table
          NoFile, NoCell,
          Known,       \* the columns the class of a table has a member for
          Numeric,     \* those of them that are numbers
          Atoi,        \* the number a cell reads as
          Listed,      \* the tables LoadComplete makes a list of
          Hides(_, _)  \* the rows of them it leaves out: hair, potions without a buff

Cells == DOMAIN Atoi
\* In each file of RawContent/Csv the first line names every column once, and
\* does not leave them all out.
IsFile(file) ==
  /\ file.fields \in Seq(Range(file.fields)) /\ IsInjective(file.fields)
  /\ \E f \in Range(file.fields) : f \notin file.out
  /\ file.lines \in Seq(Seq(Cells))

ASSUME TablesAssumption ==
  /\ Tables \in Seq(Range(Tables))
  /\ \A directory \in Directory, table \in Range(Tables) :
       directory[table] = NoFile \/ IsFile(directory[table])

VARIABLES files,       \* the directory
          tables,      \* map_table_: for each loaded table its rows by number
          lists,       \* total_item_array_ and the like, empty before LoadComplete
          loaded,      \* how many tables LoadAll has tried
          broken       \* an index was out of the range of its array

tableVars == <<files, tables, lists, loaded, broken>>

TablesInit ==
  /\ files \in Directory
  /\ tables = <<>> /\ lists = <<>> /\ loaded = 0 /\ broken = FALSE

ParseIntoArray(line) == Selected(line, Cells \ {NoCell})

Fields(file) == Selected(file.fields, Range(file.fields) \ file.out)
ExceptIndex(file) ==
  Selected([i \in 1..Len(file.fields) |-> i],
           {i \in DOMAIN file.fields : file.fields[i] \in file.out})

\* The columns are removed from the left, and those behind move up.
\* Mutant: what has been removed is not allowed for.
KeptUncorrected(cols, except) ==
  FoldLeft(LAMBDA left, i : IF i <= Len(left) THEN RemoveAt(left, i) ELSE left, cols, except)
Keeping(cols, except) ==
  LET left[k \in 0..Len(except)] ==
        IF k = 0 THEN cols ELSE RemoveAt(left[k - 1], except[k] - (k - 1))
  IN  left
Kept(cols, except) == Keeping(cols, except)[Len(except)]

TMapAdd(key, value, map) ==
  [k \in DOMAIN map \cup {key} |-> IF k = key THEN value ELSE map[k]]

\* Load of a row's class: the columns it knows by name, numbers converted
LoadRow(known, col_values) ==
  [f \in known \cap DOMAIN col_values |->
     IF f \in Numeric THEN Atoi[col_values[f]] ELSE col_values[f]]

\* One row on top of those there are.  A row with too few cells runs out of them;
\* a number that is there already ends the loading.
WithRow(so, table, line, file) ==
  LET cols == ParseIntoArray(line)
      left == Kept(cols, ExceptIndex(file))
      fields == Fields(file)
      col_values == [f \in Range(fields) |-> left[CHOOSE i \in DOMAIN fields : fields[i] = f]]
      key == Atoi[left[1]]
  IN  CASE so.end # "none" -> so
        [] so.end = "none" /\ Len(cols) < Len(file.fields) -> [so EXCEPT !.end = "range"]
        [] OTHER -> IF key \in DOMAIN so.rows THEN [so EXCEPT !.end = "double"]
                    ELSE [so EXCEPT !.rows = TMapAdd(key, LoadRow(Known[table], col_values), @)]

Loading(table, file) ==
  LET so[n \in 0..Len(file.lines)] ==
        IF n = 0 THEN [end |-> "none", rows |-> <<>>]
        ELSE WithRow(so[n - 1], table, file.lines[n], file)
  IN  so
LoadTable(table, file) ==
  IF file = NoFile THEN [end |-> "missing", rows |-> <<>>]
  ELSE Loading(table, file)[Len(file.lines)]

\* LoadAll goes on with the next table when one is not loaded.
LoadAll ==
  /\ ~broken /\ loaded < Len(Tables)
  /\ LET table == Tables[loaded + 1]
         result == LoadTable(table, files[table])
     IN  /\ broken' = (result.end = "range")
         /\ tables' = IF result.end = "none" THEN TMapAdd(table, result.rows, tables) ELSE tables
  /\ loaded' = loaded + 1
  /\ UNCHANGED <<files, lists>>

\* GetData with the lists' condition: nothing of a table that was not loaded
GetData(table) ==
  IF table \notin DOMAIN tables THEN {}
  ELSE {key \in DOMAIN tables[table] : ~Hides(table, tables[table][key])}

\* LoadTotalItemTable and the three like it
LoadComplete ==
  /\ ~broken /\ loaded = Len(Tables) /\ lists = <<>>
  /\ lists' = [t \in Listed |-> GetData(t)]
  /\ UNCHANGED <<files, tables, loaded, broken>>

TablesNext == LoadAll \/ LoadComplete

TablesSpec == TablesInit /\ [][TablesNext]_tableVars

----------------------------------------------------------------------------
(* A table that was loaded holds every line of its file that has no empty    *)
(* cell, under its own number, and in each member the cell at the place that *)
(* the first line gives the member's name, whichever columns are left out    *)
(* (AZTableMgr.h:60-104; the places move with every column that is removed). *)
RowsKeepTheirColumns ==
  \A table \in DOMAIN tables :
    LET file == files[table]
        At(f) == CHOOSE j \in DOMAIN file.fields : file.fields[j] = f
    IN  \A line \in {l \in Range(file.lines) : NoCell \notin Range(l)} :
          LET key == Atoi[line[At(Fields(file)[1])]]
          IN  /\ key \in DOMAIN tables[table]
              /\ \A f \in Range(Fields(file)) \cap Known[table] :
                   tables[table][key][f] = IF f \in Numeric THEN Atoi[line[At(f)]] ELSE line[At(f)]
=============================================================================
