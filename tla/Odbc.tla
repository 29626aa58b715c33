-------------------------------- MODULE Odbc --------------------------------
(* Odbc: prepared statements over one connection, every parameter of which   *)
(* points at the same length indicator m_cbColumn.  The operations are       *)
(* functions of the record db; those that return something return            *)
(* [ok |-> the BOOLEAN, db |-> the record after], and the two that clients   *)
(* reach the set of what they may return: a text that leaves no room for its *)
(* terminator in TCHAR[20] runs into what lies behind.  The driver, the server *)
(* and the stored procedures are outside of the repository: db.driver says   *)
(* what SQLExecute and SQLFetch come to while it lasts.                      *)
EXTENDS FiniteSets

CONSTANTS Texts,        \* the identifications and passwords that are typed
          First,        \* the first character of each, a text
          Fits,         \* the texts of fewer than 20 characters; a packet holds up to 32
          Found,        \* what the driver may find in a parameter of 20 for each text
          Rows,         \* bound: the pairs of them that are typed
          MayFail       \* bound: the statements whose preparation may fail

ASSUME OdbcAssumption ==
  /\ First \in [Texts -> Texts] /\ \A t \in Texts : First[First[t]] = First[t]
  /\ Fits \subseteq Texts /\ Found \in [Texts -> SUBSET Texts]
  /\ \A t \in Fits : Found[t] = {t}
  /\ Rows \subseteq [id : Texts, pw : Texts]

Statements == {"selectAll", "read", "signup", "update", "delete", "loginCheck"}
Drivers == {"up", "info", "breaks", "down"}     \* "breaks": SQLFetch fails

DbInit == [driver |-> "up", prepared |-> {}, open |-> {}, nts |-> FALSE, rows |-> {}, list |-> {}]

Outcome(ok, db) == [ok |-> ok, db |-> db]
CloseCursor(db, stmt) == [db EXCEPT !.open = @ \ {stmt}]

\* SQLExecute: "error" for a statement that is not prepared or has an open cursor
Execute(db, stmt) ==
  IF stmt \notin db.prepared \/ stmt \in db.open \/ db.driver = "down" THEN "error"
  ELSE IF db.driver = "info" THEN "info" ELSE "success"
\* with any other indicator than SQL_NTS the two bytes it counts are bound
Bound(db, t) == IF db.nts THEN t ELSE First[t]

\* a statement that fails is left unprepared and the next one is tried
CreatePrepare(db, failing) == [db EXCEPT !.prepared = Statements \ failing, !.nts = TRUE]
\* Init and ConnetMssql
ConnetMssql(db, failing) == IF db.driver = "down" THEN db ELSE CreatePrepare(db, failing)

\* the whole table, for nobody; a warning leaves the cursor open
Load(db) ==
  LET hr == Execute(db, "selectAll")
  IN  CASE hr = "success" -> [db EXCEPT !.list = db.rows]
        [] hr = "info" -> [db EXCEPT !.list = {}, !.open = @ \cup {"selectAll"}]
        [] OTHER -> [db EXCEPT !.list = {}]

\* Behind a text that does not fit there is the next parameter, or whatever else.
\* The driver may take what it finds, shorten it with a warning or refuse it.
FitsBoth(row) == row.id \in Fits /\ row.pw \in Fits
BoundRows(db, row) ==
  {[id |-> Bound(db, id), pw |-> Bound(db, pw)] : id \in Found[row.id], pw \in Found[row.pw]}
ExecuteWith(db, stmt, row) ==
  IF FitsBoth(row) \/ Execute(db, stmt) = "error" THEN {Execute(db, stmt)}
  ELSE {Execute(db, stmt), "info", "error"}

\* an id that is too long runs into the password's parameter, which is cleared
\* and written next; a password runs on into the handle of the update statement
Overrun(db, row) ==
  {db} \cup IF row.pw \in Fits THEN {} ELSE {[db EXCEPT !.prepared = @ \ {"update"}]}

\* an insert has no cursor; with a warning the row is there all the same
Inserted(hr, row, after) ==
  Outcome(hr = "success", IF hr = "error" THEN after ELSE [after EXCEPT !.rows = @ \cup {row}])
AddSQL(db, row) ==
  {Inserted(hr, bound, after) :
     hr \in ExecuteWith(db, "signup", row), bound \in BoundRows(db, row), after \in Overrun(db, row)}

\* whatever SQLFetch returns counts as a row, unless it is SQL_NO_DATA
Fetched(db, hr, row) == hr = "success" /\ (row \in db.rows \/ db.driver = "breaks")

\* Mutant: the cursor is closed where nothing was found only.
LoginCheckLeavesCursor(db, row) ==
  {LET ok == Fetched(db, hr, bound)
   IN  Outcome(ok, IF ok THEN [db EXCEPT !.open = @ \cup {"loginCheck"}]
                         ELSE CloseCursor(db, "loginCheck")) :
     hr \in ExecuteWith(db, "loginCheck", row), bound \in BoundRows(db, row)}
\* of a shorter text, too, 20 characters are copied, and those behind its end ignored
LoginCheckSQL(db, row) ==
  {Outcome(Fetched(db, hr, bound), CloseCursor(db, "loginCheck")) :
     hr \in ExecuteWith(db, "loginCheck", row), bound \in BoundRows(db, row)}

\* UpdateSQL and ReadRecord ask for texts of fewer than 10 characters.
\* TRUE in any case; the output parameter may leave its length in the indicator
UpdateSQL(db, row, name, written) ==
  LET hr == Execute(db, "update")
      new == {IF r.id = name THEN row ELSE r : r \in db.rows}
  IN  Outcome(TRUE, [CloseCursor(db, "update") EXCEPT
                       !.rows = IF hr = "error" THEN @ ELSE new,
                       !.nts = hr = "error" \/ ~written])

ReadRecord(db, name, written) ==
  LET hr == Execute(db, "read")
      found == \E r \in db.rows : r.id = name
  IN  Outcome(hr # "error" /\ (found \/ db.driver = "breaks"),
              [CloseCursor(db, "read") EXCEPT !.nts = hr = "error" \/ ~written])

\* a delete that finds nothing ends with SQL_NO_DATA; one that succeeds has no
\* cursor, so that SQLFetch fails
DeleteSQL(db, name) ==
  LET hr == Execute(db, "delete")
      gone == {r \in db.rows : r.id = Bound(db, name)}
  IN  Outcome(hr = "success" /\ gone # {},
              [CloseCursor(db, "delete") EXCEPT !.rows = IF hr = "error" THEN @ ELSE @ \ gone])
=============================================================================
