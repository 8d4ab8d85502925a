------------------------------- MODULE GYTable -------------------------------
(***************************************************************************)
(* Tables (Table/GYTable.h, GYTableSerialization.cpp): a text file of      *)
(* lines of separated fields is read into an array of rows, which are then *)
(* looked up by their first column.                                        *)
(*                                                                         *)
(* A file is [lines, newline]: a line is [comment, fields], whether it     *)
(* begins with the comment sign and what it holds; newline tells whether   *)
(* the last line is ended.  A field is [length, value]: its characters     *)
(* counted, and the number atoi reads in them.  The types of the columns   *)
(* (CHECK_DATA_TYPE) are left out, and so are the 2 MB a file may have.    *)
(***************************************************************************)
EXTENDS Integers, Sequences, FiniteSets, SequencesExt

CONSTANTS
    TableFiles,   \* the files that may be loaded
    Columns,      \* how many columns the Serializ of a row reads
    TableIDs      \* the numbers looked up

VARIABLES
    file,      \* the file the table is loaded from
    m_tableRow, m_tableRowCount,
    lookup     \* where Load and operator[] stand, and what they answered

vars == <<file, m_tableRow, m_tableRowCount, lookup>>

NoRow == <<>>

-----------------------------------------------------------------------------
(* GYTableSerialization.                                                   *)

\* The lines GetLine counts as rows: it skips the comments, and the first line
\* is never taken for one.
Counted == {j \in DOMAIN file.lines : j = 1 \/ ~file.lines[j].comment}

RowCount == Cardinality(Counted)

\* The data starts at the third row; from there on fields are read one after
\* the other, through the ends of lines and through comments.
FirstData == CHOOSE j \in Counted : Cardinality({i \in Counted : i < j}) = 2

Fields == FlattenSeq([i \in 1..(Len(file.lines) - FirstData + 1) |->
                        file.lines[FirstData + i - 1].fields])

\* A field is read with its separator; at the end of a file with no newline
\* there is none, the field counts one less and its text is dropped.
AtEnd(i) == i = Len(Fields) /\ ~file.newline
ReadCount(i) == Fields[i].length + IF AtEnd(i) THEN 0 ELSE 1
Value(i) == IF AtEnd(i) THEN 0 ELSE Fields[i].value

\* Serializ of the r-th row.
Row(r) == [c \in 1..Columns |-> Value((r - 1) * Columns + c)]

\* What the readers assert: a field is there, and has text or at least an end.
Readable(fields) == fields <= Len(Fields) /\ \A i \in 1..fields : ReadCount(i) > 1

Load ==
    LET rows == RowCount - 2
    IN  /\ lookup.pc = "new"
        /\ \/ /\ rows <= 0
              /\ lookup' = [lookup EXCEPT !.pc = "failed"]
              /\ UNCHANGED <<m_tableRow, m_tableRowCount>>
           \/ /\ rows > 0
              /\ ~Readable(rows * Columns)
              /\ lookup' = [lookup EXCEPT !.pc = "aborted"]
              /\ UNCHANGED <<m_tableRow, m_tableRowCount>>
           \/ /\ rows > 0
              /\ Readable(rows * Columns)
              /\ lookup' = [lookup EXCEPT !.pc = "loaded"]
              /\ m_tableRow' = [r \in 1..rows |-> Row(r)]
              /\ m_tableRowCount' = rows
        /\ UNCHANGED file

-----------------------------------------------------------------------------
(* operator[]: indices count from 0, as in the code.                       *)

ID(index) == m_tableRow[index + 1][1]

Lookup(tableID) ==
    /\ lookup.pc \in {"loaded", "answered"}
    /\ lookup' = [pc |-> "search", id |-> tableID, answer |-> NoRow, beginIndex |-> 0,
                  endIndex |-> m_tableRowCount, index |-> m_tableRowCount \div 2]
    /\ UNCHANGED <<file, m_tableRow, m_tableRowCount>>

\* One round of the bisection (:98-114).
Bisect ==
    LET b == IF ID(lookup.index) < lookup.id THEN lookup.index + 1 ELSE lookup.beginIndex
        e == IF ID(lookup.index) > lookup.id THEN lookup.index - 1 ELSE lookup.endIndex
    IN  /\ lookup.pc = "search"
        /\ lookup.endIndex - lookup.beginIndex >= 8
        /\ IF ID(lookup.index) = lookup.id
           THEN lookup' = [lookup EXCEPT !.pc = "answered",
                                         !.answer = m_tableRow[lookup.index + 1]]
           ELSE lookup' = [lookup EXCEPT !.beginIndex = b, !.endIndex = e,
                                         !.index = (b + e) \div 2]
        /\ UNCHANGED <<file, m_tableRow, m_tableRowCount>>

\* Mutant of ScanEnd: the row the last bisection left out is not scanned.
ScanEndShort == lookup.endIndex

\* The bisection takes endIndex down to one before the row it looked at, so
\* that the row at endIndex itself is still to be scanned.
ScanEnd == IF lookup.endIndex = m_tableRowCount THEN m_tableRowCount ELSE lookup.endIndex + 1

\* The rows left are scanned (:115-126).
Scan ==
    LET found == {i \in lookup.beginIndex..(ScanEnd - 1) : ID(i) = lookup.id}
    IN  /\ lookup.pc = "search"
        /\ lookup.endIndex - lookup.beginIndex < 8
        /\ lookup' = [lookup EXCEPT
               !.pc = "answered",
               !.answer = IF found = {} THEN NoRow
                          ELSE m_tableRow[1 + CHOOSE i \in found : \A j \in found : i <= j]]
        /\ UNCHANGED <<file, m_tableRow, m_tableRowCount>>

Init ==
    /\ file \in TableFiles
    /\ m_tableRow = <<>>
    /\ m_tableRowCount = 0
    /\ lookup = [pc |-> "new", id |-> 0, answer |-> NoRow, beginIndex |-> 0, endIndex |-> 0,
                 index |-> 0]

Next ==
    \/ Load
    \/ \E id \in TableIDs : Lookup(id)
    \/ Bisect
    \/ Scan

Spec == Init /\ [][Next]_vars

-----------------------------------------------------------------------------
(* Properties.                                                             *)

\* What a file says: the rows are its lines after the first two.
Written == [i \in 1..(Len(file.lines) - 2) |->
               [c \in DOMAIN file.lines[i + 2].fields |-> file.lines[i + 2].fields[c].value]]

\* As many filled columns as are read in every line, comments only in the
\* first line, an end to the last line, and ids that grow.
Regular ==
    /\ Len(file.lines) >= 3 /\ file.newline
    /\ \A i \in 3..Len(file.lines) :
          /\ ~file.lines[i].comment
          /\ Len(file.lines[i].fields) = Columns
          /\ \A c \in 1..Columns : file.lines[i].fields[c].length > 0
    /\ ~file.lines[2].comment
    /\ \A i, j \in DOMAIN Written : i < j => Written[i][1] < Written[j][1]

\* Of a regular file every line is found by its id and nothing else is, over
\* reading and bisection together.  Of any other file a table may be loaded
\* whose rows are shifted, or the program aborts.
TableAnswers ==
    Regular => /\ lookup.pc \notin {"failed", "aborted"}
               /\ lookup.pc = "answered" =>
                     LET told == {i \in DOMAIN Written : Written[i][1] = lookup.id}
                     IN  IF told = {} THEN lookup.answer = NoRow
                         ELSE \A i \in told : lookup.answer = Written[i]
=============================================================================
