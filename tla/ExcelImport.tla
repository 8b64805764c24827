---------------------------- MODULE ExcelImport ----------------------------
(***************************************************************************)
(* What a sheet of master data says: its rows become members with metering *)
(* points, or messages of the import's report.                             *)
(*                                                                         *)
(* A row is [community, name, direction, status, point]: whether its       *)
(* community id is that of the community that imports, the name in it, if  *)
(* one can be read, whether its direction is known, the status of its      *)
(* metering point, and its number, which may be blank or of a wrong        *)
(* length.  A message is about a row, about all rows of another community, *)
(* or about a member.                                                      *)
(*                                                                         *)
(* Left out: the columns that are only copied, and warnings about them.    *)
(***************************************************************************)
EXTENDS Naturals, Sequences, SequencesExt

CONSTANTS NoName,         \* no name, or one that cannot be split in two
          Blank, BadNumber \* no number, or one of a wrong length

Numbered(r) == r.point \notin {Blank, BadNumber}

\* A row is data when it has a number or a name.
IsImportDataRow(r) == r.point # Blank \/ r.name # NoName

\* Checked one after the other: the first that fails refuses the row.
Refused(r) == \/ ~r.community
              \/ r.name = NoName
              \/ ~r.direction
              \/ r.status \notin {"ACTIVE", "NEW"}

DataRows(sheet) == {i \in DOMAIN sheet : IsImportDataRow(sheet[i])}
Accepted(sheet) == {i \in DataRows(sheet) : ~Refused(sheet[i])}

\* Rows with the same name are one member, whose status is that of the first.
RowsOf(sheet, i) == {j \in Accepted(sheet) : sheet[j].name = sheet[i].name}
First(sheet, i) == \A j \in RowsOf(sheet, i) : i <= j

\* The member that row i is the first of, with the rows that bring his
\* metering points.
Person(sheet, i) ==
  [name |-> sheet[i].name, status |-> sheet[i].status,
   points |-> {j \in RowsOf(sheet, i) : Numbered(sheet[j])}]

\* The members of a sheet, by their first rows; they are saved in that order.
Transform(sheet) == {i \in Accepted(sheet) : First(sheet, i)}

\* The messages about rows: refused ones, those of another community by one
\* message for all, and numbers of a wrong length.
Messages(sheet) == {i \in DataRows(sheet) : Refused(sheet[i]) \/ ~Numbered(sheet[i])}
=============================================================================
