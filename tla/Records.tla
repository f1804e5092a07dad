------------------------------ MODULE Records ------------------------------
(***************************************************************************)
(* The dump of structured data to lines of cells (convert/records.rs).     *)
(*                                                                         *)
(* A file is its head and then its tables, each with the rows under it: a  *)
(* parquet or avro file has one table, a database any number.  A cell is a *)
(* sequence of characters of width one, "invalid" being a byte that is not *)
(* text.  The decoders are external: a row they cannot read is not whole.  *)
(***************************************************************************)
EXTENDS Segments, Integers, SequencesExt

CONSTANTS MaxRecords, MaxTables, MaxOutput   \* the ceilings

ASSUME RecordsAssumption == {MaxRecords, MaxTables, MaxOutput} \subseteq Nat

Letter == [tab |-> "t", lf |-> "n", cr |-> "r"]

\* Faulty variant: a carriage return stays as it is.
EscapeCellButReturn(raw) ==
  FoldLeft(LAMBDA out, c : out \o IF c \in {"tab", "lf"} THEN <<"backslash", Letter[c]>> ELSE <<c>>, <<>>, raw)

\* Structure characters become two inert ones.
EscapeCell(raw) ==
  FoldLeft(LAMBDA out, c : out \o IF c \in DOMAIN Letter THEN <<"backslash", Letter[c]>> ELSE <<c>>, <<>>, raw)

Sink == [error |-> "none", text |-> <<>>, count |-> 0, segs |-> <<>>, warnings |-> <<>>]

RecordsError(s, code) == [s EXCEPT !.error = code]

\* A row is charged before any of it is written.
AddRow(s, cells) ==
  LET joined == FoldLeft(LAMBDA out, cell : out \o <<"tab">> \o EscapeCell(cell), <<>>, cells)
      line == Append(Tail(joined), "lf")
  IN  IF Len(s.text) + Len(line) > MaxOutput THEN RecordsError(s, "record-limit-exceeded")
      ELSE [s EXCEPT !.text = @ \o line]

AddRecord(s, row, damage) ==
  CASE s.error # "none" -> s
    [] ~row.whole -> RecordsError(s, damage)
    [] s.count = MaxRecords -> RecordsError(s, "record-limit-exceeded")
    [] OTHER -> AddRow([s EXCEPT !.count = @ + 1], row.cells)

\* A parquet or avro file.
ConvertTable(file) ==
  IF ~file[1].whole THEN RecordsError(Sink, "malformed")
  ELSE LET read == FoldLeft(LAMBDA s, row : AddRecord(s, row, "malformed"),
                               AddRow(Sink, file[2].cells), SubSeq(file, 3, Len(file)))
       IN  [read EXCEPT !.segs = <<Span(0, Len(read.text), "document")>>]

-----------------------------------------------------------------------------
(* Databases: the tables in the order of their names *)

TableNames(file) ==
  SortSeq(SelectSeq([i \in DOMAIN file |-> i], LAMBDA i : file[i].e = "table"),
          LAMBDA i, j : file[i].name < file[j].name)

RowsOf(file, t) ==
  SelectSeq([i \in DOMAIN file |-> i],
            LAMBDA i : file[i].e = "row" /\ t < i /\ \A j \in t + 1..i : file[j].e = "row")

\* Text that is not valid is replaced, which the table's warning says.
Lossy(cells) == \E k \in DOMAIN cells : "invalid" \in ToSet(cells[k])
SqliteCells(cells) ==
  [k \in DOMAIN cells |-> [p \in DOMAIN cells[k] |->
    IF cells[k][p] = "invalid" THEN "replacement" ELSE cells[k][p]]]

\* The blank line between two tables is not charged; the header after it is.
RenderTable(file, s, t) ==
  LET parted == IF s.text = <<>> THEN s ELSE [s EXCEPT !.text = Append(@, "lf")]
      start == Len(parted.text)
      rows == RowsOf(file, t)
      read == FoldLeft(LAMBDA x, i : AddRecord(x, [file[i] EXCEPT !.cells = SqliteCells(@)],
                                                   "records_read_error"),
                       AddRow([parted EXCEPT !.count = 0], file[t].cells), rows)
  IN  CASE s.error # "none" -> s
        [] read.error # "none" -> read
        [] OTHER -> [read EXCEPT
             !.warnings = IF \E k \in DOMAIN rows : Lossy(file[rows[k]].cells)
                          THEN Append(@, file[t].name) ELSE @,
             !.segs = @ \o <<Boundary("sheet", start), Span(start, Len(read.text), "sheet")>>]

ConvertSqlite(file) ==
  LET tables == TableNames(file)
      read == FoldLeft(LAMBDA s, t : RenderTable(file, s, t), Sink, tables)
  IN  CASE ~file[1].whole -> RecordsError(Sink, "not_sqlite")
        [] Len(tables) > MaxTables -> RecordsError(Sink, "record-limit-exceeded")
        [] OTHER -> [read EXCEPT !.segs = Ordered(@)]

ConvertRecords(format, file) ==
  LET out(read) == CASE read.error # "none" -> RecordsError(Sink, read.error)
                     [] read.error = "none" /\ read.text = <<>> -> RecordsError(Sink, "empty_output")
                     [] OTHER -> read
  IN  out(IF format = "sqlite" THEN ConvertSqlite(file) ELSE ConvertTable(file))

-----------------------------------------------------------------------------
(* What a reader of the dump finds *)

\* The text split at its line feeds and tabs, with the escapes undone.
Parsed(text) ==
  LET read(x, c) ==
        CASE x.escaped -> [x EXCEPT !.escaped = FALSE,
                             !.cell = Append(@, CHOOSE r \in DOMAIN Letter : Letter[r] = c)]
          [] c = "backslash" -> [x EXCEPT !.escaped = TRUE]
          [] c = "tab" -> [x EXCEPT !.row = Append(@, x.cell), !.cell = <<>>]
          [] c \in {"lf", "cr"} -> [x EXCEPT !.rows = Append(@, Append(x.row, x.cell)), !.row = <<>>, !.cell = <<>>]
          [] OTHER -> [x EXCEPT !.cell = Append(@, c)]
  IN  FoldLeft(read, [rows |-> <<>>, row |-> <<>>, cell |-> <<>>, escaped |-> FALSE], text).rows

\* The characters a row takes: an escaped one takes two.
Width(cells) ==
  FoldLeft(LAMBDA n, cell : n + 1 + FoldLeft(LAMBDA k, c : k + IF c \in DOMAIN Letter THEN 2 ELSE 1, 0, cell), 0, cells)

\* Either the dump has every table, row and cell in its place and nothing
\* else, or there is none, and then for a damage or a ceiling.
DumpIsWhole(file, tables, out) ==
  LET lines(t) == <<file[t].cells>> \o [k \in DOMAIN RowsOf(file, t) |-> SqliteCells(file[RowsOf(file, t)[k]].cells)]
      size == FoldLeft(LAMBDA n, t : n + 1 + FoldLeft(LAMBDA k, row : k + Width(row), 0, lines(t)), -1, tables)
      damaged == \E i \in DOMAIN file : file[i].e # "table" /\ ~file[i].whole
      over == \/ Len(tables) > MaxTables \/ size > MaxOutput
              \/ \E k \in DOMAIN tables : Len(RowsOf(file, tables[k])) > MaxRecords
      spans == SelectSeq(out.segs, LAMBDA s : s.kind = "span")
  IN  /\ (out.error # "none") = (damaged \/ over \/ tables = <<>>)
      /\ out.error # "none" => out.text = <<>>
      /\ out.error = "none" =>
           /\ Valid(out.segs, Len(out.text)) /\ Len(out.text) = size
           /\ Len(spans) = Len(tables)
           /\ \A k \in DOMAIN tables :
                /\ Parsed(SubSeq(out.text, spans[k].start + 1, spans[k].end)) = lines(tables[k])
                /\ (file[tables[k]].name \in ToSet(out.warnings))
                     = \E i \in ToSet(RowsOf(file, tables[k])) : Lossy(file[i].cells)

RowsAreWhole(format, file) == DumpIsWhole(file, TableNames(file), ConvertRecords(format, file))

=============================================================================
