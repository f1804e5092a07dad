------------------------------- MODULE Sheets -------------------------------
(***************************************************************************)
(* Row and column visibility of a workbook, read beside the grid parser,   *)
(* and the rendering that marks every hidden coordinate                    *)
(* (src/src/convert/visibility.rs, src/src/convert/workbook.rs).           *)
(*                                                                         *)
(* A file is the sequence of events its reader meets: the elements of an   *)
(* OpenDocument content part, the elements of the parts of an OOXML        *)
(* package, or the records of a BIFF stream, whose offsets count records.  *)
(* The grid is what the external parser makes of the same file: per sheet, *)
(* in file order, its name, whether it is visible, and the cells that      *)
(* carry content.                                                          *)
(***************************************************************************)
EXTENDS Integers, Sequences, FiniteSets, SequencesExt

CONSTANTS MaxSheetRows, MaxSheetColumns, MaxSheetCells

ASSUME SheetsAssumption == {MaxSheetRows, MaxSheetColumns, MaxSheetCells} \subseteq Nat \ {0}

LOCAL Seg == INSTANCE Segments

Range1(first, last) == [first |-> first, last |-> last]
Within(ranges, i) == \E k \in DOMAIN ranges : ranges[k].first <= i /\ i <= ranges[k].last

NoVisibility == [rows |-> <<>>, columns |-> <<>>]
RowHidden(vis, row) == Within(vis.rows, row)
ColumnHidden(vis, column) == Within(vis.columns, column)

\* A row or column is hidden by its flag or by an explicit zero size.
HiddenBy(x) == x.how \in {"flag", "zero"}

ExtentFits(rows, columns) == rows * columns <= MaxSheetCells

-----------------------------------------------------------------------------
(* OpenDocument: tables with their columns, rows and cells in order *)

OdsStart == [error |-> "none", depth |-> 0, name |-> "none", vis |-> NoVisibility,
             nextRow |-> 0, nextColumn |-> 0, contentRow |-> 0, contentColumn |-> 0,
             cursor |-> 0, sheets |-> <<>>]

OdsFail(s, code) == [s EXCEPT !.error = code]

\* Faulty variant: a repeated element advances the position by one.
AdvanceByOne(cursor, repeat, ceiling) == IF cursor + 1 > ceiling THEN -1 ELSE cursor + 1

\* The next position, or -1 past the ceiling.
Advance(cursor, repeat, ceiling) == IF cursor + repeat > ceiling THEN -1 ELSE cursor + repeat

OdsClose(s) ==
  IF ExtentFits(s.contentRow, s.contentColumn)
  THEN [OdsStart EXCEPT !.sheets = Append(s.sheets, [name |-> s.name, vis |-> s.vis])]
  ELSE OdsFail(s, "resource_limit")

\* Faulty variant: an inner table's rows count as the sheet's own.
OdsTableFlat(s, x) ==
  IF s.depth = 0 THEN [OdsStart EXCEPT !.sheets = s.sheets, !.name = x.name, !.depth = 1] ELSE s

\* Only top-level tables are sheets; a table inside a cell opens a level.
OdsTable(s, x) ==
  IF s.depth = 0 THEN [OdsStart EXCEPT !.sheets = s.sheets, !.name = x.name, !.depth = 1]
  ELSE [s EXCEPT !.depth = @ + 1]

OdsEndTable(s) == CASE s.depth = 0 -> s
                    [] s.depth = 1 -> OdsClose(s)
                    [] OTHER -> [s EXCEPT !.depth = @ - 1]

OdsColumn(s, x) ==
  LET next == Advance(s.nextColumn, x.repeat, MaxSheetColumns)
  IN  IF next = -1 THEN OdsFail(s, "resource_limit")
      ELSE [s EXCEPT !.nextColumn = next,
              !.vis.columns = IF HiddenBy(x) THEN Append(@, Range1(s.nextColumn, next - 1)) ELSE @]

OdsRow(s, x) ==
  LET next == Advance(s.nextRow, x.repeat, MaxSheetRows)
  IN  IF next = -1 THEN OdsFail(s, "resource_limit")
      ELSE [s EXCEPT !.nextRow = next, !.cursor = 0,
              !.vis.rows = IF HiddenBy(x) THEN Append(@, Range1(s.nextRow, next - 1)) ELSE @]

OdsCell(s, x) ==
  LET next == Advance(s.cursor, x.repeat, MaxSheetColumns)
  IN  IF next = -1 THEN OdsFail(s, "resource_limit")
      ELSE [s EXCEPT !.cursor = next,
              !.contentColumn = IF x.content /\ next > @ THEN next ELSE @,
              !.contentRow = IF x.content /\ s.nextRow > @ THEN s.nextRow ELSE @]

OdsStep(s, x) ==
  CASE s.error # "none" -> s
    [] x.e = "table" -> OdsTable(s, x)
    [] x.e = "end" -> OdsEndTable(s)
    [] s.depth # 1 -> s
    [] x.repeat = 0 -> OdsFail(s, "visibility_read_error")
    [] x.e = "column" -> OdsColumn(s, x)
    [] x.e = "row" -> OdsRow(s, x)
    [] x.e = "cell" -> OdsCell(s, x)

ReadOds(file) ==
  LET s == FoldLeft(OdsStep, OdsStart, file)
  IN  IF s.error = "none" /\ s.depth # 0 THEN OdsFail(s, "visibility_read_error") ELSE s

-----------------------------------------------------------------------------
(* OOXML: one worksheet part after the other, each resolved through the    *)
(* workbook's relationships; "part" begins the next one                    *)

OoxmlStart == [error |-> "none", row |-> 0, column |-> 0, sheets |-> <<>>]

OoxmlFail(s, code) == [s EXCEPT !.error = code]
OnSheet(s, what(_)) == [s EXCEPT !.sheets[Len(s.sheets)].vis = what(@)]

\* A sheet without a target, or with one outside the package, fails the
\* file; a chart or macro sheet stays unresolved.
OoxmlPart(s, x) ==
  CASE ~ExtentFits(s.row, s.column) -> OoxmlFail(s, "resource_limit")
    [] x.target = "none" -> OoxmlFail(s, "visibility_read_error")
    [] OTHER -> [s EXCEPT !.row = 0, !.column = 0,
         !.sheets = Append(@, [name |-> x.name, vis |-> NoVisibility,
                               resolved |-> x.target = "worksheet"])]

OoxmlCol(s, x) ==
  IF x.min = 0 \/ x.max < x.min \/ x.max > MaxSheetColumns
  THEN OoxmlFail(s, "visibility_read_error")
  ELSE LET hide(vis) == [vis EXCEPT !.columns =
                          IF HiddenBy(x) THEN Append(@, Range1(x.min - 1, x.max - 1)) ELSE @]
       IN  OnSheet(s, hide)

\* A row without an index takes part only if nothing hides it.
OoxmlRow(s, x) ==
  LET hide(vis) == [vis EXCEPT !.rows =
                     IF HiddenBy(x) THEN Append(@, Range1(x.r - 1, x.r - 1)) ELSE @]
  IN  CASE x.r = -1 -> IF HiddenBy(x) THEN OoxmlFail(s, "visibility_read_error") ELSE s
        [] x.r = 0 -> OoxmlFail(s, "visibility_read_error")
        [] x.r > MaxSheetRows -> OoxmlFail(s, "resource_limit")
        [] OTHER -> [OnSheet(s, hide) EXCEPT !.row = IF x.r > @ THEN x.r ELSE @]

\* The reference of a cell: 1-based, within the ceilings.
OoxmlCell(s, x) ==
  IF x.r = 0 \/ x.r > MaxSheetRows \/ x.c > MaxSheetColumns THEN OoxmlFail(s, "resource_limit")
  ELSE [s EXCEPT !.row = IF x.r > @ THEN x.r ELSE @, !.column = IF x.c > @ THEN x.c ELSE @]

OoxmlStep(s, x) ==
  CASE s.error # "none" -> s
    [] x.e = "part" -> OoxmlPart(s, x)
    [] x.e = "col" -> OoxmlCol(s, x)
    [] x.e = "row" -> OoxmlRow(s, x)
    [] x.e = "c" -> OoxmlCell(s, x)

ReadOoxml(file) ==
  LET s == FoldLeft(OoxmlStep, OoxmlStart, file)
      end == IF s.error = "none" /\ ~ExtentFits(s.row, s.column)
             THEN OoxmlFail(s, "resource_limit") ELSE s
  IN  [end EXCEPT !.sheets = SelectSeq(@, LAMBDA sheet : sheet.resolved)]

-----------------------------------------------------------------------------
(* BIFF: a stream of records, the globals first *)

\* A walk reads records up to the substream's own EOF.  It yields where that
\* is, or 0 when the stream ends before it.
EofAfter(stream, from) ==
  LET eofs == {i \in from..Len(stream) : stream[i].e = "EOF"}
  IN  IF eofs = {} THEN 0 ELSE CHOOSE i \in eofs : \A j \in eofs : i <= j

\* The worksheets the globals name, which have to say where they start.
BoundSheets(stream, end) ==
  SelectSeq(SubSeq(stream, 1, end), LAMBDA r : r.e = "BOUNDSHEET" /\ r.kind = "worksheet")

BiffRanges(records, op) ==
  LET hits == SelectSeq(records, LAMBDA r : r.e = op /\ HiddenBy(r))
  IN  [i \in DOMAIN hits |-> Range1(hits[i].first, hits[i].last)]

BiffSheet(stream, b) ==
  LET end == EofAfter(stream, b.at)
      records == SubSeq(stream, b.at, end)
  IN  IF \/ stream[b.at].e # "BOF" \/ end = 0
         \/ \E r \in ToSet(records) : r.e = "COLINFO" /\ r.first > r.last
      THEN [end |-> 0, vis |-> NoVisibility]
      ELSE [end |-> end, vis |-> [rows |-> BiffRanges(records, "ROW"),
                                  columns |-> BiffRanges(records, "COLINFO")]]

BiffFail == [error |-> "visibility_read_error", sheets |-> <<>>]

\* Worksheets begin after the globals, and no record is left behind the
\* last substream.
ReadBiff(stream) ==
  LET globals == EofAfter(stream, 1)
      bound == BoundSheets(stream, globals)
      read == [i \in DOMAIN bound |-> BiffSheet(stream, bound[i])]
  IN  CASE \/ stream = <<>> \/ globals = 0 -> BiffFail
        [] stream[1].e # "BOF" \/ \E i \in 1..globals : stream[i].e = "FILEPASS" -> BiffFail
        [] \E i \in DOMAIN bound : bound[i].at <= globals \/ bound[i].at > Len(stream) -> BiffFail
        [] \E i \in DOMAIN bound : read[i].end = 0 -> BiffFail
        [] \A i \in DOMAIN bound : read[i].end # Len(stream) ->
             IF bound = <<>> /\ globals = Len(stream) THEN [error |-> "none", sheets |-> <<>>]
             ELSE BiffFail
        [] OTHER -> [error |-> "none", sheets |->
             [i \in DOMAIN bound |-> [name |-> bound[i].name, vis |-> read[i].vis]]]

ReadVisibility(format, file) ==
  CASE format = "ods" -> ReadOds(file)
    [] format = "xlsx" -> ReadOoxml(file)
    [] format = "xls" -> ReadBiff(file)

-----------------------------------------------------------------------------
(* Rendering *)

SheetVis(read, name) ==
  LET named == {i \in DOMAIN read.sheets : read.sheets[i].name = name}
  IN  IF named = {} THEN <<>> ELSE <<read.sheets[CHOOSE i \in named : \A j \in named : j <= i].vis>>

SetMin(S) == CHOOSE x \in S : \A y \in S : x <= y
SetMax(S) == CHOOSE x \in S : \A y \in S : x >= y

\* One row: its cells up to the last one with content, separated by tabs.
\* Hidden coordinates always get their record, of width zero when the cell
\* rendered nothing.
RenderRow(out, cells, row, firstColumn, vis) ==
  LET mine == {c[2] : c \in {d \in cells : d[1] = row}}
      columns == IF mine = {} THEN {} ELSE firstColumn..SetMax(mine)
      put(o, c) ==
        LET sep == IF c > firstColumn THEN Append(o.text, <<"tab">>) ELSE o.text
            end == IF c \in mine THEN Append(sep, <<"cell", row, c>>) ELSE sep
        IN  [text |-> end, segs |-> IF ColumnHidden(vis, c)
               THEN Append(o.segs, Seg!Hidden(Seg!Span(Len(sep), Len(end), "column"))) ELSE o.segs]
      line == FoldLeft(put, out, [i \in 1..Cardinality(columns) |-> firstColumn + i - 1])
  IN  [text |-> Append(line.text, <<"newline">>), segs |-> IF RowHidden(vis, row)
         THEN Append(line.segs, Seg!Hidden(Seg!Span(Len(out.text), Len(line.text), "row")))
         ELSE line.segs]

\* Faulty variant: rows and columns are looked up by their place in the range.
RenderSheetRelative(out, cells, vis) ==
  IF cells = {} THEN out
  ELSE LET top == SetMin({c[1] : c \in cells})
           left == SetMin({c[2] : c \in cells})
           moved(ranges, by) == [k \in DOMAIN ranges |-> Range1(ranges[k].first + by, ranges[k].last + by)]
           relative == [rows |-> moved(vis.rows, top), columns |-> moved(vis.columns, left)]
           put(o, row) == RenderRow(o, cells, row, left, relative)
       IN  FoldLeft(put, out, [i \in 1..SetMax({c[1] : c \in cells}) - top + 1 |-> top + i - 1])

\* The range of a sheet starts at its first used row and column.
RenderSheet(out, cells, vis) ==
  IF cells = {} THEN out
  ELSE LET top == SetMin({c[1] : c \in cells})
           left == SetMin({c[2] : c \in cells})
           put(o, row) == RenderRow(o, cells, row, left, vis)
       IN  FoldLeft(put, out, [i \in 1..SetMax({c[1] : c \in cells}) - top + 1 |-> top + i - 1])

Refused(code) == [error |-> code, text |-> <<>>, segs |-> <<>>]

\* The converter: visibility before anything is rendered, and no sheet
\* rendered that the visibility reader did not resolve.
ConvertWorkbook(format, file, grid) ==
  LET added(sheet, start, done) ==
        LET span == Seg!Span(start, Len(done.text), "sheet")
        IN  [error |-> "none", text |-> done.text, segs |-> done.segs \o
              <<Seg!Boundary("sheet", start), IF sheet.hidden THEN Seg!Hidden(span) ELSE span>>]
      render(sheet, o, vis) ==
        IF vis = <<>> THEN Refused("visibility_read_error")
        ELSE added(sheet, Len(o.text), RenderSheet([text |-> o.text, segs |-> o.segs], sheet.cells, vis[1]))
      put(read, o, sheet) ==
        IF o.error # "none" THEN o
        ELSE render(sheet, IF o.text = <<>> THEN o ELSE [o EXCEPT !.text = Append(@, <<"newline">>)],
                    SheetVis(read, sheet.name))
      close(out) == CASE out.error # "none" -> out
                      [] out.error = "none" /\ out.text = <<>> -> Refused("empty_output")
                      [] OTHER -> [out EXCEPT !.segs = Seg!Ordered(@)]
      convert(read) ==
        IF read.error # "none" THEN Refused(read.error)
        ELSE close(FoldLeft(LAMBDA o, sheet : put(read, o, sheet),
                            [error |-> "none", text |-> <<>>, segs |-> <<>>], grid))
  IN  convert(ReadVisibility(format, file))

-----------------------------------------------------------------------------
(* What the file says, for the checks: each format's grid and hidden       *)
(* coordinates, told without a cursor                                      *)

NoSheet == [name |-> "none", hidden |-> FALSE, cells |-> {}, hiddenRows |-> {}, hiddenColumns |-> {}]

\* How many tables are open before event i of an OpenDocument file.
DepthBefore(file, i) ==
  Cardinality({j \in 1..i - 1 : file[j].e = "table"}) - Cardinality({j \in 1..i - 1 : file[j].e = "end"})

\* The events of the sheet that begins at event t, those of inner tables left out.
OwnEvents(file, t, e) ==
  LET close == {j \in t + 1..Len(file) : file[j].e = "end" /\ DepthBefore(file, j) = 1}
  IN  {i \in t + 1..Len(file) : file[i].e = e /\ DepthBefore(file, i) = 1
                                /\ \A j \in close : i < j}

RECURSIVE SumRepeats(_, _)
SumRepeats(file, S) ==
  IF S = {} THEN 0 ELSE LET i == CHOOSE i \in S : TRUE IN file[i].repeat + SumRepeats(file, S \ {i})

\* The 0-based places event i of the given events stands for.
Places(file, S, i) ==
  LET first == SumRepeats(file, {j \in S : j < i}) IN first..first + file[i].repeat - 1

HiddenPlaces(file, S) == UNION {Places(file, S, i) : i \in {j \in S : HiddenBy(file[j])}}

\* The cells of a row are those between it and the next one.
OdsCells(file, rows, cells) ==
  UNION {LET own == {i \in cells : i > r /\ \A q \in rows : q > r => i < q}
         IN  Places(file, rows, r) \X
               UNION {Places(file, own, i) : i \in {j \in own : file[j].content}} : r \in rows}

OdsGrid(file) ==
  LET tables == SelectSeq([i \in DOMAIN file |-> i],
                          LAMBDA i : file[i].e = "table" /\ DepthBefore(file, i) = 0)
  IN  [k \in DOMAIN tables |->
         LET t == tables[k]
             rows == OwnEvents(file, t, "row")
             columns == OwnEvents(file, t, "column")
         IN  [name |-> file[t].name, hidden |-> file[t].hidden,
              cells |-> OdsCells(file, rows, OwnEvents(file, t, "cell")),
              hiddenRows |-> HiddenPlaces(file, rows),
              hiddenColumns |-> HiddenPlaces(file, columns)]]

\* A part's events are those up to the next part.  The grid parser knows
\* chart sheets as such; an "odd" one it takes for a worksheet.
OoxmlGrid(file) ==
  LET parts == SelectSeq([i \in DOMAIN file |-> i],
                         LAMBDA i : file[i].e = "part" /\ file[i].target # "chart")
      own(k, e) == {i \in DOMAIN file : file[i].e = e /\ i > parts[k] /\
                      ~\E j \in parts[k] + 1..i : file[j].e = "part"}
  IN  [k \in DOMAIN parts |->
         [name |-> file[parts[k]].name, hidden |-> file[parts[k]].hidden,
          cells |-> {<<file[i].r - 1, file[i].c - 1>> : i \in own(k, "c")},
          hiddenRows |-> {file[i].r - 1 : i \in {j \in own(k, "row") : HiddenBy(file[j])}},
          hiddenColumns |-> UNION {file[i].min - 1..file[i].max - 1 :
                                     i \in {j \in own(k, "col") : HiddenBy(file[j])}}]]

\* A substream is what lies between its BOF and the next EOF.
BiffGrid(stream) ==
  LET bound == SelectSeq(stream, LAMBDA r : r.e = "BOUNDSHEET" /\ r.kind = "worksheet")
      own(b, op) == {i \in b.at..Len(stream) : stream[i].e = op /\
                       ~\E j \in b.at..i : stream[j].e = "EOF"}
  IN  [k \in DOMAIN bound |->
         [name |-> bound[k].name, hidden |-> bound[k].hidden,
          cells |-> {<<stream[i].first, stream[i].last>> : i \in own(bound[k], "CELL")},
          hiddenRows |-> {stream[i].first : i \in {j \in own(bound[k], "ROW") : HiddenBy(stream[j])}},
          hiddenColumns |-> UNION {stream[i].first..stream[i].last :
                                     i \in {j \in own(bound[k], "COLINFO") : HiddenBy(stream[j])}}]]

GridOf(format, file) == CASE format = "ods" -> OdsGrid(file)
                          [] format = "xlsx" -> OoxmlGrid(file)
                          [] format = "xls" -> BiffGrid(file)

\* Hidden exactly where the file says so: in a converted workbook a cell is
\* under a hidden record if its row, its column or its sheet is hidden, and
\* under none otherwise; the records pass their own validation.
MarksAgree(grid, out) ==
  LET \* the sheet of a text position
      sheetAt(p) == Cardinality({i \in DOMAIN out.segs : out.segs[i].kind = "sheet" /\ out.segs[i].start < p})
      marked(p) == \E i \in DOMAIN out.segs : out.segs[i].hidden /\ out.segs[i].start < p /\ p <= out.segs[i].end
      concealed(sheet, cell) == sheet.hidden \/ cell[1] \in sheet.hiddenRows \/ cell[2] \in sheet.hiddenColumns
  IN  out.error = "none" =>
        /\ Seg!Valid(out.segs, Len(out.text))
        /\ \A p \in DOMAIN out.text : out.text[p][1] = "cell" =>
             (marked(p) <=> concealed(grid[sheetAt(p)], Tail(out.text[p])))

HiddenIsMarked(format, file) ==
  LET agree(grid) == MarksAgree(grid, ConvertWorkbook(format, file, grid))
  IN  agree(GridOf(format, file))

=============================================================================
