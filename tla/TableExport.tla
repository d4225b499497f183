---------------------------- MODULE TableExport ----------------------------
(***************************************************************************)
(* The export of a slice of structs: FromStructs makes a table of it, the  *)
(* Excel exporter lays the table out on a sheet, the PDF exporter on pages,*)
(* in one call (Generate) or through the helpers of a Document, which a    *)
(* service calls in any order.                                             *)
(*                                                                         *)
(* gofpdf keeps a cursor, a font, the images, a footer function and a      *)
(* trigger below which a cell goes to a new page; the table renderer also  *)
(* breaks the page itself, at a limit of its own.  What a call leaves in   *)
(* that state is what the next one starts from.                            *)
(*                                                                         *)
(* What is abstracted.  Heights are whole millimeters; a row has a height,  *)
(* and fits on a page below the headers it repeats; texts, colours and      *)
(* horizontal positions are left out, except the widths of the columns,     *)
(* whose weights are equal.  Titles and subtitles are not empty; the rule   *)
(* of Divider moves the cursor like a Spacer of 2, and TableAuto is Table   *)
(* with the default options.  A document is begun with a table that has     *)
(* columns.                                                                 *)
(***************************************************************************)
EXTENDS Naturals, SequencesExt

CONSTANTS
  FieldLists,     \* the struct types that are exported
  MaxRows,        \* bound on the rows of a slice
  PageHeight,
  BottomMargins,  \* the margins NewDocument is called with
  RowHeights,     \* the MinRowHeight of the options
  BrandHeaders,   \* the headers drawn: [left, right, logo, repeat, divider]
  Spaces,         \* the heights given to Spacer
  Available,      \* the width between the margins
  Widths,         \* the widths given to columns; 0 for none
  MaxCalls        \* bound on the calls that draw on one document

(* Where a logo comes from, and the image that is there.  The path and the  *)
(* address of the bytes are 0 when the header names none; a reader may have *)
(* either beside it, and is taken first, then the bytes, then the path.     *)
NoLogo == [kind |-> "none", image |-> 0, path |-> 0, address |-> 0]
NoBrand == [left |-> 0, right |-> 0, logo |-> NoLogo, repeat |-> FALSE, divider |-> FALSE]

Logos == {b.logo : b \in BrandHeaders} \cup {NoLogo}

marginTop == 12
marginBottom == 12

(* The height of a brand header: its lines, or its logo. *)
Block(b) ==
  LET lines == IF b.left > b.right THEN b.left ELSE b.right
  IN IF 5 * lines > 14 THEN 5 * lines ELSE 14

(* A page takes a brand header and the space below it, the header of a      *)
(* table and a row, between the margin at the top and the trigger.          *)
RowFits(b, h, margin) == marginTop + Block(b) + 4 + 9 + h <= PageHeight - (margin + 6)

ASSUME TableExportAssumption ==
  /\ \A s \in {RowHeights, Spaces, BottomMargins, Widths} : s \subseteq Nat
  /\ PageHeight \in Nat /\ Available \in Nat /\ MaxRows \in Nat /\ MaxCalls \in Nat
  /\ BrandHeaders \subseteq
       [left : Nat, right : Nat, logo : Logos, repeat : BOOLEAN, divider : BOOLEAN]
  /\ \A l \in Logos : /\ l \in [kind : {"none", "path", "bytes", "reader"},
                              image : Nat, path : Nat, address : Nat]
                      /\ l.kind = "path" => l.path # 0
                      /\ l.kind = "bytes" => l.address # 0
  /\ \A b \in BrandHeaders \cup {NoBrand}, h \in RowHeights :
       \A margin \in BottomMargins \cup {marginBottom} :
         h > 0 /\ margin + 6 <= PageHeight /\ RowFits(b, h, margin)

VARIABLES
  fields,   \* the fields of the struct, until a document is begun
  widths,   \* the widths asked for its columns, until a document is begun
  table,    \* FromStructs(items): its columns and the number of its rows
  sheet,    \* what the Excel exporter wrote
  tier,     \* "none", "excel", "generate" or "document"
  bottom,   \* the bottom margin of the document
  canvas,   \* pages, cursor, font and images of gofpdf
  footer,   \* total captured by the footer function; 0: none is registered
  drawing,  \* the table in progress
  calls,    \* the number of calls made so far
  state     \* "built", "open", "drawing", "done", "refused"

exportVars == <<fields, widths, table, sheet, tier, bottom, canvas, footer, drawing,
                calls, state>>

-----------------------------------------------------------------------------
(* From structs to a table. *)

(* The export tag wins over the json tag. *)
parseExportTag(f) ==
  IF f.export # "absent" THEN f.export
  ELSE IF f.json = "-" THEN "-" ELSE ""

Exported(fs) == SelectSeq(fs, LAMBDA f : f.public /\ parseExportTag(f) # "-")

Column(f) ==
  [key |-> f.name, align |-> IF f.numeric THEN "right" ELSE "left",
   header |-> IF parseExportTag(f) = "" THEN f.name ELSE parseExportTag(f)]

exportableFields(fs) ==
  LET kept == Exported(fs) IN [i \in DOMAIN kept |-> Column(kept[i])]

(* Mutant of columnsFor: the tag that skips a field is not looked at. *)
columnsForAll(fs) ==
  LET kept == SelectSeq(fs, LAMBDA f : f.public) IN [i \in DOMAIN kept |-> Column(kept[i])]

(* The same for the type alone, when the slice is empty. *)
columnsFor(fs) ==
  LET kept == Exported(fs) IN [i \in DOMAIN kept |-> Column(kept[i])]

FromStructs(fs, n) ==
  [columns |-> IF n = 0 THEN columnsFor(fs) ELSE exportableFields(fs), rows |-> n]

-----------------------------------------------------------------------------
(* The sheet: the rows written, in order, and what is set on it, under the  *)
(* default options.  A table that is too long for a sheet, and a cell the   *)
(* library refuses, are left out.                                           *)

headerRow(titled) == IF titled THEN 3 ELSE 1

(* In characters, the halves rounded up: the length of the header and a     *)
(* padding of 8.5 when no width is set, between 10 and 60.                  *)
estimateWidth(header) == Len(header) + 9

applyColumns(cols, ws) ==
  LET width(i) == IF ws[i] > 0 THEN ws[i] ELSE estimateWidth(cols[i].header)
  IN [i \in DOMAIN ws |-> IF width(i) < 10 THEN 10 ELSE IF width(i) > 60 THEN 60 ELSE width(i)]

SheetOf(t, ws, titled) ==
  LET h == headerRow(titled) IN
  [writes |-> (IF titled THEN <<1, 2>> ELSE <<>>) \o [r \in 1 .. t.rows + 1 |-> h + r - 1],
   widths |-> applyColumns(t.columns, ws), frozen |-> h, filter |-> h .. (h + t.rows)]

NoSheet == [writes |-> <<>>, widths |-> <<>>, frozen |-> 0, filter |-> {}]

-----------------------------------------------------------------------------
(* The pages. *)

Trigger == PageHeight - (bottom + 6)            \* gofpdf's automatic break
Limit == PageHeight - marginBottom - 8          \* the break of drawRows

(* What is drawn, in order, and the footer of every page.                   *)
EmptyCanvas ==
  [items |-> <<>>, footers |-> <<0>>, y |-> marginTop, bold |-> FALSE, images |-> {}]

Pages(c) == Len(c.footers)

(* What a table, a header or a text leaves on a page. *)
Item(what, call, row) == [what |-> what, call |-> call, row |-> row,
                          asked |-> NoLogo, shown |-> NoLogo]

(* Mutant of AddPages: the cursor is put at the edge of the page. *)
AddPagesEdge(c, n) ==
  [c EXCEPT !.footers = @ \o [i \in 1 .. n |-> 0], !.y = IF n = 0 THEN @ ELSE 0]

(* Ends n pages, each with the footer that is registered, and starts the    *)
(* next; the font stays.                                                    *)
AddPages(c, n) ==
  IF n = 0 THEN c ELSE
  [c EXCEPT
     !.footers = [p \in 1 .. Pages(c) + n |->
                    IF p < Pages(c) THEN @[p] ELSE IF p < Pages(c) + n THEN footer ELSE 0],
     !.y = marginTop]

AddPage(c) == AddPages(c, 1)

Place(c, item, top, height) ==
  [c EXCEPT !.items = Append(@, [item |-> item, page |-> Pages(c), top |-> top,
                                 height |-> height, bold |-> c.bold])]

(* A line of cells of height h: below the trigger it goes to a new page. *)
Draw(c, item, h) ==
  LET d == IF c.y + h > Trigger THEN AddPage(c) ELSE c IN
  [Place(d, item, d.y, h) EXCEPT !.y = d.y + h]

Bold(c, b) == [c EXCEPT !.bold = b]
Down(c, h) == [c EXCEPT !.y = @ + h]

Text(call) == Item("text", call, 0)

drawTitleBlock(c, call) ==
  Down(Draw(Bold(Draw(Bold(c, TRUE), Text(call), 10), FALSE), Text(call), 6), 2)

drawHeader(c, call) == Draw(Bold(c, TRUE), Item("header", call, 0), 9)

(* Mutant of logoKey: one key for every logo. *)
logoKeyOne(l) == <<"path", 0>>

(* A logo is known to gofpdf by its key: the path, whatever the image is    *)
(* taken from, or where the bytes lie, not what they are.                   *)
logoKey(l) == IF l.path # 0 THEN <<"path", l.path>> ELSE <<"address", l.address>>

Known(c, l) == l = NoLogo \/ \E m \in c.images : logoKey(m) = logoKey(l)

(* The first image registered under a key is the one that is drawn. *)
registerLogo(c, l) == IF Known(c, l) THEN c ELSE [c EXCEPT !.images = @ \cup {l}]

hasBrandHeader(b) == b.left > 0 \/ b.right > 0 \/ b.logo # NoLogo

(* How a header may end.  The file of a path may be missing: an error, and  *)
(* nothing is drawn.  An image gofpdf has not seen under its key may be one *)
(* it cannot decode, or of no declared format: that error is gofpdf's own,  *)
(* and stays.                                                               *)
Outcomes(c, b) ==
  {"drawn"} \cup (IF b.logo.kind = "path" THEN {"missing"} ELSE {})
            \cup (IF Known(c, b.logo) THEN {} ELSE {"broken"})

(* The lines are placed from the top of the block: one that lies below the  *)
(* trigger takes a page of its own, and the cursor ends below the block at  *)
(* the height it had on the first page.  The font is that of the last line. *)
drawBrandHeader(c, b, call) ==
  LET low(n) == Cardinality({i \in 1 .. n : c.y + 5 * i > Trigger})
      d == AddPages(registerLogo(c, b.logo), low(b.left) + low(b.right))
      logo == IF b.logo = NoLogo THEN NoLogo
              ELSE CHOOSE m \in d.images : logoKey(m) = logoKey(b.logo)
      item == [Item("brand", call, 0) EXCEPT !.asked = b.logo, !.shown = logo]
  IN [Place(d, item, c.y, Block(b)) EXCEPT
        !.y = c.y + Block(b) + 2 + (IF b.divider THEN 2 ELSE 0),
        !.bold = CASE b.right > 0 -> b.right = 1
                   [] b.right = 0 /\ b.left > 0 -> b.left = 1
                   [] OTHER -> @]

(* The widths: fixed ones are kept, the others share what is left, or the   *)
(* whole width when the fixed ones exceed it.                               *)
Total(ws) == FoldSeq(LAMBDA w, sum : w + sum, 0, ws)

resolveWidths(ws) ==
  LET autos == Cardinality({i \in DOMAIN ws : ws[i] = 0})
      remaining == IF Total(ws) > Available THEN Available ELSE Available - Total(ws)
  IN [i \in DOMAIN ws |-> IF ws[i] > 0 THEN ws[i] ELSE remaining \div autos]

-----------------------------------------------------------------------------
NoTable == [call |-> 0, next |-> 1, height |-> 0, repeat |-> FALSE, brand |-> NoBrand]

Options == [height : RowHeights, repeat : BOOLEAN, brand : BrandHeaders \cup {NoBrand}]

(* A slice was given to FromStructs; a service may then set widths.         *)
ExportInit ==
  /\ fields \in FieldLists
  /\ \E n \in 0 .. MaxRows : table = FromStructs(fields, n)
  /\ widths \in [DOMAIN table.columns -> Widths]
  /\ sheet = NoSheet /\ tier = "none" /\ bottom = marginBottom
  /\ canvas = EmptyCanvas
  /\ footer = 0 /\ drawing = NoTable /\ calls = 0
  /\ state = "built"

(* Both generators refuse a table without columns. *)
Refused(t) ==
  /\ state = "built" /\ table.columns = <<>>
  /\ tier' = t /\ state' = "refused"
  /\ UNCHANGED <<fields, widths, table, sheet, bottom, canvas, footer, drawing, calls>>

ExcelGenerate ==
  \/ Refused("excel")
  \/ /\ state = "built" /\ table.columns # <<>>
     /\ \E titled \in BOOLEAN : sheet' = SheetOf(table, widths, titled)
     /\ tier' = "excel" /\ state' = "done"
     /\ UNCHANGED <<fields, widths, table, bottom, canvas, footer, drawing, calls>>

(* What the pages show depends on the number of rows alone: the rest of the *)
(* table is dropped here.                                                   *)
Begin(t) ==
  /\ state = "built" /\ table.columns # <<>>
  /\ tier' = t
  /\ fields' = <<>> /\ widths' = <<>> /\ table' = [table EXCEPT !.columns = <<>>]

(* The header of the table, then the font of the rows, which follow. *)
StartTable(c, o) ==
  /\ calls' = calls + 1
  /\ canvas' = Bold(drawHeader(c, calls + 1), FALSE)
  /\ drawing' = [call |-> calls + 1, next |-> 1, height |-> o.height, repeat |-> o.repeat,
                 brand |-> IF o.brand.repeat THEN o.brand ELSE NoBrand]
  /\ state' = "drawing"

Generate ==
  \/ Refused("generate")
  \/ \E o \in Options :
       /\ Begin("generate")
       /\ IF hasBrandHeader(o.brand)
          THEN \E outcome \in Outcomes(canvas, o.brand) :
                 IF outcome = "drawn"
                 THEN StartTable(drawBrandHeader(canvas, o.brand, 0), o)
                 ELSE state' = "refused" /\ UNCHANGED <<canvas, drawing, calls>>
          ELSE StartTable(drawTitleBlock(canvas, 0), o)
       /\ UNCHANGED <<sheet, bottom, footer>>

NewDocument ==
  /\ Begin("document")
  /\ bottom' \in BottomMargins
  /\ state' = "open"
  /\ UNCHANGED <<sheet, canvas, footer, drawing, calls>>

(* The helpers of Document. *)
Helper ==
  /\ state = "open" /\ calls < MaxCalls
  /\ UNCHANGED <<fields, widths, table, sheet, tier, bottom>>

Drawn(c) == Helper /\ calls' = calls + 1 /\ canvas' = c /\ UNCHANGED <<footer, drawing, state>>

Title == Drawn(drawTitleBlock(canvas, calls + 1))

(* From then on every call leaves the document as it is and Bytes answers   *)
(* the error: no file comes of it.                                          *)
Spoil ==
  /\ state' = "refused"
  /\ UNCHANGED <<fields, widths, table, sheet, tier, bottom, canvas, footer,
                 drawing, calls>>

(* A header whose file is missing returns the error and draws nothing.      *)
Header ==
  \E b \in BrandHeaders : \E outcome \in Outcomes(canvas, b) :
    CASE outcome = "drawn"   -> Drawn(drawBrandHeader(canvas, b, calls + 1))
      [] outcome = "missing" -> Drawn(canvas)
      [] outcome = "broken"  -> state = "open" /\ calls < MaxCalls /\ Spoil

Paragraph == Drawn(Draw(Bold(canvas, FALSE), Text(calls + 1), 5))

Spacer == \E h \in Spaces : Drawn(Down(canvas, h))

SetFooter ==
  /\ Helper
  /\ footer' = Pages(canvas) /\ calls' = calls + 1
  /\ UNCHANGED <<canvas, drawing, state>>

Table == \E o \in Options : Helper /\ StartTable(canvas, o) /\ UNCHANGED footer

(* Mutant of NewPage: the header is not repeated. *)
NewPageBare(c, t, shown) == AddPage(c)

(* The renderer's own break: what it repeats; the error of a file that is   *)
(* missing is dropped, and with it the header.                              *)
NewPage(c, t, shown) ==
  LET branded(d) == IF hasBrandHeader(t.brand) /\ shown
                    THEN drawBrandHeader(d, t.brand, t.call) ELSE d
      headed(d) == IF t.repeat THEN drawHeader(d, t.call) ELSE d
  IN headed(branded(AddPage(c)))

DrawnRow(c) ==
  /\ canvas' = Draw(c, Item("row", drawing.call, drawing.next), drawing.height)
  /\ drawing' = [drawing EXCEPT !.next = @ + 1]
  /\ UNCHANGED <<fields, widths, table, sheet, tier, bottom, footer, calls, state>>

drawRow ==
  /\ state = "drawing" /\ drawing.next <= table.rows
  /\ IF canvas.y + drawing.height > Limit
     THEN \E outcome \in Outcomes(canvas, drawing.brand) :
            IF outcome = "broken" THEN Spoil
            ELSE DrawnRow(NewPage(canvas, drawing, outcome = "drawn"))
     ELSE DrawnRow(canvas)

(* Output closes the last page, with the footer that is registered.         *)
Finish(f) ==
  /\ footer' = f
  /\ canvas' = [canvas EXCEPT !.footers[Pages(canvas)] = f]
  /\ state' = "done"

(* After the last row: Generate registers the footer and outputs at once.   *)
RowsDone ==
  /\ state = "drawing" /\ drawing.next > table.rows
  /\ IF tier = "generate" THEN Finish(Pages(canvas))
     ELSE state' = "open" /\ UNCHANGED <<canvas, footer>>
  /\ UNCHANGED <<fields, widths, table, sheet, tier, bottom, drawing, calls>>

Bytes ==
  /\ state = "open"
  /\ Finish(footer)
  /\ UNCHANGED <<fields, widths, table, sheet, tier, bottom, drawing, calls>>

ExportNext ==
  \/ ExcelGenerate \/ Generate \/ NewDocument
  \/ Title \/ Header \/ Paragraph \/ Spacer \/ SetFooter \/ Table
  \/ drawRow \/ RowsDone \/ Bytes

ExportSpec == ExportInit /\ [][ExportNext]_exportVars

-----------------------------------------------------------------------------
(* Properties. *)

(* The places in the order of drawing of what a call drew. *)
At(c, what, call) ==
  {i \in DOMAIN c.items : c.items[i].item.what = what /\ c.items[i].item.call = call}

(* What repeats above the rows of a table when it goes to a new page. *)
Heads(c, call) == At(c, "header", call) \cup At(c, "brand", call)

TableCalls(c) ==
  {c.items[i].item.call : i \in {j \in DOMAIN c.items : c.items[j].item.what = "header"}}

Drawing ==
  [item : [what : {"header", "row", "text", "brand"}, call : Nat, row : Nat,
           asked : Logos, shown : Logos],
   page : Nat, top : Nat, height : Nat, bold : BOOLEAN]

Canvas ==
  [items : Seq(Drawing), footers : Seq(Nat), y : Nat, bold : BOOLEAN, images : SUBSET Logos]

(* The state is well formed: there is always a last page, the cursor is     *)
(* below the top margin, at most MaxCalls calls were made, and a table is   *)
(* in progress only in a document that is being drawn.                      *)
ExportTypeOK ==
  /\ tier \in {"none", "excel", "generate", "document"}
  /\ state \in {"built", "open", "drawing", "done", "refused"}
  /\ table.rows \in 0 .. MaxRows
  /\ bottom \in BottomMargins \cup {marginBottom}
  /\ canvas \in Canvas /\ canvas.footers # <<>> /\ canvas.y >= marginTop
  /\ footer \in 0 .. Pages(canvas)
  /\ calls \in 0 .. MaxCalls + 1
  /\ drawing \in [call : Nat, next : 1 .. table.rows + 1, height : RowHeights \cup {0},
                  repeat : BOOLEAN, brand : BrandHeaders \cup {NoBrand}]
  /\ state = "open" => tier = "document"
  /\ state = "drawing" => tier \in {"generate", "document"}

(* The rows of every table are on the pages exactly once and in order, all  *)
(* of them when the table is complete; a document that is refused has no    *)
(* pages.                                                                   *)
RowsDrawn(c, call, n) ==
  LET row(i) == c.items[i].item.row IN
  /\ {row(i) : i \in At(c, "row", call)} = 1 .. n
  /\ \A i, j \in At(c, "row", call) : i < j => row(i) < row(j)

RowsComplete ==
  state # "refused" =>
    \A k \in TableCalls(canvas) :
      RowsDrawn(canvas, k, IF state = "drawing" /\ k = drawing.call THEN drawing.next - 1
                                                                   ELSE table.rows)

(* Nothing is drawn over what is already on a page, and rows stay above the *)
(* bottom margin.                                                           *)
Stacked(c) ==
  \A i \in DOMAIN c.items :
    LET x == c.items[i] IN
    /\ \A j \in 1 .. i - 1 :
         x.page = c.items[j].page => x.top >= c.items[j].top + c.items[j].height
    /\ x.item.what = "row" => x.top + x.height <= Trigger

(* With RepeatHeader, a page that shows rows of a table shows its header    *)
(* above them, unless the bottom margin was raised so far that gofpdf       *)
(* breaks the page before drawRows does.                                    *)
HeadersAbove(c, call) ==
  \A i \in At(c, "row", call) :
    \E j \in At(c, "header", call) : j < i /\ c.items[j].page = c.items[i].page

Repeating(t) == t.repeat /\ bottom <= marginBottom + 2

HeadersRepeat ==
  state = "drawing" /\ Repeating(drawing) => HeadersAbove(canvas, drawing.call)

(* The rows are drawn in the regular font, set once before the first, until *)
(* a page of the table repeats a header or a brand header: from then on     *)
(* they may be bold.                                                        *)
BoldExplained(c) ==
  \A i \in DOMAIN c.items :
    LET x == c.items[i] IN
    x.item.what = "row" /\ x.bold =>
      \E j, k \in Heads(c, x.item.call) : j < k /\ k < i

(* What drawRows promises of a table, whatever was drawn before it on the   *)
(* document and wherever the pages break.                                   *)
RowsShown == RowsComplete /\ Stacked(canvas) /\ HeadersRepeat /\ BoldExplained(canvas)

(* The same file is named, whatever is read; or no file is, and the bytes   *)
(* lie at the same address, which is also that of no bytes at all.          *)
SameSource(l, m) ==
  /\ l # NoLogo /\ m # NoLogo
  /\ l.path = m.path /\ (l.path = 0 => l.address = m.address)

(* A header shows its own logo, or that of an earlier header of the         *)
(* document that named the same file or had its bytes at the same address:  *)
(* a file or a buffer that was written anew, or two readers.                *)
LogoShown(c, i) ==
  LET x == c.items[i].item IN
  x.what = "brand" =>
    \/ x.shown = x.asked
    \/ /\ SameSource(x.shown, x.asked)
       /\ \E j \in 1 .. i - 1 : c.items[j].item.asked = x.shown

LogosShown == \A i \in DOMAIN canvas.items : LogoShown(canvas, i)

(* The columns of a slice do not depend on whether it is empty.             *)
ColumnsAgree ==
  state = "built" => table.columns = FromStructs(fields, 1).columns

(* The sheet has every row once, the title above the header, and the filter *)
(* spans the header and the data.                                           *)
SheetRows ==
  tier = "excel" /\ state = "done" =>
    /\ IsInjective(sheet.writes)
    /\ \A i \in 1 .. Len(sheet.writes) - 1 : sheet.writes[i] < sheet.writes[i + 1]
    /\ Cardinality(sheet.filter) = table.rows + 1
    /\ sheet.frozen = Min(sheet.filter)
    /\ Max(sheet.filter) = sheet.writes[Len(sheet.writes)]

(* The columns fill the page's width and no more, unless the widths asked   *)
(* for exceed it; a column is left without width only when the others took  *)
(* exactly all of it.                                                       *)
WidthsFit ==
  state = "built" =>
    LET ws == resolveWidths(widths) IN
    /\ Total(ws) <= Available \/ Total(widths) > Available
    /\ (\E i \in DOMAIN ws : ws[i] = 0) => Total(widths) = Available

(* What both exporters rely on: one set of columns, one place for each row. *)
ColumnsRight == ColumnsAgree /\ SheetRows /\ WidthsFit

-----------------------------------------------------------------------------
(* The inductive strengthening the proofs use. *)

(* What was drawn, by calls up to k, is on pages that are there and, on the *)
(* last one, above the cursor.                                              *)
Laid(c, k) ==
  \A i \in DOMAIN c.items :
    LET x == c.items[i] IN
    /\ x.page <= Pages(c) /\ x.item.call <= k
    /\ x.page = Pages(c) => x.top + x.height <= c.y

(* The images were brought by headers that are drawn. *)
ImagesAsked(c) ==
  NoLogo \notin c.images /\ \A m \in c.images : \E j \in DOMAIN c.items : c.items[j].item.asked = m

(* A canvas as the calls up to k leave it.                                  *)
Sound(c, k) ==
  /\ c \in Canvas /\ c.footers # <<>> /\ c.y >= marginTop /\ ImagesAsked(c)
  /\ Laid(c, k) /\ Stacked(c) /\ BoldExplained(c)
  /\ \A i \in DOMAIN c.items : LogoShown(c, i)

(* The table in progress: its rows so far, and a header above the next one  *)
(* unless gofpdf breaks the page first.                                     *)
TableGoesOn(c, t) ==
  /\ RowsDrawn(c, t.call, t.next - 1)
  /\ At(c, "header", t.call) # {}
  /\ c.bold => \E j, k \in Heads(c, t.call) : j < k
  /\ Repeating(t) =>
       /\ HeadersAbove(c, t.call)
       /\ \E j \in At(c, "header", t.call) : c.items[j].page = Pages(c)

(* Nothing is drawn before a tier is chosen. *)
Unbegun ==
  state = "built" =>
    /\ canvas = EmptyCanvas /\ calls = 0 /\ footer = 0 /\ tier = "none"
    /\ bottom = marginBottom /\ table.columns = columnsFor(fields)

ExportInv ==
  /\ ExportTypeOK
  /\ Sound(canvas, calls)
  /\ RowsComplete
  /\ state = "drawing" =>
       /\ drawing.call = calls /\ drawing.height \in RowHeights
       /\ TableGoesOn(canvas, drawing)
  /\ Unbegun /\ SheetRows

=============================================================================
