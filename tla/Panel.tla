------------------------------- MODULE Panel -------------------------------
(***************************************************************************)
(* The workbench's trunk (experiments/workbench/src/trunk): pages of the   *)
(* word folded into one column per kind, a partition of each column into   *)
(* a strip and squares, and the rectangles they are drawn as.              *)
(*                                                                         *)
(* The panel asks the word for what follows its mark.  The transport may   *)
(* deliver a page late, more than once, or damaged, so the fold guards     *)
(* itself: pages are refused whole, receipts below the mark are skipped,   *)
(* and a column takes nothing older than what it holds.                    *)
(***************************************************************************)
EXTENDS WordHistory, FiniteSets

CONSTANTS
    PanelReader,    \* the reader the panel pulls with
    Lanes,          \* how many columns, in the ruled order; the last is the residue
    LaneOf,         \* the kind of each receipt, as its column, by mark
    ClassStarts,    \* the columns a class begins at
    Carried,        \* K_CARRIER: receipts one column holds
    Span,           \* WINDOW: rows a cut leaves individual
    Views,          \* viewports: the document y of the top edge, the height
    Ratios,         \* device pixel ratios, in halves
    MaxDelivered    \* bound: pages delivered

ASSUME PanelAssumption ==
    /\ PanelReader \in Readers
    /\ Lanes \in Nat \ {0}
    /\ LaneOf \in [0..(MaxWord - 1) -> 0..(Lanes - 1)]
    /\ Carried \in Nat \ {0} /\ Span \in Nat
    /\ Views \subseteq [top : Int, height : Int]
    /\ Ratios \subseteq Nat \ {0}
    /\ MaxDelivered \in Nat

VARIABLES
    panel,          \* what the fold has made of the pages so far
    flight,         \* pages answered to the panel
    floor,          \* the frozen partition: the first individual row per column
    held,           \* the placement drawn at the last cut
    reached,        \* the furthest mark the fold was ever at
    delivered

panelVars == <<panel, flight, floor, held, reached, delivered>>

Columns == 0..(Lanes - 1)

EmptyColumn == [count |-> 0, tailRevision |-> -1, tail |-> <<>>]

PanelInit ==
    /\ panel = [status |-> "Idle", mark |-> 0, columns |-> [c \in Columns |-> EmptyColumn]]
    /\ flight = {}
    /\ floor = [c \in Columns |-> 0]
    /\ held = [floor |-> floor, ops |-> {}]
    /\ reached = 0
    /\ delivered = 0

----------------------------------------------------------------------------
(* The fold. *)

\* A page is one document: its receipts' marks, whether every address in it
\* is one, and its cursor.
PageOf(marks, cursor) == [word |-> marks, addresses |-> TRUE, next |-> cursor]

Increasing(marks) == \A j, k \in DOMAIN marks : j < k => marks[j] < marks[k]

WellFormedPage(page) == page.next >= 0 /\ page.addresses /\ Increasing(page.word)

\* lastK, applied again at every merge.
LastK(marks) ==
    SubSeq(marks, IF Len(marks) > Carried THEN Len(marks) - Carried + 1 ELSE 1, Len(marks))

Grown(column, added) ==
    LET tail == LastK(column.tail \o added)
    IN  [count |-> column.count + Len(added),
         tailRevision |-> tail[Len(tail)],
         tail |-> tail]

\* The marks at some places of a page, in the page's order.
Listed(marks, places) ==
    [n \in 1..Cardinality(places) |->
        marks[CHOOSE k \in places : Cardinality({j \in places : j < k}) = n - 1]]

\* Seeded fault: the high-water mark of a column is not asked.
AdmittedPastMark(page, c) ==
    Listed(page.word, {k \in DOMAIN page.word :
        page.word[k] >= panel.mark /\ LaneOf[page.word[k]] = c})

AdmittedTo(page, c) ==
    Listed(page.word, {k \in DOMAIN page.word :
        /\ page.word[k] >= panel.mark
        /\ LaneOf[page.word[k]] = c
        /\ page.word[k] > panel.columns[c].tailRevision})

\* A cursor below the mark is the word's truncation: refused, and followed.
Truncated(page) == page.next < panel.mark

FoldPage(page) ==
    IF Truncated(page)
    THEN [panel EXCEPT !.status = "Refused", !.mark = page.next]
    ELSE [status |-> "Live", mark |-> page.next,
          columns |-> [c \in Columns |->
              LET added == AdmittedTo(page, c)
              IN  IF added = <<>> THEN panel.columns[c] ELSE Grown(panel.columns[c], added)]]

\* A malformed page moves nothing.
FoldDocument(page) ==
    IF WellFormedPage(page) THEN FoldPage(page) ELSE [panel EXCEPT !.status = "Refused"]

----------------------------------------------------------------------------
(* The placement: every row of every column covered once. *)

Square(c, row, seq) == [kind |-> "Square", col |-> c, row |-> row, of |-> seq, covers |-> 1]
Strip(c, rows)      == [kind |-> "Strip", col |-> c, row |-> 0, of |-> -1, covers |-> rows]

AtMost(n, bound)  == IF n < bound THEN n ELSE bound
AtLeast(n, bound) == IF n > bound THEN n ELSE bound

\* The only producer of a partition.
CutDoi(visible) == [c \in Columns |-> AtLeast(panel.columns[c].count - visible, 0)]

\* The oldest row a column can still name.
CarrierBase(column) == column.count - Len(column.tail)

FloorOf(c, partition) ==
    AtLeast(AtMost(partition[c], panel.columns[c].count), CarrierBase(panel.columns[c]))

PlacementOf(partition) ==
    UNION {LET column == panel.columns[c]
               from   == FloorOf(c, partition)
               base   == CarrierBase(column)
           IN  (IF from > 0 THEN {Strip(c, from)} ELSE {})
               \cup {Square(c, row, column.tail[row - base + 1]) :
                        row \in {r \in from..(column.count - 1) : r - base + 1 \in DOMAIN column.tail}} :
           c \in Columns}

----------------------------------------------------------------------------
(* Pixels.  The document grows upward from the baseline; device space is   *)
(* the document scaled by a ratio, snapped at the edges.                   *)

SquareCss == 12
PitchCss  == 15

GutterBefore(c) ==
    IF c = Lanes - 1 THEN 45 ELSE IF c \in ClassStarts THEN 30 ELSE 15

ColumnOriginCss[c \in Columns] ==
    IF c = 0 THEN 0 ELSE ColumnOriginCss[c - 1] + SquareCss + GutterBefore(c)

BandTop(op)    == 0 - (op.row + op.covers - 1) * PitchCss - SquareCss
BandBottom(op) == 0 - op.row * PitchCss

\* Math.round of a product with a ratio in halves.
Snap(css, ratio) == (css * ratio + 1) \div 2

Overdraw == 300

Drawn(op, view) ==
    /\ BandBottom(op) >= view.top - Overdraw
    /\ BandTop(op) <= view.top + view.height + Overdraw

RectOf(op, view, ratio) ==
    LET x == Snap(ColumnOriginCss[op.col], ratio)
        y == Snap(BandTop(op) - view.top, ratio)
    IN  [x |-> x, y |-> y, of |-> op,
         w |-> Snap(ColumnOriginCss[op.col] + SquareCss, ratio) - x,
         h |-> Snap(BandBottom(op) - view.top, ratio) - y]

Place(ops, view, ratio) ==
    {RectOf(op, view, ratio) : op \in {o \in ops : Drawn(o, view)}}

Apart(a, b) ==
    \/ a.x + a.w <= b.x \/ b.x + b.w <= a.x
    \/ a.y + a.h <= b.y \/ b.y + b.h <= a.y

IsDisjoint(rects) == \A a, b \in rects : a # b => Apart(a, b)

----------------------------------------------------------------------------
(* What ends the life of a drawn placement.  Of the terminators only a cut *)
(* and an exhausted carrier touch index space.                             *)

CarrierExhausted(partition) ==
    \E c \in Columns :
        panel.columns[c].count - partition[c] > Len(panel.columns[c].tail)

Terminators(before, after) ==
    (IF before # after THEN {"cut"} ELSE {})
    \cup (IF CarrierExhausted(after) THEN {"carrier"} ELSE {})

----------------------------------------------------------------------------
(* One step of the workbench. *)

\* The panel asks for what follows its mark.
Pull ==
    /\ Since(PanelReader, panel.mark, Unbounded)
    /\ UNCHANGED panelVars

Answered ==
    /\ stage[PanelReader] = "answered"
    /\ PageOf(seen[PanelReader], next[PanelReader]) \notin flight
    /\ flight' = flight \cup {PageOf(seen[PanelReader], next[PanelReader])}
    /\ UNCHANGED <<vars, panel, floor, held, reached, delivered>>

\* What the transport may hand over for a page: itself, or a document of the
\* same shape that is no page.
Arrivals(page) ==
    {page, [page EXCEPT !.addresses = FALSE], [page EXCEPT !.next = -1]}
    \cup (IF Len(page.word) > 1
          THEN {[page EXCEPT !.word = [k \in DOMAIN @ |-> @[Len(@) + 1 - k]]]} ELSE {})

Deliver ==
    /\ delivered < MaxDelivered
    /\ delivered' = delivered + 1
    /\ \E page \in flight : \E document \in Arrivals(page) :
           panel' = FoldDocument(document)
    /\ reached' = AtLeast(panel'.mark, reached)
    /\ UNCHANGED <<vars, flight, floor, held>>

Cut ==
    /\ floor' = CutDoi(Span)
    /\ held' = [floor |-> floor', ops |-> PlacementOf(floor')]
    /\ UNCHANGED <<vars, panel, flight, reached, delivered>>

\* Beside the panel, writers append and the page it asked for is read.
PanelNext ==
    \/ Pull \/ Answered \/ Deliver \/ Cut
    \/ (AppendReceipt \/ ReadPage(PanelReader)) /\ UNCHANGED panelVars

PanelSpec == Init /\ PanelInit /\ [][PanelNext]_<<vars, panelVars>>

----------------------------------------------------------------------------
\* The receipts of a column the fold should hold: every one below the
\* furthest mark, once, in order.
OwedTo(c) == {seq \in 0..(reached - 1) : LaneOf[seq] = c}

(***************************************************************************)
(* Count honesty (fold.ts, "a receipt a lane already holds is never folded *)
(* twice"): however pages are repeated, reordered, damaged or late, every  *)
(* column counts each receipt below the furthest mark once, holds the last *)
(* of them in order, and covers its rows once, each square naming the      *)
(* receipt of its row; a placement drawn at a cut stays part of the one    *)
(* drawn later until a terminator says otherwise; and no two marks overlap *)
(* on any screen.  For a word answered whole: the SQL cursor may skip.     *)
(***************************************************************************)
RowOf(c, seq) == Cardinality({earlier \in OwedTo(c) : earlier < seq})

ColumnsHonest ==
    \A c \in Columns :
        LET column == panel.columns[c]
        IN  /\ column.count = Cardinality(OwedTo(c))
            /\ Len(column.tail) = AtMost(column.count, Carried)
            /\ Increasing(column.tail)
            /\ \A k \in DOMAIN column.tail :
                   /\ column.tail[k] \in OwedTo(c)
                   /\ RowOf(c, column.tail[k]) = CarrierBase(column) + k - 1

RowsCovered ==
    LET ops == PlacementOf(floor)
    IN  \A c \in Columns :
            /\ \A row \in 0..(panel.columns[c].count - 1) :
                   Cardinality({op \in ops : op.col = c /\ row \in op.row..(op.row + op.covers - 1)}) = 1
            /\ \A op \in ops : op.col = c /\ op.kind = "Square" =>
                   op.of \in OwedTo(c) /\ RowOf(c, op.of) = op.row

HeldExtends ==
    Terminators(held.floor, floor) = {} => held.ops \subseteq PlacementOf(floor)

MarksApart ==
    \A view \in Views : \A ratio \in Ratios : IsDisjoint(Place(PlacementOf(floor), view, ratio))

PanelHonest ==
    realization = "whole" => ColumnsHonest /\ RowsCovered /\ HeldExtends /\ MarksApart
=============================================================================
