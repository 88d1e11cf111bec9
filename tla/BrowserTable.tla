---------------------------- MODULE BrowserTable ----------------------------
(***************************************************************************)
(* The browser of the log (src/widgets/table.cxx): the selected row, the   *)
(* scrolled view, keyboard and mouse.  What the logbook calls works on the *)
(* rows at once; the view is brought up to date when FLTK draws, and events *)
(* that were already queued may be handled before that.                    *)
(*                                                                         *)
(* Columns, colours and the text of the cells are left out; rows count from *)
(* 0 and -1 is no row, as in the code.                                     *)
(***************************************************************************)
EXTENDS Integers

CONSTANTS
  MaxRows,      \* bound: rows in the table
  RowHeight,    \* rowHeight, in pixels
  Heights,      \* what iH may be: the height of the rows' area
  Sortable      \* the columns whose header has a callback

ASSUME TableAssumption ==
  /\ MaxRows \in Nat /\ RowHeight \in Nat \ {0}
  /\ Heights # {} /\ Heights \subseteq Nat \ {0}
  /\ -1 \notin Sortable /\ -2 \notin Sortable

VARIABLES
  t,            \* the Table object
  edited,       \* the row whose record cb_browser has put into the form
  mouseRow,     \* the row the last mouse event was over (static in handle)
  pushed,       \* the header that is held down; -1: none
  crashed       \* a row was read that is not there

vars == <<t, edited, mouseRow, pushed, crashed>>

\* changed is dimensionsChanged; barRows is the number of rows the scrollbar's bounds
\* were computed from.
TableObject ==
  [rows : 0..MaxRows, selected : -1..(MaxRows - 1), scroll : Nat, iH : Heights,
   topRow : Nat, topRowY : Nat, bottomRow : -1..(MaxRows - 1), changed : BOOLEAN,
   barRows : 0..MaxRows]

Least(a, b) == IF a < b THEN a ELSE b
Greatest(a, b) == IF a > b THEN a ELSE b

-----------------------------------------------------------------------------
(* The member functions: each takes the object and gives the one it leaves *)

\* Mutated: the view is as many rows as fit, from the first one on.
scrolledByCount(x) ==
  LET top == Greatest(0, Least(x.scroll \div RowHeight, x.rows - 1))
  IN  [x EXCEPT !.topRow = top, !.topRowY = top * RowHeight,
                !.bottomRow = Least(top + x.iH \div RowHeight - 1, x.rows - 1)]

\* The rows on view.  (The code then steps back if the first row began below the
\* view, which rounding down excludes.)
scrolled(x) ==
  LET top == Greatest(0, Least(x.scroll \div RowHeight, x.rows - 1))
  IN  [x EXCEPT !.topRow = top, !.topRowY = top * RowHeight,
                !.bottomRow = Least((x.scroll + x.iH) \div RowHeight, x.rows - 1)]

\* Mutated: the view is not computed anew.
resizedStale(x) ==
  [x EXCEPT !.scroll = Least(@, Greatest(0, RowHeight * x.rows - x.iH)),
            !.changed = FALSE, !.barRows = x.rows]

\* calcDimensions and the scrollbar's bounds: without need of it, it goes to 0.  (The
\* browser has no horizontal scrollbar, which would take its height from the area of the
\* rows: LOGBOOK_colors_font sets allowHscroll(never) before the window is shown.)
resized(x) ==
  LET hidden == Greatest(0, RowHeight * x.rows - x.iH)
  IN  scrolled([x EXCEPT !.scroll = Least(@, hidden), !.changed = FALSE,
                         !.barRows = x.rows])

\* Mutated: the callback is left out for a table that fits its area.
scrollToQuiet(x, pos) ==
  IF x.rows > x.iH \div RowHeight
  THEN [table |-> scrolled([x EXCEPT !.scroll =
                    Greatest(0, Least(pos, RowHeight * x.rows - x.iH))]), calls |-> TRUE]
  ELSE [table |-> x, calls |-> FALSE]

\* scrollTo ends with do_callback, as when() is FL_WHEN_CHANGED.
scrollTo(x, pos) ==
  IF x.rows > x.iH \div RowHeight
  THEN [table |-> scrolled([x EXCEPT !.scroll =
                    Greatest(0, Least(pos, RowHeight * x.rows - x.iH))]), calls |-> TRUE]
  ELSE [table |-> x, calls |-> TRUE]

Stays(x) == [table |-> x, calls |-> FALSE]

\* Row n is selected and the view scrolled to pos.
SelectAt(x, n, pos) == scrollTo([x EXCEPT !.selected = n], pos)

\* The scroll position with row n at the lower edge
AtBottom(x, n) == RowHeight * (n + 1) - x.iH

FirstRow(x) == IF x.rows = 0 \/ x.selected = 0 THEN Stays(x) ELSE SelectAt(x, 0, 0)

LastRow(x) == IF x.rows = 0 THEN Stays(x)
              ELSE SelectAt(x, x.rows - 1, AtBottom(x, x.rows - 1))

GotoRow(x, n) == IF n \in 0..(x.rows - 1) THEN SelectAt(x, n, AtBottom(x, n)) ELSE Stays(x)

PrevRow(x) ==
  LET n == Greatest(x.selected - 1, 0)
  IN  IF x.rows = 0 THEN Stays(x)
      ELSE SelectAt(x, n, Least(x.scroll, RowHeight * n))

\* Mutated: the next row is only scrolled to its upper edge.
NextRowShort(x) ==
  LET n == Least(x.selected + 1, x.rows - 1)
  IN  IF x.rows = 0 \/ x.selected = x.rows - 1 THEN Stays(x)
      ELSE SelectAt(x, n, Greatest(x.scroll, RowHeight * n - x.iH))

NextRow(x) ==
  LET n == Least(x.selected + 1, x.rows - 1)
  IN  IF x.rows = 0 \/ x.selected = x.rows - 1 THEN Stays(x)
      ELSE SelectAt(x, n, Greatest(x.scroll, AtBottom(x, n)))

Page(x) == x.iH \div RowHeight

PrevPage(x) ==
  LET n == Greatest(x.selected - Page(x), 0)
  IN  IF x.selected > 0 THEN SelectAt(x, n, RowHeight * n) ELSE Stays(x)

NextPage(x) ==
  LET n == Least(x.selected + Page(x), x.rows - 1)
  IN  IF x.selected \in 0..(x.rows - 2) THEN SelectAt(x, n, AtBottom(x, n)) ELSE Stays(x)

\* where: the row at this height of the rows' area, -2 if there is none.  The rows on
\* view are those of the last scrolled.
where(x, y) ==
  LET i == (y + x.scroll - x.topRowY) \div RowHeight
      row == x.topRow + i
  IN  IF x.rows > 0 /\ y + x.scroll >= x.topRowY /\ row <= x.bottomRow THEN row ELSE -2

-----------------------------------------------------------------------------
(* What the logbook does *)

\* A call of the table and, if it says so, cb_browser for the selected row
Does(result) ==
  /\ t' = result.table
  /\ edited' = IF result.calls THEN result.table.selected ELSE edited

\* loadBrowser: clear, a row per record, then FirstRow or LastRow
Reloaded(n, last) ==
  LET x == [t EXCEPT !.rows = n, !.selected = -1, !.changed = TRUE]
  IN  IF last THEN LastRow(x) ELSE FirstRow(x)

\* The log has changed to n records, by a call of a client or a callback of the dialog.
Reload(n, last) ==
  /\ ~crashed
  /\ Does(Reloaded(n, last))
  /\ UNCHANGED <<mouseRow, pushed, crashed>>

\* A search of the dialog or of a client has found row n.
Found(n) ==
  /\ ~crashed /\ n < t.rows
  /\ Does(GotoRow(t, n))
  /\ UNCHANGED <<mouseRow, pushed, crashed>>

-----------------------------------------------------------------------------
(* FLTK's events *)

Draw ==
  /\ ~crashed
  /\ t' = IF t.changed THEN resized(t) ELSE t
  /\ UNCHANGED <<edited, mouseRow, pushed, crashed>>

\* The window gets another height.
Resize(h) ==
  /\ ~crashed
  /\ t' = resized([t EXCEPT !.iH = h])
  /\ UNCHANGED <<edited, mouseRow, pushed, crashed>>

\* The user moves the scrollbar.
ScrollBar(pos) ==
  /\ ~crashed /\ pos <= RowHeight * t.barRows - t.iH
  /\ t' = scrolled([t EXCEPT !.scroll = pos])
  /\ UNCHANGED <<edited, mouseRow, pushed, crashed>>

Moves(x) == {FirstRow(x), PrevRow(x), NextRow(x), LastRow(x), PrevPage(x), NextPage(x)}

\* A key: Home, Up, Down, End, Page Up, Page Down
Key ==
  /\ ~crashed
  /\ \E result \in Moves(t) : Does(result)
  /\ UNCHANGED <<mouseRow, pushed, crashed>>

\* A row the mouse is over becomes selected: its cells, or the text of its number,
\* are read.
Hits(row, calls) ==
  IF row < t.rows
  THEN /\ Does([table |-> [t EXCEPT !.selected = row], calls |-> calls])
       /\ UNCHANGED crashed
  ELSE crashed' = TRUE /\ UNCHANGED <<t, edited>>

Push(y) ==
  /\ ~crashed /\ y < t.iH
  /\ mouseRow' = where(t, y)
  /\ IF mouseRow' >= 0 THEN Hits(mouseRow', mouseRow' # t.selected)
     ELSE UNCHANGED <<t, edited, crashed>>
  /\ UNCHANGED pushed

\* The mouse is moved with the button down.
Drag(y) ==
  /\ ~crashed /\ y < t.iH
  /\ mouseRow' = where(t, y)
  /\ IF mouseRow' >= 0 /\ pushed = -1 /\ mouseRow' # mouseRow
     THEN Hits(mouseRow', TRUE) ELSE UNCHANGED <<t, edited, crashed>>
  /\ UNCHANGED pushed

PushHeader(col) ==
  /\ ~crashed /\ mouseRow' = -1 /\ pushed' = col
  /\ UNCHANGED <<t, edited, crashed>>

\* The button is let go over a header (col) or elsewhere (-2): the callback of the
\* header sorts the log and reloads it.
Release(col) ==
  /\ ~crashed /\ pushed' = -1
  /\ IF col = pushed
     THEN mouseRow' = -1 /\ \E last \in BOOLEAN : Does(Reloaded(t.rows, last))
     ELSE /\ mouseRow' \in {-1} \cup {where(t, y) : y \in 0..(t.iH - 1)}
          /\ UNCHANGED <<t, edited>>
  /\ UNCHANGED crashed

Gone == crashed /\ UNCHANGED vars

Init ==
  /\ \E h \in Heights :
       t = [rows |-> 0, selected |-> -1, scroll |-> 0, iH |-> h, topRow |-> 0,
            topRowY |-> 0, bottomRow |-> -1, changed |-> FALSE, barRows |-> 0]
  /\ edited = -1 /\ mouseRow = -2 /\ pushed = -1 /\ crashed = FALSE

Next ==
  \/ \E n \in 0..MaxRows, last \in BOOLEAN : Reload(n, last)
  \/ \E n \in 0..(MaxRows - 1) : Found(n)
  \/ Draw \/ Key
  \/ \E h \in Heights : Resize(h)
  \/ \E pos \in 0..(RowHeight * MaxRows) : ScrollBar(pos)
  \/ \E h \in Heights : \E y \in 0..(h - 1) : Push(y) \/ Drag(y)
  \/ \E col \in Sortable : PushHeader(col)
  \/ \E col \in Sortable \cup {-2} : Release(col)
  \/ Gone

Spec == Init /\ [][Next]_vars

-----------------------------------------------------------------------------
(* Properties *)

\* Every variable keeps its type; what is selected is a row or none.
TypeOK ==
  /\ t \in TableObject /\ t.selected < t.rows
  /\ edited \in -1..(MaxRows - 1) /\ mouseRow \in -2..(MaxRows - 1)
  /\ pushed \in {-1} \cup Sortable /\ crashed \in BOOLEAN

\* Whatever was scrolled, resized and reloaded in between: once the view is up to
\* date, the rows drawn and the rows a click can hit are those that lie in the
\* rows' area (the last one may only touch its edge), and the area has no gap that a
\* row could fill.
ViewIsExact ==
  ~t.changed =>
    /\ \A r \in 0..(t.rows - 1) :
         r \in t.topRow..t.bottomRow <=>
           RowHeight * (r + 1) > t.scroll /\ RowHeight * r <= t.scroll + t.iH
    /\ t.scroll > 0 => t.scroll + t.iH <= RowHeight * t.rows

\* The form is on the record of the selected row, whichever of keyboard, mouse, search
\* and reload has selected it.
EditedIsSelected == t.selected >= 0 => edited = t.selected

OnView(x, r) == /\ x.scroll <= RowHeight * r
                /\ RowHeight * (r + 1) <= x.scroll + x.iH

\* As it is drawn next
Shown(x) == IF x.changed THEN resized(x) ELSE x

\* In an area that has room for a row, a selected row that is drawn on view is not moved
\* out of it by a key, and a row that was searched is drawn on view, also when the log
\* has changed since the last drawing.
SelectionStaysOnView ==
  [][/\ t.iH >= RowHeight /\ t.selected >= 0 /\ OnView(Shown(t), t.selected) /\ Key
          => OnView(Shown(t'), t'.selected)
     /\ \A n \in 0..(MaxRows - 1) :
          t.iH >= RowHeight /\ Found(n) => OnView(Shown(t'), n)]_vars

\* A click or a drag reads a row that is not there only between a reload and the next
\* drawing: never otherwise, however the view was scrolled and resized.
MissesOnlyUndrawn == [][crashed' /\ ~crashed => t.changed]_vars
=============================================================================
