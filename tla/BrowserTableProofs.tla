------------------------- MODULE BrowserTableProofs -------------------------
(***************************************************************************)
(* Proofs about BrowserTable, for every height of a row and of the area    *)
(* and any number of rows: what is computed for the view is exact, what is *)
(* edited is selected, and what the keys select is on view.                *)
(***************************************************************************)
EXTENDS BrowserTable, TLAPS

\* The scrollbar stands within the bounds of the rows there are.
Bounded(x) ==
  x.barRows = x.rows /\ x.scroll <= Greatest(0, RowHeight * x.rows - x.iH)

\* The rows on view are those of scrolled.
Exact(x) ==
  /\ Bounded(x)
  /\ x.topRow = Greatest(0, Least(x.scroll \div RowHeight, x.rows - 1))
  /\ x.bottomRow = Least((x.scroll + x.iH) \div RowHeight, x.rows - 1)

\* What the member functions keep: the types, a selection that is a row or none, and,
\* once the dimensions are known, the view that belongs to them.
Sound(x) ==
  /\ x \in TableObject /\ x.selected < x.rows
  /\ ~x.changed => Exact(x)

\* The result of a member function: the table is sound, and its callback is called if
\* the selection has moved.
Good(result, x) ==
  /\ Sound(result.table) /\ result.calls \in BOOLEAN
  /\ result.calls \/ result.table.selected = x.selected

IInv ==
  /\ Sound(t)
  /\ t.selected >= 0 => edited = t.selected
  /\ edited \in -1..(MaxRows - 1) /\ mouseRow \in -2..(MaxRows - 1)
  /\ pushed \in {-1} \cup Sortable /\ crashed \in BOOLEAN

-----------------------------------------------------------------------------
(* Arithmetic *)

\* A whole number of rows that fits into a distance is not negative.
LEMMA DivNat == ASSUME NEW a \in Nat, NEW b \in Nat \ {0} PROVE a \div b \in Nat
  OBVIOUS

\* The height of a number of rows is not negative.
LEMMA MultNat == ASSUME NEW a \in Nat, NEW b \in Nat PROVE a * b \in Nat
  OBVIOUS

\* More rows are higher.
LEMMA MultMono ==
  ASSUME NEW a \in Nat, NEW b \in Nat, NEW c \in Nat, a <= b
  PROVE  c * a <= c * b
<1>1. PICK d \in Nat : b = a + d
  <2>1. b - a \in Nat /\ b = a + (b - a)
    OBVIOUS
  <2> QED
    BY <2>1
<1>2. c * b = c * a + c * d
  BY <1>1
<1>3. c * d \in Nat /\ c * a \in Nat
  BY <1>1, MultNat
<1> QED
  BY <1>2, <1>3

\* Row r begins at or above place a if it is not after the row of that place, and ends
\* below it if it is not before that row.
LEMMA DivPlace ==
  ASSUME NEW a \in Nat, NEW b \in Nat \ {0}, NEW r \in Nat
  PROVE  /\ b * (r + 1) > a <=> r >= a \div b
         /\ b * r <= a <=> r <= a \div b
<1> DEFINE q == a \div b
<1>1. q \in Nat
  BY DivNat
<1>2. b * q <= a /\ a < b * (q + 1)
  OBVIOUS
<1> HIDE DEF q
<1>3. /\ b * r \in Nat /\ b * (r + 1) \in Nat /\ b * q \in Nat /\ b * (q + 1) \in Nat
  BY <1>1, MultNat
<1>4. r >= q => b * (q + 1) <= b * (r + 1)
  BY <1>1, MultMono
<1>5. r < q => b * (r + 1) <= b * q
  BY <1>1, MultMono
<1>6. r <= q => b * r <= b * q
  BY <1>1, MultMono
<1>7. r > q => b * (q + 1) <= b * r
  BY <1>1, MultMono
<1>8. /\ b * (r + 1) > a <=> r >= q
      /\ b * r <= a <=> r <= q
  BY <1>1, <1>2, <1>3, <1>4, <1>5, <1>6, <1>7
<1> QED
  BY <1>8 DEF q

\* The measures of a table and of the rows in it are whole numbers.
LEMMA Measures ==
  ASSUME NEW x \in TableObject
  PROVE  /\ RowHeight \in Nat \ {0} /\ MaxRows \in Nat
         /\ x.rows \in 0..MaxRows /\ x.selected \in -1..(MaxRows - 1)
         /\ x.scroll \in Nat /\ x.iH \in Nat /\ x.topRow \in Nat /\ x.topRowY \in Nat
         /\ x.bottomRow \in -1..(MaxRows - 1) /\ x.changed \in BOOLEAN
         /\ RowHeight * x.rows \in Nat
<1>1. /\ RowHeight \in Nat \ {0} /\ MaxRows \in Nat
      /\ x.rows \in 0..MaxRows /\ x.selected \in -1..(MaxRows - 1)
      /\ x.scroll \in Nat /\ x.topRow \in Nat /\ x.topRowY \in Nat
      /\ x.bottomRow \in -1..(MaxRows - 1) /\ x.changed \in BOOLEAN
  BY TableAssumption DEF TableObject
<1>2. x.iH \in Heights
  BY DEF TableObject
<1>3. x.iH \in Nat
  BY <1>2, TableAssumption
<1>4. RowHeight * x.rows \in Nat
  BY <1>1, MultNat
<1> QED
  BY <1>1, <1>3, <1>4

\* The row at the lower edge has a place.
LEMMA BottomPlace ==
  ASSUME NEW x \in TableObject, NEW n \in Nat
  PROVE  AtBottom(x, n) \in Int /\ RowHeight * n \in Int
<1>1. RowHeight * (n + 1) \in Nat /\ RowHeight * n \in Nat
  BY Measures, MultNat
<1> QED
  BY <1>1, Measures DEF AtBottom

-----------------------------------------------------------------------------
(* The member functions *)

\* scrolled leaves the rows and the selection and puts only rows of the table on view.
LEMMA ScrolledSound ==
  ASSUME NEW x \in TableObject, x.selected < x.rows, x.changed \/ Bounded(x)
  PROVE  /\ Sound(scrolled(x))
         /\ scrolled(x).selected = x.selected /\ scrolled(x).rows = x.rows
<1> DEFINE top == Greatest(0, Least(x.scroll \div RowHeight, x.rows - 1))
           bottom == Least((x.scroll + x.iH) \div RowHeight, x.rows - 1)
<1>1. RowHeight \in Nat \ {0} /\ x.scroll \in Nat /\ x.iH \in Nat /\ x.rows \in 0..MaxRows
      /\ MaxRows \in Nat
  BY Measures
<1>2. x.scroll \div RowHeight \in Nat /\ (x.scroll + x.iH) \div RowHeight \in Nat
  BY <1>1, DivNat
<1>3. top \in Nat /\ bottom \in -1..(MaxRows - 1) /\ bottom < x.rows
  BY <1>1, <1>2 DEF Least, Greatest
<1>4. top * RowHeight \in Nat
  BY <1>1, <1>3, MultNat
<1>5. scrolled(x) = [x EXCEPT !.topRow = top, !.topRowY = top * RowHeight, !.bottomRow = bottom]
  BY DEF scrolled
<1> HIDE DEF top, bottom
<1>6. /\ scrolled(x) \in TableObject
      /\ scrolled(x).topRow = top /\ scrolled(x).bottomRow = bottom
      /\ scrolled(x).selected = x.selected /\ scrolled(x).rows = x.rows
      /\ scrolled(x).scroll = x.scroll /\ scrolled(x).iH = x.iH
      /\ scrolled(x).changed = x.changed /\ scrolled(x).barRows = x.barRows
  BY <1>3, <1>4, <1>5 DEF TableObject
<1>7. ~x.changed => Exact(scrolled(x))
  BY <1>6 DEF Exact, Bounded, top, bottom
<1> QED
  BY <1>6, <1>7 DEF Sound

\* calcDimensions and the bounds of the scrollbar do so, too, whatever the height is now.
LEMMA ResizedSound ==
  ASSUME NEW x \in TableObject, x.selected < x.rows
  PROVE  Sound(resized(x)) /\ resized(x).selected = x.selected
<1> DEFINE hidden == Greatest(0, RowHeight * x.rows - x.iH)
           y == [x EXCEPT !.scroll = Least(@, hidden), !.changed = FALSE, !.barRows = x.rows]
<1>1. RowHeight * x.rows \in Int /\ x.iH \in Int /\ x.scroll \in Nat
  BY Measures
<1>2. Least(x.scroll, hidden) \in Nat
  BY <1>1 DEF Least, Greatest
<1>3. Least(x.scroll, hidden) <= hidden
  BY <1>1 DEF Least, Greatest
<1> HIDE DEF hidden
<1>4. /\ y \in TableObject /\ y.selected = x.selected /\ y.rows = x.rows
      /\ y.scroll = Least(x.scroll, hidden) /\ y.iH = x.iH /\ y.barRows = x.rows
  BY <1>2 DEF TableObject
<1>5. resized(x) = scrolled(y)
  BY DEF resized, hidden
<1> HIDE DEF y
<1>6. Bounded(y)
  BY <1>3, <1>4 DEF Bounded, hidden
<1> QED
  BY <1>4, <1>5, <1>6, ScrolledSound

\* Row n is selected, the table is sound, and the callback is called.
LEMMA SelectAtGood ==
  ASSUME NEW x, Sound(x), NEW n \in 0..(x.rows - 1), NEW pos \in Int
  PROVE  /\ Good(SelectAt(x, n, pos), x)
         /\ SelectAt(x, n, pos).calls /\ SelectAt(x, n, pos).table.selected = n
<1> DEFINE y == [x EXCEPT !.selected = n]
           z == [y EXCEPT !.scroll = Greatest(0, Least(pos, RowHeight * y.rows - y.iH))]
<1>0. x \in TableObject /\ n \in -1..(MaxRows - 1) /\ n < x.rows
  BY Measures DEF Sound
<1>1. /\ y \in TableObject /\ y.selected = n /\ y.rows = x.rows
      /\ y.changed = x.changed /\ y.topRow = x.topRow /\ y.bottomRow = x.bottomRow
      /\ y.scroll = x.scroll /\ y.iH = x.iH /\ y.barRows = x.barRows
  BY <1>0 DEF TableObject
<1> HIDE DEF y
<1>2. Sound(y)
  BY <1>0, <1>1 DEF Sound, Exact, Bounded
<1>3. z \in TableObject /\ z.selected = n /\ z.rows = x.rows /\ (z.changed \/ Bounded(z))
  <2> DEFINE hidden == RowHeight * y.rows - y.iH
  <2>1. hidden \in Int
    BY <1>1, Measures
  <2>2. /\ Greatest(0, Least(pos, hidden)) \in Nat
        /\ Greatest(0, Least(pos, hidden)) <= Greatest(0, hidden)
    BY <2>1 DEF Greatest, Least
  <2> HIDE DEF hidden
  <2>3. z = [y EXCEPT !.scroll = Greatest(0, Least(pos, hidden))]
    BY DEF z, hidden
  <2> HIDE DEF z
  <2>4. /\ z \in TableObject /\ z.selected = n /\ z.rows = y.rows /\ z.iH = y.iH
        /\ z.scroll = Greatest(0, Least(pos, hidden))
        /\ z.changed = y.changed /\ z.barRows = y.barRows
    BY <1>1, <2>2, <2>3 DEF TableObject
  <2>5. ~y.changed => y.barRows = y.rows
    BY <1>2 DEF Sound, Exact, Bounded
  <2> QED
    BY <1>1, <2>2, <2>4, <2>5 DEF Bounded, hidden
<1> HIDE DEF z
<1>4. Sound(scrolled(z)) /\ scrolled(z).selected = n
  BY <1>0, <1>3, ScrolledSound
<1>5. \E y1 : /\ SelectAt(x, n, pos) = [table |-> y1, calls |-> TRUE]
              /\ y1 \in {scrolled(z), y}
  BY DEF SelectAt, scrollTo, y, z
<1>6. PICK y1 : /\ SelectAt(x, n, pos) = [table |-> y1, calls |-> TRUE]
                /\ y1 \in {scrolled(z), y}
  BY <1>5
<1>7. /\ SelectAt(x, n, pos).table = y1 /\ SelectAt(x, n, pos).calls
      /\ Sound(y1) /\ y1.selected = n
  BY <1>1, <1>2, <1>4, <1>6
<1> QED
  BY <1>7 DEF Good

\* Staying where it is, the table is sound.
LEMMA StaysGood == ASSUME NEW x, Sound(x) PROVE Good(Stays(x), x)
  BY DEF Good, Stays

\* FirstRow and LastRow; in a table that has rows and no selection they select one.
LEMMA EndsGood ==
  ASSUME NEW x, Sound(x)
  PROVE  Good(FirstRow(x), x) /\ Good(LastRow(x), x)
<1>1. x.rows \in Nat /\ (x.rows # 0 => AtBottom(x, x.rows - 1) \in Int)
  BY Measures, BottomPlace DEF Sound
<1>2. CASE x.rows = 0
  BY <1>2, StaysGood DEF FirstRow, LastRow
<1>3. CASE x.rows # 0
  <2>1. 0 \in 0..(x.rows - 1) /\ x.rows - 1 \in 0..(x.rows - 1)
    BY <1>1, <1>3
  <2> QED
    BY <1>1, <1>3, <2>1, StaysGood, SelectAtGood DEF FirstRow, LastRow
<1> QED
  BY <1>2, <1>3

\* Every key moves a sound table to a sound one.
LEMMA MovesGood ==
  ASSUME NEW x, Sound(x), NEW result \in Moves(x)
  PROVE  Good(result, x)
<1>1. /\ x.rows \in Nat /\ x.selected \in Int /\ x.selected < x.rows /\ x.selected >= -1
      /\ x.scroll \in Int /\ x.iH \in Nat /\ RowHeight \in Nat \ {0}
  BY Measures DEF Sound
<1>2. Page(x) \in Nat
  BY <1>1, DivNat DEF Page
<1>3. \A n \in 0..(x.rows - 1) : /\ RowHeight * n \in Int /\ AtBottom(x, n) \in Int
                                 /\ Least(x.scroll, RowHeight * n) \in Int
                                 /\ Greatest(x.scroll, AtBottom(x, n)) \in Int
  <2> TAKE n \in 0..(x.rows - 1)
  <2>1. RowHeight * n \in Int /\ AtBottom(x, n) \in Int
    BY <1>1, BottomPlace DEF Sound
  <2> QED
    BY <1>1, <2>1 DEF Least, Greatest
<1>4. Good(PrevRow(x), x)
  <2>1. x.rows # 0 => Greatest(x.selected - 1, 0) \in 0..(x.rows - 1)
    BY <1>1 DEF Greatest
  <2> QED
    BY <1>3, <2>1, StaysGood, SelectAtGood DEF PrevRow
<1>5. Good(NextRow(x), x)
  <2>1. x.rows # 0 => Least(x.selected + 1, x.rows - 1) \in 0..(x.rows - 1)
    BY <1>1 DEF Least
  <2> QED
    BY <1>3, <2>1, StaysGood, SelectAtGood DEF NextRow
<1>6. Good(PrevPage(x), x)
  <2>1. x.selected > 0 => Greatest(x.selected - Page(x), 0) \in 0..(x.rows - 1)
    BY <1>1, <1>2 DEF Greatest
  <2> QED
    BY <1>3, <2>1, StaysGood, SelectAtGood DEF PrevPage
<1>7. Good(NextPage(x), x)
  <2>1. x.selected \in 0..(x.rows - 2)
          => Least(x.selected + Page(x), x.rows - 1) \in 0..(x.rows - 1)
    BY <1>1, <1>2 DEF Least
  <2> QED
    BY <1>3, <2>1, StaysGood, SelectAtGood DEF NextPage
<1> QED
  BY <1>4, <1>5, <1>6, <1>7, EndsGood DEF Moves

\* After a search the row found is selected.
LEMMA GotoRowGood ==
  ASSUME NEW x, Sound(x), NEW n \in 0..(MaxRows - 1), n < x.rows
  PROVE  Good(GotoRow(x, n), x)
<1>1. n \in 0..(x.rows - 1) /\ AtBottom(x, n) \in Int
  BY TableAssumption, Measures, BottomPlace DEF Sound
<1> QED
  BY <1>1, SelectAtGood DEF GotoRow

\* A reload forgets the selection and the dimensions.
LEMMA ReloadedGood ==
  ASSUME Sound(t), NEW n \in 0..MaxRows, NEW last \in BOOLEAN
  PROVE  /\ Sound(Reloaded(n, last).table) /\ Reloaded(n, last).calls \in BOOLEAN
         /\ Reloaded(n, last).calls \/ Reloaded(n, last).table.selected = -1
<1> DEFINE x == [t EXCEPT !.rows = n, !.selected = -1, !.changed = TRUE]
<1>0. t \in TableObject /\ MaxRows \in Nat /\ -1 \in -1..(MaxRows - 1)
  BY TableAssumption DEF Sound
<1>1. x \in TableObject /\ x.selected = -1 /\ x.rows = n /\ x.changed
  BY <1>0 DEF TableObject
<1>3. Sound(x)
  BY <1>0, <1>1 DEF Sound
<1>2. Reloaded(n, last) \in {FirstRow(x), LastRow(x)}
  BY DEF Reloaded
<1> HIDE DEF x
<1> QED
  BY <1>1, <1>2, <1>3, EndsGood, ZenonT(60) DEF Good

\* What the mouse is over is a row on view, or none.
LEMMA WhereOnView ==
  ASSUME NEW x, Sound(x), NEW y \in Nat
  PROVE  where(x, y) \in -2..(MaxRows - 1) /\ (where(x, y) >= 0 => where(x, y) <= x.bottomRow)
<1>1. /\ x.scroll \in Nat /\ x.topRowY \in Nat /\ x.topRow \in Nat
      /\ x.bottomRow \in -1..(MaxRows - 1) /\ RowHeight \in Nat \ {0} /\ MaxRows \in Nat
  BY Measures DEF Sound
<1>2. y + x.scroll >= x.topRowY => (y + x.scroll - x.topRowY) \div RowHeight \in Nat
  BY <1>1, DivNat
<1> QED
  BY <1>1, <1>2 DEF where

-----------------------------------------------------------------------------
(* The invariant *)

\* A call of the table's members keeps the invariant's part about the selection.
LEMMA DoesKeeps ==
  ASSUME NEW result, Does(result), Sound(result.table), result.calls \in BOOLEAN,
         result.calls \/ result.table.selected = t.selected \/ result.table.selected = -1,
         t.selected >= 0 => edited = t.selected, edited \in -1..(MaxRows - 1)
  PROVE  /\ Sound(t)' /\ (t'.selected >= 0 => edited' = t'.selected)
         /\ edited' \in -1..(MaxRows - 1)
<1>1. t' = result.table /\ edited' = IF result.calls THEN result.table.selected ELSE edited
  BY DEF Does
<1>2. result.table.selected \in -1..(MaxRows - 1)
  BY Measures DEF Sound
<1>3. Sound(t)'
  BY <1>1 DEF Sound
<1>4. CASE result.calls
  BY <1>1, <1>2, <1>3, <1>4
<1>5. CASE ~result.calls
  BY <1>1, <1>2, <1>3, <1>5
<1> QED
  BY <1>4, <1>5

\* At the start the table is empty.
LEMMA InitInv == Init => IInv
<1> SUFFICES ASSUME Init PROVE IInv
  OBVIOUS
<1>1. PICK h \in Heights :
        t = [rows |-> 0, selected |-> -1, scroll |-> 0, iH |-> h, topRow |-> 0,
             topRowY |-> 0, bottomRow |-> -1, changed |-> FALSE, barRows |-> 0]
  BY DEF Init
<1>2. MaxRows \in Nat
  BY TableAssumption
<1>3. /\ t \in TableObject /\ t.selected = -1 /\ t.rows = 0 /\ t.scroll = 0
      /\ t.topRow = 0 /\ t.bottomRow = -1 /\ t.barRows = 0
  BY <1>1, <1>2 DEF TableObject
<1>4. edited = -1 /\ mouseRow = -2 /\ pushed = -1 /\ crashed = FALSE
  BY DEF Init
<1>5. Sound(t) /\ ~(t.selected >= 0)
  <2>1. t.scroll \div RowHeight \in Nat /\ (t.scroll + t.iH) \div RowHeight \in Nat
    BY <1>3, Measures, DivNat
  <2>2. RowHeight * t.rows - t.iH \in Int
    BY <1>3, Measures
  <2>3. Exact(t)
    BY <1>3, <2>1, <2>2 DEF Exact, Bounded, Least, Greatest
  <2> QED
    BY <1>3, <2>3 DEF Sound
<1>6. edited \in -1..(MaxRows - 1) /\ mouseRow \in -2..(MaxRows - 1)
  BY <1>2, <1>4
<1>7. pushed \in {-1} \cup Sortable /\ crashed \in BOOLEAN
  BY <1>4
<1> QED
  BY <1>5, <1>6, <1>7 DEF IInv

\* A row the mouse has hit becomes the one selected.
LEMMA HitsKeeps ==
  ASSUME IInv, NEW row \in 0..(MaxRows - 1), NEW calls \in BOOLEAN,
         calls \/ row = t.selected, Hits(row, calls)
  PROVE  /\ Sound(t)' /\ (t'.selected >= 0 => edited' = t'.selected)
         /\ edited' \in -1..(MaxRows - 1)
         /\ crashed' # crashed => row >= t.rows
<1> DEFINE x == [t EXCEPT !.selected = row]
<1>0. t \in TableObject /\ Sound(t) /\ t.rows \in Nat
  BY Measures DEF IInv, Sound
<1>1. CASE row < t.rows
  <2>1. /\ x \in TableObject /\ x.selected = row /\ x.rows = t.rows
        /\ x.changed = t.changed /\ x.topRow = t.topRow /\ x.bottomRow = t.bottomRow
        /\ x.scroll = t.scroll /\ x.iH = t.iH /\ x.barRows = t.barRows
    BY <1>0 DEF TableObject
  <2>2. Does([table |-> x, calls |-> calls]) /\ crashed' = crashed
    BY <1>1 DEF Hits
  <2> HIDE DEF x
  <2>3. Sound(x)
    BY <1>0, <1>1, <2>1 DEF Sound, Exact, Bounded
  <2>4. \A result : result = [table |-> x, calls |-> calls]
          => result.table = x /\ result.calls = calls
    OBVIOUS
  <2>5. PICK result : result = [table |-> x, calls |-> calls]
    OBVIOUS
  <2>6. Does(result) /\ result.table = x /\ result.calls = calls
    BY <2>2, <2>4, <2>5
  <2>7. /\ t.selected >= 0 => edited = t.selected
        /\ edited \in -1..(MaxRows - 1)
    BY DEF IInv
  <2> QED
    BY <1>1, <2>1, <2>2, <2>3, <2>6, <2>7, DoesKeeps
<1>2. CASE ~(row < t.rows)
  <2>1. UNCHANGED <<t, edited>>
    BY <1>2 DEF Hits
  <2> QED
    BY <1>0, <1>2, <2>1 DEF IInv, Sound
<1> QED
  BY <1>1, <1>2

\* Every step keeps the invariant, and a row that is not there is only read while the
\* dimensions wait to be computed.
LEMMA NextInv ==
  ASSUME IInv, [Next]_vars
  PROVE  IInv' /\ (crashed' /\ ~crashed => t.changed)
<1>0. /\ t \in TableObject /\ Sound(t) /\ t.selected < t.rows
      /\ t.selected >= 0 => edited = t.selected
      /\ edited \in -1..(MaxRows - 1) /\ MaxRows \in Nat
      /\ -2 \in -2..(MaxRows - 1) /\ -1 \in -2..(MaxRows - 1)
  BY TableAssumption DEF IInv, Sound
<1>1. ASSUME NEW n \in 0..MaxRows, NEW last \in BOOLEAN, Reload(n, last)
      PROVE  IInv' /\ crashed' = crashed
  <2>1. Does(Reloaded(n, last)) /\ UNCHANGED <<mouseRow, pushed, crashed>>
    BY <1>1 DEF Reload
  <2> QED
    BY <1>0, <2>1, ReloadedGood, DoesKeeps DEF IInv
<1>2. ASSUME NEW n \in 0..(MaxRows - 1), Found(n) PROVE IInv' /\ crashed' = crashed
  <2>1. Does(GotoRow(t, n)) /\ n < t.rows /\ UNCHANGED <<mouseRow, pushed, crashed>>
    BY <1>2 DEF Found
  <2>2. Good(GotoRow(t, n), t)
    BY <1>0, <2>1, GotoRowGood
  <2> QED
    BY <1>0, <2>1, <2>2, DoesKeeps DEF IInv, Good
<1>3. ASSUME Key PROVE IInv' /\ crashed' = crashed
  <2>1. PICK result \in Moves(t) : Does(result)
    BY <1>3 DEF Key
  <2>2. Good(result, t)
    BY <1>0, <2>1, MovesGood
  <2>3. UNCHANGED <<mouseRow, pushed, crashed>>
    BY <1>3 DEF Key
  <2> QED
    BY <1>0, <2>1, <2>2, <2>3, DoesKeeps DEF IInv, Good
<1>4. ASSUME Draw PROVE IInv' /\ crashed' = crashed
  <2>1. Sound(resized(t)) /\ resized(t).selected = t.selected
    BY <1>0, ResizedSound
  <2>2. t' \in {resized(t), t} /\ UNCHANGED <<edited, mouseRow, pushed, crashed>>
    BY <1>4 DEF Draw
  <2>3. Sound(t') /\ t'.selected = t.selected
    BY <1>0, <2>1, <2>2
  <2> QED
    BY <1>0, <2>2, <2>3 DEF IInv
<1>5. ASSUME NEW h \in Heights, Resize(h) PROVE IInv' /\ crashed' = crashed
  <2> DEFINE x == [t EXCEPT !.iH = h]
  <2>1. x \in TableObject /\ x.selected = t.selected /\ x.rows = t.rows
    BY <1>0 DEF TableObject
  <2>2. t' = resized(x) /\ UNCHANGED <<edited, mouseRow, pushed, crashed>>
    BY <1>5 DEF Resize
  <2> HIDE DEF x
  <2>3. Sound(t') /\ t'.selected = t.selected
    BY <1>0, <2>1, <2>2, ResizedSound
  <2> QED
    BY <1>0, <2>2, <2>3 DEF IInv
<1>6. ASSUME NEW pos \in 0..(RowHeight * MaxRows), ScrollBar(pos)
      PROVE  IInv' /\ crashed' = crashed
  <2> DEFINE x == [t EXCEPT !.scroll = pos]
  <2>0. pos \in Nat
    BY <1>0
  <2>1. /\ x \in TableObject /\ x.selected = t.selected /\ x.rows = t.rows
        /\ x.scroll = pos /\ x.iH = t.iH /\ x.changed = t.changed /\ x.barRows = t.barRows
    BY <1>0, <2>0 DEF TableObject
  <2>2. t' = scrolled(x) /\ UNCHANGED <<edited, mouseRow, pushed, crashed>>
    BY <1>6 DEF ScrollBar
  <2> HIDE DEF x
  <2>4. pos <= RowHeight * t.barRows - t.iH
    BY <1>6 DEF ScrollBar
  <2>5. x.changed \/ Bounded(x)
    <3>1. ~t.changed => t.barRows = t.rows
      BY <1>0 DEF Sound, Exact, Bounded
    <3>2. RowHeight * t.rows - t.iH \in Int
      BY <1>0, Measures
    <3> QED
      BY <2>1, <2>4, <3>1, <3>2 DEF Bounded, Greatest
  <2>3. Sound(t') /\ t'.selected = t.selected
    BY <1>0, <2>1, <2>2, <2>5, ScrolledSound
  <2> QED
    BY <1>0, <2>2, <2>3 DEF IInv
<1>7. ASSUME NEW y \in Nat, Push(y) \/ Drag(y)
      PROVE  IInv' /\ (crashed' # crashed => t.changed)
  <2>1. /\ mouseRow' = where(t, y) /\ UNCHANGED pushed
        /\ \/ /\ mouseRow' >= 0
              /\ \E calls \in BOOLEAN : /\ calls \/ mouseRow' = t.selected
                                       /\ Hits(mouseRow', calls)
           \/ UNCHANGED <<t, edited, crashed>>
    BY <1>7 DEF Push, Drag
  <2>2. mouseRow' \in -2..(MaxRows - 1) /\ (mouseRow' >= 0 => mouseRow' <= t.bottomRow)
    BY <1>0, <2>1, WhereOnView
  <2>3. CASE UNCHANGED <<t, edited, crashed>>
    BY <1>0, <2>1, <2>2, <2>3 DEF IInv, Sound
  <2>4. CASE mouseRow' >= 0 /\ \E calls \in BOOLEAN :
               (calls \/ mouseRow' = t.selected) /\ Hits(mouseRow', calls)
    <3>1. PICK calls \in BOOLEAN : (calls \/ mouseRow' = t.selected) /\ Hits(mouseRow', calls)
      BY <2>4
    <3>2. mouseRow' \in 0..(MaxRows - 1)
      BY <1>0, <2>2, <2>4
    <3>3. /\ Sound(t)' /\ (t'.selected >= 0 => edited' = t'.selected)
          /\ edited' \in -1..(MaxRows - 1)
          /\ crashed' # crashed => mouseRow' >= t.rows
      BY <3>1, <3>2, HitsKeeps
    <3>4. crashed' \in BOOLEAN
      BY <3>1 DEF Hits, IInv
    <3>5. t.rows \in Nat /\ t.bottomRow \in Int /\ (~t.changed => t.bottomRow < t.rows)
      <4>1. /\ t.rows \in Nat /\ t.bottomRow \in Int
            /\ (t.scroll + t.iH) \div RowHeight \in Nat
        BY <1>0, Measures, DivNat
      <4> QED
        BY <1>0, <4>1 DEF Sound, Exact, Least
    <3>6. crashed' # crashed => t.changed
      BY <2>2, <3>2, <3>3, <3>5
    <3> QED
      BY <2>1, <2>2, <3>3, <3>4, <3>6 DEF IInv
  <2> QED
    BY <2>1, <2>3, <2>4
<1>8. ASSUME NEW col \in Sortable, PushHeader(col) PROVE IInv' /\ crashed' = crashed
  <2>1. mouseRow' = -1 /\ pushed' = col /\ UNCHANGED <<t, edited, crashed>>
    BY <1>8 DEF PushHeader
  <2> QED
    BY <1>0, <2>1 DEF IInv, Sound
<1>9. ASSUME NEW col \in Sortable \cup {-2}, Release(col) PROVE IInv' /\ crashed' = crashed
  <2>1. pushed' = -1 /\ crashed' = crashed
    BY <1>9 DEF Release
  <2>2. CASE col = pushed
    <3>1. PICK last \in BOOLEAN : Does(Reloaded(t.rows, last))
      BY <1>9, <2>2 DEF Release
    <3>2. t.rows \in 0..MaxRows /\ mouseRow' = -1
      BY <1>0, <1>9, <2>2, Measures DEF Release
    <3> QED
      BY <1>0, <2>1, <3>1, <3>2, ReloadedGood, DoesKeeps DEF IInv
  <2>3. CASE col # pushed
    <3>1. /\ mouseRow' \in {-1} \cup {where(t, y) : y \in 0..(t.iH - 1)}
          /\ UNCHANGED <<t, edited>>
      BY <1>9, <2>3 DEF Release
    <3>2. \A y \in 0..(t.iH - 1) : where(t, y) \in -2..(MaxRows - 1)
      BY <1>0, WhereOnView
    <3>3. mouseRow' \in -2..(MaxRows - 1)
      BY <1>0, <3>1, <3>2
    <3> QED
      BY <1>0, <2>1, <3>1, <3>3 DEF IInv, Sound
  <2> QED
    BY <2>2, <2>3
<1>10. CASE UNCHANGED vars
  BY <1>0, <1>10 DEF IInv, Sound, vars
<1>11. CASE Next
  <2>1. \A h \in Heights : \A y \in 0..(h - 1) : y \in Nat
    BY TableAssumption
  <2> QED
    BY <1>1, <1>2, <1>3, <1>4, <1>5, <1>6, <1>7, <1>8, <1>9, <1>10, <1>11, <2>1 DEF Next, Gone
<1> QED
  BY <1>10, <1>11

\* The invariant holds.
LEMMA InvHolds == Spec => []IInv
<1>1. IInv /\ [Next]_vars => IInv'
  BY NextInv
<1> QED
  BY InitInv, <1>1, PTL DEF Spec

-----------------------------------------------------------------------------
(* The results *)

\* Every variable of the table keeps its type, and what is selected is a row or none.
THEOREM TypeCorrect == Spec => []TypeOK
<1>1. IInv => TypeOK
  BY DEF IInv, Sound, TypeOK
<1> QED
  BY InvHolds, <1>1, PTL

\* However the table is scrolled, resized, reloaded, searched, clicked and sorted, the
\* form is on the record of the row that is selected.
THEOREM EditedCorrect == Spec => []EditedIsSelected
<1>1. IInv => EditedIsSelected
  BY DEF IInv, EditedIsSelected
<1> QED
  BY InvHolds, <1>1, PTL

\* Once the dimensions are known, the rows on view are exactly those that lie in the
\* area, and the view does not end below the last row.
LEMMA SoundView ==
  ASSUME IInv, ~t.changed
  PROVE  /\ \A r \in 0..(t.rows - 1) :
              r \in t.topRow..t.bottomRow <=>
                RowHeight * (r + 1) > t.scroll /\ RowHeight * r <= t.scroll + t.iH
         /\ t.scroll > 0 => t.scroll + t.iH <= RowHeight * t.rows
<1> DEFINE first == t.scroll \div RowHeight
           last == (t.scroll + t.iH) \div RowHeight
<1>1. /\ t \in TableObject /\ Exact(t)
  BY DEF IInv, Sound
<1>2. /\ RowHeight \in Nat \ {0} /\ t.rows \in Nat /\ t.scroll \in Nat /\ t.iH \in Nat
      /\ RowHeight * t.rows \in Nat /\ t.iH > 0
  <2>1. t.iH \in Heights
    BY <1>1 DEF TableObject
  <2> QED
    BY <1>1, <2>1, Measures, TableAssumption
<1>3. first \in Nat /\ last \in Nat
  BY <1>2, DivNat
<1>4. /\ t.topRow = Greatest(0, Least(first, t.rows - 1))
      /\ t.bottomRow = Least(last, t.rows - 1)
      /\ t.scroll <= Greatest(0, RowHeight * t.rows - t.iH)
  BY <1>1 DEF Exact, Bounded
<1>5. t.scroll > 0 => t.scroll + t.iH <= RowHeight * t.rows
  BY <1>2, <1>4 DEF Greatest
<1>6. ASSUME NEW r \in 0..(t.rows - 1)
      PROVE  r \in t.topRow..t.bottomRow <=>
               RowHeight * (r + 1) > t.scroll /\ RowHeight * r <= t.scroll + t.iH
  <2>1. r \in Nat /\ t.rows - 1 \in Nat /\ r <= t.rows - 1
    BY <1>2
  <2>2. /\ RowHeight * (r + 1) > t.scroll <=> r >= first
        /\ RowHeight * r <= t.scroll + t.iH <=> r <= last
    <3>1. t.scroll \in Nat /\ t.scroll + t.iH \in Nat
      BY <1>2
    <3>2. \A a \in Nat : /\ RowHeight * (r + 1) > a <=> r >= a \div RowHeight
                         /\ RowHeight * r <= a <=> r <= a \div RowHeight
      BY <1>2, <2>1, DivPlace
    <3> QED
      BY <3>1, <3>2
  <2>3. first <= t.rows - 1
    <3>1. RowHeight * ((t.rows - 1) + 1) > t.scroll
      <4>1. (t.rows - 1) + 1 = t.rows /\ t.rows >= 1
        BY <2>1, <1>2
      <4>2. RowHeight * t.rows >= 1
        <5>1. RowHeight * 1 <= RowHeight * t.rows
          BY <1>2, <4>1, MultMono
        <5> QED
          BY <1>2, <5>1
      <4> QED
        BY <1>2, <1>5, <4>1, <4>2
    <3> QED
      BY <1>2, <2>1, <3>1, DivPlace
  <2> HIDE DEF first, last
  <2>4. t.topRow = first
    BY <1>2, <1>3, <1>4, <2>1, <2>3 DEF Greatest, Least
  <2>5. (r <= t.bottomRow <=> r <= last) /\ t.bottomRow \in Int
    BY <1>2, <1>3, <1>4, <2>1 DEF Least
  <2> QED
    BY <1>3, <2>1, <2>2, <2>4, <2>5
<1> QED
  BY <1>5, <1>6

\* For every height of a row and of the area: once the view is up to date, the rows
\* drawn are those that lie in the area, and the area has no gap that a row could fill.
THEOREM ViewCorrect == Spec => []ViewIsExact
<1>1. IInv => ViewIsExact
  BY SoundView DEF ViewIsExact
<1> QED
  BY InvHolds, <1>1, PTL

\* A click reads a row that is not there only between a reload and the next drawing.
THEOREM MissesCorrect == Spec => MissesOnlyUndrawn
<1>1. IInv /\ [Next]_vars => [crashed' /\ ~crashed => t.changed]_vars
  BY NextInv
<1> QED
  BY InvHolds, <1>1, PTL DEF Spec, MissesOnlyUndrawn

-----------------------------------------------------------------------------
(* The selection on view *)

\* How far the view can be scrolled; it is negative if the rows do not fill the area.
Hidden(x) == RowHeight * x.rows - x.iH

\* The scroll position of the next drawing
ShownScroll(x) == IF x.changed THEN Least(x.scroll, Greatest(0, Hidden(x))) ELSE x.scroll

\* scrolled keeps the position and the area.
LEMMA ScrolledKeeps ==
  ASSUME NEW x \in TableObject
  PROVE  /\ scrolled(x).scroll = x.scroll /\ scrolled(x).iH = x.iH
         /\ scrolled(x).rows = x.rows /\ scrolled(x).changed = x.changed
<1> DEFINE top == Greatest(0, Least(x.scroll \div RowHeight, x.rows - 1))
           topY == top * RowHeight
           bottom == Least((x.scroll + x.iH) \div RowHeight, x.rows - 1)
<1>1. scrolled(x) = [x EXCEPT !.topRow = top, !.topRowY = topY, !.bottomRow = bottom]
  BY DEF scrolled
<1> HIDE DEF top, topY, bottom
<1> QED
  BY <1>1 DEF TableObject

\* The next drawing is at ShownScroll.
LEMMA ShownAt ==
  ASSUME NEW x \in TableObject
  PROVE  Shown(x).scroll = ShownScroll(x) /\ Shown(x).iH = x.iH
<1> DEFINE hidden == Greatest(0, RowHeight * x.rows - x.iH)
           y == [x EXCEPT !.scroll = Least(@, hidden), !.changed = FALSE, !.barRows = x.rows]
<1>1. RowHeight * x.rows \in Int /\ x.iH \in Int /\ x.scroll \in Nat
  BY Measures
<1>2. Least(x.scroll, hidden) \in Nat
  BY <1>1 DEF Least, Greatest
<1>3. resized(x) = scrolled(y)
  BY DEF resized
<1>4. ShownScroll(x) = IF x.changed THEN Least(x.scroll, hidden) ELSE x.scroll
  BY DEF ShownScroll, Hidden
<1> HIDE DEF hidden
<1>5. y \in TableObject /\ y.scroll = Least(x.scroll, hidden) /\ y.iH = x.iH
  BY <1>2 DEF TableObject
<1> HIDE DEF y
<1>6. resized(x).scroll = Least(x.scroll, hidden) /\ resized(x).iH = x.iH
  BY <1>3, <1>5, ScrolledKeeps
<1> QED
  BY <1>4, <1>6 DEF Shown

\* Where a table is left by the selection of row n at position pos
LEMMA SelectAtPlace ==
  ASSUME NEW x, Sound(x), NEW n \in 0..(x.rows - 1), NEW pos \in Int,
         NEW y, y = SelectAt(x, n, pos).table
  PROVE  /\ y \in TableObject /\ y.selected = n /\ y.rows = x.rows /\ y.iH = x.iH
         /\ y.changed = x.changed
         /\ y.scroll = IF x.rows > Page(x) THEN Greatest(0, Least(pos, Hidden(x))) ELSE x.scroll
<1> DEFINE w == [x EXCEPT !.selected = n]
           to == Greatest(0, Least(pos, RowHeight * w.rows - w.iH))
           z == [w EXCEPT !.scroll = to]
<1>0. x \in TableObject
  BY DEF Sound
<1>1. n \in -1..(MaxRows - 1)
  BY <1>0, Measures
<1>2. /\ w \in TableObject /\ w.selected = n /\ w.rows = x.rows /\ w.iH = x.iH
      /\ w.changed = x.changed /\ w.scroll = x.scroll
  BY <1>0, <1>1 DEF TableObject
<1>3. y = IF w.rows > w.iH \div RowHeight THEN scrolled(z) ELSE w
  BY DEF SelectAt, scrollTo
<1> HIDE DEF w
<1>4. to = Greatest(0, Least(pos, Hidden(x))) /\ to \in Nat
  <2>1. RowHeight * x.rows - x.iH \in Int
    BY <1>0, Measures
  <2>2. Hidden(x) = RowHeight * w.rows - w.iH
    BY <1>2 DEF Hidden
  <2>3. Hidden(x) \in Int
    BY <2>1 DEF Hidden
  <2> QED
    BY <2>2, <2>3 DEF Greatest, Least
<1> HIDE DEF to
<1>5. /\ z \in TableObject /\ z.selected = n /\ z.rows = x.rows /\ z.iH = x.iH
      /\ z.changed = x.changed /\ z.scroll = to
  BY <1>2, <1>4 DEF TableObject
<1> HIDE DEF z
<1>6. y \in TableObject /\ y.selected = n
  BY SelectAtGood DEF Good, Sound
<1>7. /\ scrolled(z).rows = x.rows /\ scrolled(z).iH = x.iH
      /\ scrolled(z).changed = x.changed /\ scrolled(z).scroll = to
  BY <1>5, ScrolledKeeps
<1> QED
  BY <1>2, <1>3, <1>4, <1>6, <1>7 DEF Page

\* A table whose rows do not fill the area is drawn from the first row on.
LEMMA PageFull ==
  ASSUME NEW x, Sound(x), x.rows > 0
  PROVE  /\ Hidden(x) \in Int /\ x.scroll \in Nat /\ x.iH \in Nat
         /\ x.rows > Page(x) <=> Hidden(x) > 0
         /\ ShownScroll(x) \in Nat /\ ShownScroll(x) <= Greatest(0, Hidden(x))
         /\ ShownScroll(x) = x.scroll \/ ShownScroll(x) = Greatest(0, Hidden(x))
         /\ ShownScroll(x) <= x.scroll
<1>1. /\ RowHeight \in Nat \ {0} /\ x.rows \in Nat /\ x.scroll \in Nat /\ x.iH \in Nat
      /\ RowHeight * x.rows \in Nat
  BY Measures DEF Sound
<1>2. Hidden(x) \in Int
  BY <1>1 DEF Hidden
<1>3. x.rows > Page(x) <=> Hidden(x) > 0
  <2>1. PICK r \in Nat : r + 1 = x.rows
    <3>1. x.rows - 1 \in Nat /\ (x.rows - 1) + 1 = x.rows
      BY <1>1
    <3> QED
      BY <3>1
  <2>2. RowHeight * (r + 1) > x.iH <=> r >= x.iH \div RowHeight
    BY <1>1, <2>1, DivPlace
  <2>3. Page(x) \in Nat /\ Page(x) = x.iH \div RowHeight
    BY <1>1, DivNat DEF Page
  <2>4. RowHeight * x.rows > x.iH <=> r >= Page(x)
    BY <2>1, <2>2, <2>3
  <2> QED
    BY <1>1, <2>1, <2>3, <2>4 DEF Hidden
<1>4. ~x.changed => x.scroll <= Greatest(0, Hidden(x))
  BY DEF Sound, Exact, Bounded, Hidden
<1> QED
  BY <1>1, <1>2, <1>3, <1>4 DEF ShownScroll, Least, Greatest

\* A row that is selected at a position from which it is on view is drawn on view, also
\* when the position is cut off at the end of the rows.
LEMMA SelectAtShows ==
  ASSUME NEW x, Sound(x), NEW n \in 0..(x.rows - 1), NEW pos \in Int,
         RowHeight * (n + 1) <= pos + x.iH,
         pos <= RowHeight * n \/ Hidden(x) <= RowHeight * n
  PROVE  OnView(Shown(SelectAt(x, n, pos).table), SelectAt(x, n, pos).table.selected)
<1>1. PICK y : y = SelectAt(x, n, pos).table
  OBVIOUS
<1>2. /\ y \in TableObject /\ y.selected = n /\ y.rows = x.rows /\ y.iH = x.iH
      /\ y.changed = x.changed
      /\ y.scroll = IF x.rows > Page(x) THEN Greatest(0, Least(pos, Hidden(x))) ELSE x.scroll
  BY <1>1, SelectAtPlace
<1>3. /\ Hidden(x) \in Int /\ x.scroll \in Nat /\ x.iH \in Nat
      /\ x.rows > Page(x) <=> Hidden(x) > 0
      /\ ShownScroll(x) \in Nat /\ ShownScroll(x) <= Greatest(0, Hidden(x))
  <2>1. x.rows > 0
    BY Measures DEF Sound
  <2> QED
    BY <2>1, PageFull
<1>4. Hidden(y) = Hidden(x)
  BY <1>2 DEF Hidden
<1>5. /\ RowHeight * n \in Nat /\ RowHeight * (n + 1) \in Nat
      /\ RowHeight * (n + 1) <= RowHeight * x.rows /\ RowHeight * x.rows \in Nat
  <2>1. RowHeight \in Nat /\ x.rows \in Nat /\ n \in Nat /\ n + 1 \in Nat /\ n + 1 <= x.rows
    BY Measures DEF Sound
  <2> QED
    BY <2>1, MultNat, MultMono
<1>6. Hidden(x) = RowHeight * x.rows - x.iH
  BY DEF Hidden
<1>7. Shown(y).scroll = ShownScroll(y) /\ Shown(y).iH = x.iH
  BY <1>2, ShownAt
<1>8. CASE x.rows > Page(x)
  <2>1. /\ Hidden(x) > 0 /\ y.scroll = Greatest(0, Least(pos, Hidden(x)))
    BY <1>2, <1>3, <1>8
  <2>2. ShownScroll(y) = y.scroll
    BY <1>3, <1>4, <2>1 DEF ShownScroll, Least, Greatest
  <2>3. y.scroll <= RowHeight * n /\ RowHeight * (n + 1) <= y.scroll + x.iH
    BY <1>3, <1>5, <1>6, <2>1 DEF Least, Greatest
  <2> QED
    BY <1>1, <1>2, <1>7, <2>2, <2>3 DEF OnView
<1>9. CASE ~(x.rows > Page(x))
  <2>1. Hidden(x) <= 0 /\ y.scroll = x.scroll
    BY <1>2, <1>3, <1>9
  <2>2. ShownScroll(y) = ShownScroll(x)
    BY <1>2, <1>4, <2>1 DEF ShownScroll
  <2>3. ShownScroll(x) = 0
    BY <1>3, <2>1 DEF Greatest
  <2>4. 0 <= RowHeight * n /\ RowHeight * (n + 1) <= 0 + x.iH
    BY <1>3, <1>5, <1>6, <2>1
  <2> QED
    BY <1>1, <1>2, <1>7, <2>2, <2>3, <2>4 DEF OnView
<1> QED
  BY <1>8, <1>9

\* A row that is put to the lower edge of an area with room for it is drawn on view.
LEMMA BottomShows ==
  ASSUME NEW x, Sound(x), NEW n \in 0..(x.rows - 1), x.iH >= RowHeight,
         NEW pos, pos = AtBottom(x, n)
  PROVE  OnView(Shown(SelectAt(x, n, pos).table), SelectAt(x, n, pos).table.selected)
<1>1. /\ pos \in Int /\ x.iH \in Nat /\ RowHeight \in Nat /\ n \in Nat
      /\ RowHeight * n \in Nat /\ RowHeight * (n + 1) \in Nat
  <2>1. RowHeight \in Nat /\ x.iH \in Nat /\ n \in Nat /\ n + 1 \in Nat
    BY Measures DEF Sound
  <2> QED
    BY <2>1, MultNat DEF AtBottom
<1>2. RowHeight * (n + 1) = RowHeight * n + RowHeight
  BY <1>1
<1>3. RowHeight * (n + 1) <= pos + x.iH /\ pos <= RowHeight * n
  BY <1>1, <1>2 DEF AtBottom
<1> QED
  BY <1>1, <1>3, SelectAtShows

\* So is a row that is put to the upper edge.
LEMMA TopShows ==
  ASSUME NEW x, Sound(x), NEW n \in 0..(x.rows - 1), x.iH >= RowHeight,
         NEW pos, pos = RowHeight * n
  PROVE  OnView(Shown(SelectAt(x, n, pos).table), SelectAt(x, n, pos).table.selected)
<1>1. /\ pos \in Int /\ x.iH \in Nat /\ RowHeight \in Nat /\ n \in Nat
  <2>1. RowHeight \in Nat /\ x.iH \in Nat /\ n \in Nat
    BY Measures DEF Sound
  <2> QED
    BY <2>1, MultNat
<1>2. RowHeight * (n + 1) = RowHeight * n + RowHeight
  BY <1>1
<1>3. RowHeight * (n + 1) <= pos + x.iH /\ pos <= RowHeight * n
  BY <1>1, <1>2
<1> QED
  BY <1>1, <1>3, SelectAtShows

\* The row before one that is drawn on view is drawn on view.
LEMMA PrevShows ==
  ASSUME NEW x, Sound(x), x.selected >= 0, x.iH >= RowHeight, OnView(Shown(x), x.selected)
  PROVE  OnView(Shown(PrevRow(x).table), PrevRow(x).table.selected)
<1> DEFINE n == Greatest(x.selected - 1, 0)
           pos == Least(x.scroll, RowHeight * n)
<1>1. /\ x \in TableObject /\ x.rows \in Nat /\ x.selected \in Nat /\ x.selected < x.rows
      /\ RowHeight \in Nat /\ x.iH \in Nat /\ x.scroll \in Nat
  BY Measures DEF Sound
<1>2. n \in 0..(x.rows - 1) /\ n \in Nat /\ n <= x.selected
  BY <1>1 DEF Greatest
<1>3. PrevRow(x) = SelectAt(x, n, pos)
  BY <1>1 DEF PrevRow
<1> HIDE DEF n
<1>4. /\ RowHeight * n \in Nat /\ RowHeight * (n + 1) \in Nat
      /\ RowHeight * (x.selected + 1) \in Nat
      /\ RowHeight * (n + 1) = RowHeight * n + RowHeight
      /\ RowHeight * (n + 1) <= RowHeight * (x.selected + 1)
  <2>1. n + 1 \in Nat /\ x.selected + 1 \in Nat /\ n + 1 <= x.selected + 1
    BY <1>1, <1>2
  <2>2. RowHeight * (n + 1) = RowHeight * n + RowHeight
    BY <1>1, <1>2
  <2> QED
    BY <1>1, <1>2, <2>1, <2>2, MultNat, MultMono
<1>5. RowHeight * (x.selected + 1) <= ShownScroll(x) + x.iH
  BY <1>1, ShownAt DEF OnView
<1>6. ShownScroll(x) \in Nat /\ ShownScroll(x) <= x.scroll
  BY <1>1, PageFull
<1>7. pos \in Int /\ pos <= RowHeight * n /\ RowHeight * (n + 1) <= pos + x.iH
  BY <1>1, <1>4, <1>5, <1>6 DEF Least
<1> HIDE DEF pos
<1>8. OnView(Shown(SelectAt(x, n, pos).table), SelectAt(x, n, pos).table.selected)
  BY <1>2, <1>7, SelectAtShows
<1> QED
  BY <1>3, <1>8

\* So is the row after it, also when the log has become shorter than it is scrolled.
LEMMA NextShows ==
  ASSUME NEW x, Sound(x), x.selected >= 0, x.iH >= RowHeight, OnView(Shown(x), x.selected)
  PROVE  OnView(Shown(NextRow(x).table), NextRow(x).table.selected)
<1> DEFINE n == Least(x.selected + 1, x.rows - 1)
           pos == Greatest(x.scroll, AtBottom(x, n))
<1>1. /\ x \in TableObject /\ x.rows \in Nat /\ x.selected \in Nat /\ x.selected < x.rows
      /\ RowHeight \in Nat /\ x.iH \in Nat /\ x.scroll \in Nat
  BY Measures DEF Sound
<1>2. n \in 0..(x.rows - 1) /\ n \in Nat /\ x.selected <= n
  BY <1>1 DEF Least
<1>3. CASE x.selected = x.rows - 1
  BY <1>3 DEF NextRow, Stays
<1>4. CASE x.selected # x.rows - 1
  <2>1. NextRow(x) = SelectAt(x, n, pos)
    BY <1>1, <1>4 DEF NextRow
  <2> HIDE DEF n
  <2>2. /\ RowHeight * n \in Nat /\ RowHeight * (n + 1) \in Nat
        /\ RowHeight * x.selected \in Nat
        /\ RowHeight * (n + 1) = RowHeight * n + RowHeight
        /\ RowHeight * x.selected <= RowHeight * n
    <3>1. RowHeight * (n + 1) = RowHeight * n + RowHeight /\ n + 1 \in Nat
      BY <1>1, <1>2
    <3> QED
      BY <1>1, <1>2, <3>1, MultNat, MultMono
  <2>3. ShownScroll(x) <= RowHeight * x.selected
    BY <1>1, ShownAt DEF OnView
  <2>4. /\ ShownScroll(x) \in Nat /\ Hidden(x) \in Int
        /\ ShownScroll(x) = x.scroll \/ ShownScroll(x) = Greatest(0, Hidden(x))
    BY <1>1, PageFull
  <2>5. x.scroll <= RowHeight * n \/ Hidden(x) <= RowHeight * n
    BY <1>1, <2>2, <2>3, <2>4 DEF Greatest
  <2>6. AtBottom(x, n) = RowHeight * (n + 1) - x.iH
    BY DEF AtBottom
  <2>7. /\ pos \in Int /\ RowHeight * (n + 1) <= pos + x.iH
        /\ pos <= RowHeight * n \/ Hidden(x) <= RowHeight * n
    BY <1>1, <2>2, <2>5, <2>6 DEF Greatest
  <2> HIDE DEF pos
  <2>8. OnView(Shown(SelectAt(x, n, pos).table), SelectAt(x, n, pos).table.selected)
    BY <1>2, <2>7, SelectAtShows
  <2> QED
    BY <2>1, <2>8
<1> QED
  BY <1>3, <1>4

\* Every key leaves a selected row on view.
LEMMA MovesShow ==
  ASSUME NEW x, Sound(x), x.selected >= 0, x.iH >= RowHeight, OnView(Shown(x), x.selected),
         NEW result \in Moves(x)
  PROVE  OnView(Shown(result.table), result.table.selected)
<1>1. /\ x \in TableObject /\ x.rows \in Nat /\ x.selected \in Nat /\ x.selected < x.rows
      /\ RowHeight \in Nat \ {0} /\ x.iH \in Nat
  BY Measures DEF Sound
<1>2. Page(x) \in Nat
  BY <1>1, DivNat DEF Page
<1>3. OnView(Shown(Stays(x).table), Stays(x).table.selected)
  BY DEF Stays
<1>4. OnView(Shown(FirstRow(x).table), FirstRow(x).table.selected)
  <2>1. PICK n \in 0..(x.rows - 1) : n = 0
    BY <1>1
  <2>2. PICK pos \in Nat : pos = RowHeight * n /\ pos = 0
    BY <1>1, <2>1
  <2>3. FirstRow(x) = Stays(x) \/ FirstRow(x) = SelectAt(x, n, pos)
    BY <2>1, <2>2 DEF FirstRow
  <2> QED
    BY <1>3, <2>2, <2>3, TopShows
<1>5. OnView(Shown(LastRow(x).table), LastRow(x).table.selected)
  <2>1. PICK n \in 0..(x.rows - 1) : n = x.rows - 1
    BY <1>1
  <2>2. PICK pos : pos = AtBottom(x, n)
    OBVIOUS
  <2>3. LastRow(x) = SelectAt(x, n, pos)
    BY <1>1, <2>1, <2>2 DEF LastRow
  <2> QED
    BY <2>2, <2>3, BottomShows
<1>6. OnView(Shown(PrevPage(x).table), PrevPage(x).table.selected)
  <2>1. PICK n \in 0..(x.rows - 1) : n = Greatest(x.selected - Page(x), 0)
    BY <1>1, <1>2 DEF Greatest
  <2>2. PICK pos : pos = RowHeight * n
    OBVIOUS
  <2>3. PrevPage(x) = Stays(x) \/ PrevPage(x) = SelectAt(x, n, pos)
    BY <2>1, <2>2 DEF PrevPage
  <2> QED
    BY <1>3, <2>2, <2>3, TopShows
<1>7. OnView(Shown(NextPage(x).table), NextPage(x).table.selected)
  <2>1. PICK n \in 0..(x.rows - 1) : n = Least(x.selected + Page(x), x.rows - 1)
    BY <1>1, <1>2 DEF Least
  <2>2. PICK pos : pos = AtBottom(x, n)
    OBVIOUS
  <2>3. NextPage(x) = Stays(x) \/ NextPage(x) = SelectAt(x, n, pos)
    BY <2>1, <2>2 DEF NextPage
  <2> QED
    BY <1>3, <2>2, <2>3, BottomShows
<1> QED
  BY <1>4, <1>5, <1>6, <1>7, PrevShows, NextShows DEF Moves

\* For every height of a row, and every area with room for one: no key moves a selected
\* row that is drawn on view out of it, and a row that was searched is drawn on view, also
\* when the log has changed since the last drawing.
THEOREM SelectionOnView == Spec => SelectionStaysOnView
<1> DEFINE KeyShows == t.iH >= RowHeight /\ t.selected >= 0 /\ OnView(Shown(t), t.selected) /\ Key
                         => OnView(Shown(t'), t'.selected)
           FoundShows == \A n \in 0..(MaxRows - 1) :
                           t.iH >= RowHeight /\ Found(n) => OnView(Shown(t'), n)
<1>1. IInv => KeyShows
  <2> SUFFICES ASSUME IInv, t.iH >= RowHeight, t.selected >= 0, OnView(Shown(t), t.selected), Key
               PROVE  OnView(Shown(t'), t'.selected)
    OBVIOUS
  <2>1. PICK result \in Moves(t) : t' = result.table
    BY DEF Key, Does
  <2>2. OnView(Shown(result.table), result.table.selected)
    BY MovesShow DEF IInv
  <2> QED
    BY <2>1, <2>2
<1>2. IInv => FoundShows
  <2> SUFFICES ASSUME IInv, NEW n \in 0..(MaxRows - 1), t.iH >= RowHeight, Found(n)
               PROVE  OnView(Shown(t'), n)
    OBVIOUS
  <2>1. Sound(t) /\ t.rows \in Nat /\ MaxRows \in Nat
    BY TableAssumption, Measures DEF IInv, Sound
  <2>2. n \in 0..(t.rows - 1)
    BY <2>1 DEF Found
  <2>3. PICK pos : pos = AtBottom(t, n)
    OBVIOUS
  <2>4. t' = SelectAt(t, n, pos).table
    BY <2>2, <2>3 DEF Found, Does, GotoRow
  <2>5. OnView(Shown(SelectAt(t, n, pos).table), SelectAt(t, n, pos).table.selected)
    BY <2>1, <2>2, <2>3, BottomShows
  <2>6. SelectAt(t, n, pos).table.selected = n
    BY <2>1, <2>2, <2>3, BottomPlace, SelectAtGood DEF Sound
  <2> QED
    BY <2>4, <2>5, <2>6
<1>3. IInv => [KeyShows /\ FoundShows]_vars
  BY <1>1, <1>2
<1> QED
  BY InvHolds, <1>3, PTL DEF SelectionStaysOnView

=============================================================================
