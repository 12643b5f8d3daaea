-------------------------- MODULE FrameBufferProofs --------------------------
(***************************************************************************)
(* Proofs about module FrameBuffer, for every size of screen and history:  *)
(* the ring with its incremental drawing implements the plain text         *)
(* terminal of module Terminal.                                            *)
(***************************************************************************)
EXTENDS FrameBuffer, SequenceTheorems, TLAPS

Cell == Chars \cup {Blank}

\* The ring is at least as long as the screen.
LEMMA HistRows == hist_rows \in Nat /\ rows <= hist_rows /\ rows \in Nat \ {0} /\ cols \in Nat \ {0}
  BY FrameBufferAssumption DEF hist_rows, os_vbuf_effective_hist_rows

\* One lap around the ring at most.
LEMMA OneLap ==
  ASSUME NEW h \in Nat \ {0}, NEW a \in 0..(2 * h - 1)
  PROVE  a % h = IF a < h THEN a ELSE a - h
  OBVIOUS

\* What a buffer is within a call, where the cursor may stand one column or one
\* row too far, and between two calls.
BufferType ==
  [content     : [0..(hist_rows - 1) -> [ColIndices -> Cell]],
   base        : 0..(hist_rows - 1),
   count       : rows..hist_rows,
   view_offset : Nat,
   cursor      : [x : 0..cols, y : 0..rows]]

Sound(f) ==
  /\ f \in BufferType
  /\ f.cursor.x < cols /\ f.cursor.y < rows
  /\ f.view_offset <= f.count - rows

\* The text a buffer stands for.
TextOf(f) == [lines |-> Lines(f), x |-> f.cursor.x, y |-> f.cursor.y]

\* A row of the ring has its place in it.
LEMMA RingRowType ==
  ASSUME NEW f \in BufferType, NEW i \in 0..(hist_rows - 1)
  PROVE  /\ RingRow(f, i) \in 0..(hist_rows - 1)
         /\ RingRow(f, i) = IF f.base + i < hist_rows THEN f.base + i ELSE f.base + i - hist_rows
<1>1. f.base \in 0..(hist_rows - 1)
  BY DEF BufferType
<1>2. hist_rows \in Nat \ {0} /\ f.base + i \in 0..(2 * hist_rows - 1)
  BY <1>1, HistRows
<1> HIDE DEF hist_rows
<1>3. (f.base + i) % hist_rows = IF f.base + i < hist_rows THEN f.base + i ELSE f.base + i - hist_rows
  <2>1. PICK a \in 0..(2 * hist_rows - 1) : a = f.base + i
    BY <1>2
  <2>2. a % hist_rows = IF a < hist_rows THEN a ELSE a - hist_rows
    BY <1>2, OneLap
  <2> QED
    BY <1>1, <1>2, <2>1, <2>2
<1> QED
  BY <1>1, <1>2, <1>3 DEF RingRow

\* Two rows of the text are two rows of the ring.
LEMMA RingRowInjective ==
  ASSUME NEW f \in BufferType, NEW i \in 0..(hist_rows - 1), NEW j \in 0..(hist_rows - 1), i # j
  PROVE  RingRow(f, i) # RingRow(f, j)
<1>1. f.base \in 0..(hist_rows - 1)
  BY DEF BufferType
<1> QED
  BY <1>1, RingRowType, HistRows

\* The text of a buffer is a sequence of rows.
LEMMA LinesType ==
  ASSUME NEW f \in BufferType
  PROVE  /\ Lines(f) \in Seq([ColIndices -> Cell]) /\ Len(Lines(f)) = f.count
         /\ Lines(f) \in [1..f.count -> [ColIndices -> Cell]]
         /\ \A i \in 1..f.count : Lines(f)[i] = f.content[RingRow(f, i - 1)]
<1>1. f.count \in Nat /\ f.count <= hist_rows /\ f.content \in [0..(hist_rows - 1) -> [ColIndices -> Cell]]
  BY HistRows DEF BufferType
<1>2. ASSUME NEW i \in 1..f.count PROVE logical_row(f, i - 1) \in [ColIndices -> Cell]
  <2>1. i - 1 \in 0..(hist_rows - 1)
    BY <1>1, HistRows
  <2> QED
    BY <1>1, <2>1, RingRowType DEF logical_row
<1>3. Lines(f) \in [1..f.count -> [ColIndices -> Cell]]
  BY <1>2 DEF Lines
<1>4. Lines(f) \in Seq([ColIndices -> Cell])
  <2>1. \E n \in Nat : Lines(f) \in [1..n -> [ColIndices -> Cell]]
    BY <1>1, <1>3
  <2> QED
    BY <2>1, SeqDef
<1>5. \A i \in 1..f.count : Lines(f)[i] = f.content[RingRow(f, i - 1)]
  BY DEF Lines, logical_row
<1>6. Len(Lines(f)) = f.count
  BY <1>1, <1>3, <1>4
<1> QED
  BY <1>3, <1>4, <1>5, <1>6

\* An empty row is a row.
LEMMA EmptyRowType == EmptyRow \in [ColIndices -> Cell]
  BY DEF EmptyRow, Cell

\* content_scroll_up, field by field.
LEMMA ScrollUpFields ==
  ASSUME NEW f \in BufferType
  PROVE  \E g \in BufferType :
           /\ g = content_scroll_up(f)
           /\ g.view_offset = f.view_offset /\ g.cursor = f.cursor
           /\ g.count = IF f.count < hist_rows THEN f.count + 1 ELSE f.count
           /\ g.base = IF f.count < hist_rows THEN f.base ELSE (f.base + 1) % hist_rows
           /\ g.content = [f.content EXCEPT ![RingRow(g, g.count - 1)] = EmptyRow]
<1> DEFINE n == IF f.count < hist_rows THEN f.count + 1 ELSE f.count
           b == IF f.count < hist_rows THEN f.base ELSE (f.base + 1) % hist_rows
           h == [content |-> f.content, base |-> b, count |-> n,
                 view_offset |-> f.view_offset, cursor |-> f.cursor]
           g == [content |-> [f.content EXCEPT ![RingRow(h, n - 1)] = EmptyRow], base |-> b,
                 count |-> n, view_offset |-> f.view_offset, cursor |-> f.cursor]
<1>1. /\ f.content \in [0..(hist_rows - 1) -> [ColIndices -> Cell]]
      /\ f.base \in 0..(hist_rows - 1) /\ f.count \in rows..hist_rows
      /\ f.view_offset \in Nat /\ f.cursor \in [x : 0..cols, y : 0..rows]
      /\ f = [content |-> f.content, base |-> f.base, count |-> f.count,
              view_offset |-> f.view_offset, cursor |-> f.cursor]
  BY DEF BufferType
<1>2. b \in 0..(hist_rows - 1) /\ n \in rows..hist_rows /\ n \in 1..hist_rows
  <2>1. (f.base + 1) % hist_rows \in 0..(hist_rows - 1)
    BY <1>1, HistRows
  <2> QED
    BY <1>1, <2>1, HistRows
<1>3. h = IF f.count < hist_rows THEN [f EXCEPT !.count = @ + 1]
          ELSE [f EXCEPT !.base = (@ + 1) % hist_rows]
  <2> HIDE DEF hist_rows
  <2>1. CASE f.count < hist_rows
    BY <1>1, <2>1
  <2>2. CASE ~(f.count < hist_rows)
    BY <1>1, <2>2
  <2> QED
    BY <2>1, <2>2
<1> HIDE DEF n, b
<1>4. h \in BufferType
  BY <1>1, <1>2 DEF BufferType
<1>5. RingRow(h, n - 1) \in 0..(hist_rows - 1)
  <2>1. n - 1 \in 0..(hist_rows - 1)
    BY <1>2, HistRows
  <2> QED
    BY <1>4, <2>1, RingRowType
<1>6. [f.content EXCEPT ![RingRow(h, n - 1)] = EmptyRow] \in [0..(hist_rows - 1) -> [ColIndices -> Cell]]
  BY <1>1, <1>5, EmptyRowType
<1>7. g \in BufferType
  BY <1>1, <1>2, <1>6 DEF BufferType
<1>8. content_scroll_up(f) = g
  <2>1. content_scroll_up(f) = [h EXCEPT !.content[RingRow(h, h.count - 1)] = EmptyRow]
    BY <1>3 DEF content_scroll_up
  <2>2. h.count = n
    OBVIOUS
  <2> QED
    BY <2>1, <2>2
<1>9. RingRow(h, n - 1) = RingRow(g, g.count - 1)
  BY DEF RingRow
<1> QED
  BY <1>7, <1>8, <1>9 DEF n, b

\* Scrolling the ring appends an empty line to the text and drops the oldest
\* one when the history is full.
LEMMA ScrollUpLines ==
  ASSUME NEW f \in BufferType
  PROVE  Lines(content_scroll_up(f)) = Abstract!Kept(Append(Lines(f), Abstract!EmptyLine))
<1> DEFINE Row == [ColIndices -> Cell]
<1>0. hist_rows \in Nat /\ hist_rows >= 1
  BY HistRows
<1> USE <1>0
<1>1. PICK g \in BufferType :
        /\ g = content_scroll_up(f)
        /\ g.view_offset = f.view_offset /\ g.cursor = f.cursor
        /\ g.count = IF f.count < hist_rows THEN f.count + 1 ELSE f.count
        /\ g.base = IF f.count < hist_rows THEN f.base ELSE (f.base + 1) % hist_rows
        /\ g.content = [f.content EXCEPT ![RingRow(g, g.count - 1)] = EmptyRow]
  BY ScrollUpFields
<1>2. /\ f.count \in Nat /\ f.count <= hist_rows /\ f.count >= 1 /\ f.base \in 0..(hist_rows - 1)
      /\ f.content \in [0..(hist_rows - 1) -> Row]
      /\ g.base \in 0..(hist_rows - 1) /\ g.count \in Nat
  BY HistRows DEF BufferType
<1>3. Abstract!EmptyLine = EmptyRow /\ EmptyRow \in Row
  BY EmptyRowType DEF Abstract!EmptyLine, EmptyRow, ColIndices
<1>4. /\ Lines(f) \in Seq(Row) /\ Len(Lines(f)) = f.count
      /\ \A i \in 1..f.count : Lines(f)[i] = f.content[RingRow(f, i - 1)]
  BY LinesType
<1>5. /\ Lines(g) \in Seq(Row) /\ Len(Lines(g)) = g.count
      /\ \A i \in 1..g.count : Lines(g)[i] = g.content[RingRow(g, i - 1)]
  BY LinesType
<1> DEFINE L == Append(Lines(f), EmptyRow)
<1>6. /\ L \in Seq(Row) /\ Len(L) = f.count + 1 /\ L[f.count + 1] = EmptyRow
      /\ \A i \in 1..f.count : L[i] = f.content[RingRow(f, i - 1)]
  BY <1>2, <1>3, <1>4
<1>7. g.count - 1 \in 0..(hist_rows - 1) /\ g.count \in 1..hist_rows
  BY <1>1, <1>2
<1>8. Lines(g)[g.count] = EmptyRow
  <2>1. RingRow(g, g.count - 1) \in 0..(hist_rows - 1)
    BY <1>7, RingRowType
  <2>2. g.content[RingRow(g, g.count - 1)] = EmptyRow
    BY <1>1, <1>2, <2>1
  <2>3. g.count \in 1..g.count
    BY <1>2, <1>7
  <2> QED
    BY <1>5, <2>2, <2>3
<1>9. ASSUME NEW i \in 1..(g.count - 1) PROVE Lines(g)[i] = f.content[RingRow(g, i - 1)]
  <2>1. i \in 1..g.count /\ i - 1 \in 0..(hist_rows - 1) /\ i - 1 # g.count - 1
    BY <1>7
  <2>2. RingRow(g, i - 1) # RingRow(g, g.count - 1) /\ RingRow(g, i - 1) \in 0..(hist_rows - 1)
    BY <1>7, <2>1, RingRowInjective, RingRowType
  <2> QED
    BY <1>1, <1>2, <1>5, <2>1, <2>2
<1> HIDE DEF L
<1>10. CASE f.count < hist_rows
  <2>1. Abstract!Kept(L) = L
    BY <1>2, <1>6, <1>10, HistRows DEF Abstract!Kept
  <2>2. \A i \in 0..(hist_rows - 1) : RingRow(g, i) = RingRow(f, i)
    BY <1>1, <1>10 DEF RingRow
  <2>3. g.count = f.count + 1
    BY <1>1, <1>10
  <2>4. \A i \in 1..g.count : Lines(g)[i] = L[i]
    <3> SUFFICES ASSUME NEW i \in 1..g.count PROVE Lines(g)[i] = L[i]
      OBVIOUS
    <3>1. CASE i = g.count
      BY <1>6, <1>8, <2>3, <3>1
    <3>2. CASE i # g.count
      <4>1. i \in 1..(g.count - 1) /\ i \in 1..f.count /\ i - 1 \in 0..(hist_rows - 1)
        BY <1>2, <2>3, <3>2
      <4> QED
        BY <1>6, <1>9, <2>2, <4>1
    <3> QED
      BY <3>1, <3>2
  <2>5. Lines(g) = L
    BY <1>5, <1>6, <2>3, <2>4, SeqEqual
  <2> QED
    BY <1>1, <1>3, <2>1, <2>5 DEF L
<1>11. CASE ~(f.count < hist_rows)
  <2>1. Abstract!Kept(L) = Tail(L) /\ f.count = hist_rows /\ g.count = hist_rows
    BY <1>1, <1>2, <1>6, <1>11, HistRows DEF Abstract!Kept
  <2>2. Tail(L) \in Seq(Row) /\ Len(Tail(L)) = hist_rows /\ \A i \in 1..hist_rows : Tail(L)[i] = L[i + 1]
    BY <1>2, <1>6, <2>1, HistRows
  <2>3. ASSUME NEW i \in 1..(hist_rows - 1) PROVE RingRow(g, i - 1) = RingRow(f, i)
    <3>0. /\ hist_rows \in Nat \ {0} /\ i - 1 \in 0..(hist_rows - 1) /\ i \in 0..(hist_rows - 1)
          /\ i \in Nat
      BY HistRows
    <3>1. g.base = IF f.base + 1 < hist_rows THEN f.base + 1 ELSE f.base + 1 - hist_rows
      <4>1. PICK h : h = hist_rows
        OBVIOUS
      <4>2. PICK a \in 0..(2 * h - 1) : a = f.base + 1
        BY <1>2, <3>0, <4>1, SMTT(30)
      <4>3. a % h = IF a < h THEN a ELSE a - h
        BY <3>0, <4>1, OneLap
      <4>4. g.base = a % h
        BY <1>1, <1>11, <4>1, <4>2
      <4> QED
        BY <1>2, <3>0, <4>1, <4>2, <4>3, <4>4, SMTT(30)
    <3>2. RingRow(f, i) = IF f.base + i < hist_rows THEN f.base + i ELSE f.base + i - hist_rows
      BY <3>0, RingRowType
    <3>3. RingRow(g, i - 1) = IF g.base + (i - 1) < hist_rows THEN g.base + (i - 1)
                              ELSE g.base + (i - 1) - hist_rows
      BY <3>0, RingRowType
    <3>4. CASE f.base + 1 < hist_rows
      <4>1. g.base = f.base + 1
        BY <3>1, <3>4
      <4>2. g.base + (i - 1) = f.base + i
        BY <1>2, <3>0, <4>1
      <4> QED
        BY <1>2, <3>0, <3>2, <3>3, <4>1
    <3>5. CASE ~(f.base + 1 < hist_rows)
      <4>1. f.base = hist_rows - 1 /\ g.base = 0
        BY <1>2, <3>1, <3>5
      <4>2. RingRow(g, i - 1) = i - 1
        BY <3>0, <3>3, <4>1
      <4>3. RingRow(f, i) = i - 1
        BY <3>0, <3>2, <4>1
      <4> QED
        BY <4>2, <4>3
    <3> QED
      BY <3>4, <3>5
  <2>4. \A i \in 1..hist_rows : Lines(g)[i] = Tail(L)[i]
    <3> SUFFICES ASSUME NEW i \in 1..hist_rows PROVE Lines(g)[i] = Tail(L)[i]
      OBVIOUS
    <3>1. CASE i = hist_rows
      BY <1>6, <1>8, <2>1, <2>2, <3>1
    <3>2. CASE i # hist_rows
      <4>1. i \in 1..(g.count - 1) /\ i + 1 \in 1..f.count /\ (i + 1) - 1 = i
        BY <1>2, <2>1, <3>2
      <4>2. L[i + 1] = f.content[RingRow(f, i)]
        BY <1>6, <4>1
      <4> QED
        BY <1>9, <2>1, <2>2, <2>3, <4>1, <4>2
    <3> QED
      BY <3>1, <3>2
  <2>5. Lines(g) = Tail(L)
    BY <1>5, <2>1, <2>2, <2>4, SeqEqual
  <2> QED
    BY <1>1, <1>3, <2>1, <2>5 DEF L
<1> QED
  BY <1>10, <1>11

-----------------------------------------------------------------------------
(***************************************************************************)
(* What the calls do to the text.                                          *)
(***************************************************************************)
\* A line feed, from a cursor that may be one column too far.
LEMMA NewlineText ==
  ASSUME NEW f \in BufferType, f.cursor.y < rows, f.view_offset = 0
  PROVE  Sound(newline(f)) /\ newline(f).view_offset = 0
         /\ TextOf(newline(f)) = Abstract!LineFeed(TextOf(f))
         /\ newline(f).cursor = [x |-> 0, y |-> IF f.cursor.y + 1 < rows THEN f.cursor.y + 1
                                              ELSE f.cursor.y]
<1> DEFINE down == [f EXCEPT !.cursor.x = 0, !.cursor.y = @ + 1]
<1>1. /\ f.content \in [0..(hist_rows - 1) -> [ColIndices -> Cell]]
      /\ f.base \in 0..(hist_rows - 1) /\ f.count \in rows..hist_rows
      /\ f.view_offset \in Nat /\ f.cursor \in [x : 0..cols, y : 0..rows]
      /\ f = [content |-> f.content, base |-> f.base, count |-> f.count,
              view_offset |-> f.view_offset, cursor |-> f.cursor]
      /\ f.cursor.y \in Nat
  BY HistRows DEF BufferType
<1>2. down = [content |-> f.content, base |-> f.base, count |-> f.count,
              view_offset |-> f.view_offset, cursor |-> [x |-> 0, y |-> f.cursor.y + 1]]
  <2> DEFINE mid == [f EXCEPT !.cursor.x = 0]
  <2>1. f.cursor = [x |-> f.cursor.x, y |-> f.cursor.y]
    BY <1>1
  <2>2. mid = [content |-> f.content, base |-> f.base, count |-> f.count,
               view_offset |-> f.view_offset, cursor |-> [x |-> 0, y |-> f.cursor.y]]
    BY <1>1, <2>1
  <2>3. down = [mid EXCEPT !.cursor.y = @ + 1]
    BY <1>1
  <2> HIDE DEF mid
  <2> QED
    BY <2>2, <2>3
<1>3. down \in BufferType
  <2>1. [x |-> 0, y |-> f.cursor.y + 1] \in [x : 0..cols, y : 0..rows]
    BY <1>1, HistRows
  <2> QED
    BY <1>1, <1>2, <2>1 DEF BufferType
<1>4. Lines(down) = Lines(f) /\ down.cursor = [x |-> 0, y |-> f.cursor.y + 1] /\ down.view_offset = 0
  BY <1>2 DEF Lines, logical_row, RingRow
<1>5. newline(f) = IF f.cursor.y + 1 < rows THEN down ELSE [content_scroll_up(down) EXCEPT !.cursor.y = @ - 1]
  <2>1. newline(f) = IF down.cursor.y < rows THEN down
                     ELSE [content_scroll_up(down) EXCEPT !.cursor.y = @ - 1]
    BY DEF newline
  <2> HIDE DEF down
  <2> QED
    BY <1>4, <2>1
<1> HIDE DEF down
<1>6. CASE f.cursor.y + 1 < rows
  <2>1. newline(f) = down
    BY <1>5, <1>6
  <2>2. Abstract!LineFeed(TextOf(f)) = [TextOf(f) EXCEPT !.x = 0, !.y = @ + 1]
    BY <1>6 DEF Abstract!LineFeed, TextOf
  <2>3. TextOf(down) = [TextOf(f) EXCEPT !.x = 0, !.y = @ + 1]
    <3>1. TextOf(down) = [lines |-> Lines(f), x |-> 0, y |-> f.cursor.y + 1]
      BY <1>4 DEF TextOf
    <3>2. [TextOf(f) EXCEPT !.x = 0, !.y = @ + 1] = [lines |-> Lines(f), x |-> 0, y |-> f.cursor.y + 1]
      <4> DEFINE t == TextOf(f)
                 mid == [t EXCEPT !.x = 0]
      <4>1. t = [lines |-> Lines(f), x |-> f.cursor.x, y |-> f.cursor.y]
        BY DEF TextOf
      <4> HIDE DEF t
      <4>2. mid = [lines |-> Lines(f), x |-> 0, y |-> f.cursor.y]
        BY <4>1
      <4>3. [t EXCEPT !.x = 0, !.y = @ + 1] = [mid EXCEPT !.y = t.y + 1]
        OBVIOUS
      <4> HIDE DEF mid
      <4>4. [t EXCEPT !.x = 0, !.y = @ + 1] = [lines |-> Lines(f), x |-> 0, y |-> f.cursor.y + 1]
        BY <4>1, <4>2, <4>3
      <4> QED
        BY <4>4 DEF t
    <3> QED
      BY <3>1, <3>2
  <2>4. Sound(down)
    BY <1>1, <1>2, <1>3, <1>4, <1>6, HistRows DEF Sound
  <2> QED
    BY <1>4, <1>6, <2>1, <2>2, <2>3, <2>4
<1>7. CASE ~(f.cursor.y + 1 < rows)
  <2>1. PICK g \in BufferType :
          /\ g = content_scroll_up(down)
          /\ g.view_offset = down.view_offset /\ g.cursor = down.cursor
          /\ g.count = IF down.count < hist_rows THEN down.count + 1 ELSE down.count
          /\ g.base = IF down.count < hist_rows THEN down.base ELSE (down.base + 1) % hist_rows
          /\ g.content = [down.content EXCEPT ![RingRow(g, g.count - 1)] = EmptyRow]
    BY <1>3, ScrollUpFields
  <2>2. g = [content |-> g.content, base |-> g.base, count |-> g.count,
             view_offset |-> 0, cursor |-> [x |-> 0, y |-> f.cursor.y + 1]]
    BY <1>4, <2>1 DEF BufferType
  <2>3. newline(f) = [g EXCEPT !.cursor.y = @ - 1]
    BY <1>5, <1>7, <2>1
  <2>4. newline(f) = [content |-> g.content, base |-> g.base, count |-> g.count,
                      view_offset |-> 0, cursor |-> [x |-> 0, y |-> f.cursor.y]]
    BY <1>1, <2>2, <2>3
  <2>5. Sound(newline(f)) /\ newline(f).view_offset = 0
    <3>1. [x |-> 0, y |-> f.cursor.y] \in [x : 0..cols, y : 0..rows]
      BY <1>1, HistRows
    <3>2. newline(f) \in BufferType
      BY <2>4, <3>1 DEF BufferType
    <3>3. g.count - rows >= 0
      BY HistRows DEF BufferType
    <3> QED
      BY <2>4, <3>2, <3>3, HistRows DEF Sound
  <2>6. Lines(newline(f)) = Lines(g)
    BY <2>4 DEF Lines, logical_row, RingRow
  <2>7. Lines(g) = Abstract!Kept(Append(Lines(f), Abstract!EmptyLine))
    BY <1>3, <1>4, <2>1, ScrollUpLines
  <2>8. Abstract!LineFeed(TextOf(f)) =
          [TextOf(f) EXCEPT !.x = 0, !.lines = Abstract!Kept(Append(@, Abstract!EmptyLine))]
    BY <1>7 DEF Abstract!LineFeed, TextOf
  <2>9. Abstract!LineFeed(TextOf(f)) =
          [lines |-> Abstract!Kept(Append(Lines(f), Abstract!EmptyLine)), x |-> 0, y |-> f.cursor.y]
    BY <2>8 DEF TextOf
  <2>10. TextOf(newline(f)) = [lines |-> Lines(g), x |-> 0, y |-> f.cursor.y]
    BY <2>4, <2>6 DEF TextOf
  <2> QED
    BY <1>7, <2>4, <2>5, <2>7, <2>9, <2>10
<1> QED
  BY <1>6, <1>7

\* The buffer with c at the cursor, and the cursor one column further.
Moved(f, c) == [content_put(f, f.cursor.x, f.cursor.y, c) EXCEPT !.cursor.x = @ + 1]

\* Module Terminal's text with c at the cursor, and the cursor one column further.
Placed(t, c) == [t EXCEPT !.lines[Len(t.lines) - rows + t.y + 1][t.x] = c, !.x = @ + 1]

\* The row of the ring in which the cursor stands.
CursorRow(f) == RingRow(f, f.count - rows + f.cursor.y)

\* What writing a character changes.
LEMMA MovedFields ==
  ASSUME NEW f, Sound(f), NEW c \in Cell
  PROVE  /\ Moved(f, c) \in BufferType
         /\ CursorRow(f) \in 0..(hist_rows - 1)
         /\ Moved(f, c) =
              [content |-> [f.content EXCEPT ![CursorRow(f)] = [f.content[CursorRow(f)] EXCEPT ![f.cursor.x] = c]],
               base |-> f.base, count |-> f.count, view_offset |-> f.view_offset,
               cursor |-> [x |-> f.cursor.x + 1, y |-> f.cursor.y]]
<1>1. /\ f.content \in [0..(hist_rows - 1) -> [ColIndices -> Cell]]
      /\ f.base \in 0..(hist_rows - 1) /\ f.count \in rows..hist_rows
      /\ f.view_offset \in Nat /\ f.cursor \in [x : 0..cols, y : 0..rows]
      /\ f = [content |-> f.content, base |-> f.base, count |-> f.count,
              view_offset |-> f.view_offset, cursor |-> f.cursor]
      /\ f.cursor.x \in ColIndices /\ f.cursor.y \in RowIndices
      /\ f.cursor = [x |-> f.cursor.x, y |-> f.cursor.y]
  BY HistRows DEF Sound, BufferType, ColIndices, RowIndices
<1>2. f.count - rows + f.cursor.y \in 0..(hist_rows - 1)
  BY <1>1, HistRows DEF RowIndices
<1>3. CursorRow(f) \in 0..(hist_rows - 1)
  BY <1>2, RingRowType DEF CursorRow, Sound
<1> DEFINE k == CursorRow(f)
           row == [f.content[k] EXCEPT ![f.cursor.x] = c]
           content == [f.content EXCEPT ![k] = row]
<1>4. row \in [ColIndices -> Cell]
  BY <1>1, <1>3
<1>5. content \in [0..(hist_rows - 1) -> [ColIndices -> Cell]]
  <2> HIDE DEF row
  <2> QED
    BY <1>1, <1>3, <1>4
<1> DEFINE written == [f EXCEPT !.content[k][f.cursor.x] = c]
<1>6. content_put(f, f.cursor.x, f.cursor.y, c) = written
  <2>1. ~(f.cursor.y >= rows \/ f.cursor.x >= cols)
    BY <1>1, HistRows DEF RowIndices, ColIndices
  <2> QED
    BY <2>1 DEF content_put, CursorRow
<1>7. written = [content |-> content, base |-> f.base, count |-> f.count,
                 view_offset |-> f.view_offset, cursor |-> f.cursor]
  BY <1>1
<1> HIDE DEF content, written, row, k
<1>8. Moved(f, c) = [content |-> content, base |-> f.base, count |-> f.count,
                     view_offset |-> f.view_offset, cursor |-> [x |-> f.cursor.x + 1, y |-> f.cursor.y]]
  BY <1>1, <1>6, <1>7 DEF Moved
<1>9. [x |-> f.cursor.x + 1, y |-> f.cursor.y] \in [x : 0..cols, y : 0..rows]
  BY <1>1, HistRows DEF RowIndices, ColIndices
<1>10. Moved(f, c) \in BufferType
  BY <1>1, <1>5, <1>8, <1>9 DEF BufferType
<1> QED
  BY <1>3, <1>8, <1>10 DEF content, row, k

\* The text afterwards has the character at the cursor.
LEMMA MovedText ==
  ASSUME NEW f, Sound(f), NEW c \in Cell
  PROVE  TextOf(Moved(f, c)) = Placed(TextOf(f), c)
<1> DEFINE Row == [ColIndices -> Cell]
           g == Moved(f, c)
           n == f.count - rows + f.cursor.y + 1
           k == CursorRow(f)
           row == [f.content[k] EXCEPT ![f.cursor.x] = c]
<1>0. f \in BufferType /\ hist_rows \in Nat /\ rows \in Nat /\ rows <= hist_rows
  BY HistRows DEF Sound
<1>1. /\ f.content \in [0..(hist_rows - 1) -> Row] /\ f.count \in rows..hist_rows
      /\ f.cursor.x \in ColIndices /\ f.cursor.y \in RowIndices
  BY HistRows DEF Sound, BufferType, ColIndices, RowIndices
<1>2. /\ g \in BufferType /\ k \in 0..(hist_rows - 1)
      /\ g = [content |-> [f.content EXCEPT ![k] = row],
              base |-> f.base, count |-> f.count, view_offset |-> f.view_offset,
              cursor |-> [x |-> f.cursor.x + 1, y |-> f.cursor.y]]
  BY MovedFields
<1> HIDE DEF g, row
<1>3. /\ Lines(f) \in Seq(Row) /\ Len(Lines(f)) = f.count /\ Lines(f) \in [1..f.count -> Row]
      /\ \A i \in 1..f.count : Lines(f)[i] = f.content[RingRow(f, i - 1)]
  BY <1>0, LinesType
<1>4. /\ Lines(g) \in Seq(Row) /\ Len(Lines(g)) = g.count
      /\ \A i \in 1..g.count : Lines(g)[i] = g.content[RingRow(g, i - 1)]
  BY <1>2, LinesType
<1>5. g.count = f.count /\ g.base = f.base /\ g.cursor = [x |-> f.cursor.x + 1, y |-> f.cursor.y]
      /\ g.content = [f.content EXCEPT ![k] = row]
  BY <1>2
<1>6. \A i \in 0..(hist_rows - 1) : RingRow(g, i) = RingRow(f, i)
  BY <1>5 DEF RingRow
<1>7. n \in 1..f.count /\ n - 1 \in 0..(hist_rows - 1) /\ k = RingRow(f, n - 1) /\ n = Len(Lines(f)) - rows + f.cursor.y + 1
  <2>1. n - 1 = f.count - rows + f.cursor.y
    BY <1>0, <1>1 DEF RowIndices
  <2>2. k = RingRow(f, n - 1)
    BY <2>1 DEF CursorRow
  <2>3. n = Len(Lines(f)) - rows + f.cursor.y + 1
    BY <1>3
  <2>4. n \in 1..f.count /\ n - 1 \in 0..(hist_rows - 1)
    BY <1>0, <1>1 DEF RowIndices
  <2> QED
    BY <2>2, <2>3, <2>4
<1>8. row = [Lines(f)[n] EXCEPT ![f.cursor.x] = c]
  BY <1>3, <1>7 DEF row
<1> HIDE DEF n, k
<1>9. [Lines(f) EXCEPT ![n] = row] \in Seq(Row) /\ Len([Lines(f) EXCEPT ![n] = row]) = f.count
  <2>1. row \in Row
    BY <1>1, <1>2 DEF row
  <2> QED
    BY <1>3, <1>7, <2>1
<1>10. ASSUME NEW i \in 1..f.count PROVE Lines(g)[i] = [Lines(f) EXCEPT ![n] = row][i]
  <2>0. i - 1 \in 0..(hist_rows - 1) /\ i \in 1..Len(Lines(f))
    BY <1>0, <1>1, <1>3
  <2>1. Lines(g)[i] = [f.content EXCEPT ![k] = row][RingRow(f, i - 1)] /\ RingRow(f, i - 1) \in 0..(hist_rows - 1)
    BY <1>0, <1>4, <1>5, <1>6, <2>0, RingRowType
  <2>2. CASE i = n
    <3>1. RingRow(f, i - 1) = k
      BY <1>7, <2>2
    <3>2. Lines(g)[i] = row
      BY <1>1, <1>2, <2>1, <3>1
    <3> QED
      BY <1>3, <2>2, <3>2
  <2>3. CASE i # n
    <3>1. i - 1 # n - 1
      BY <1>0, <1>1, <1>7, <2>3
    <3>2. RingRow(f, i - 1) # k
      BY <1>0, <1>7, <2>0, <3>1, RingRowInjective
    <3>3. [f.content EXCEPT ![k] = row][RingRow(f, i - 1)] = f.content[RingRow(f, i - 1)]
      BY <1>1, <2>1, <3>2
    <3> QED
      BY <1>3, <2>0, <2>1, <2>3, <3>3
  <2> QED
    BY <2>2, <2>3
<1>11. Lines(g) = [Lines(f) EXCEPT ![n] = row]
  <2> DEFINE L == [Lines(f) EXCEPT ![n] = row]
  <2>1. L \in Seq(Row) /\ Len(L) = Len(Lines(g))
    BY <1>4, <1>5, <1>9
  <2>2. \A i \in 1..Len(Lines(g)) : Lines(g)[i] = L[i]
    BY <1>4, <1>5, <1>10
  <2> HIDE DEF L
  <2>3. Lines(g) = L
    BY <1>4, <2>1, <2>2, SeqEqual
  <2> QED
    BY <2>3 DEF L
<1>12. TextOf(g) = [lines |-> [Lines(f) EXCEPT ![n] = row], x |-> f.cursor.x + 1, y |-> f.cursor.y]
  BY <1>5, <1>11 DEF TextOf
<1>13. Placed(TextOf(f), c) = [lines |-> [Lines(f) EXCEPT ![n] = row], x |-> f.cursor.x + 1, y |-> f.cursor.y]
  <2> DEFINE t == TextOf(f)
             mid == [t EXCEPT !.lines[n][f.cursor.x] = c]
  <2>1. t = [lines |-> Lines(f), x |-> f.cursor.x, y |-> f.cursor.y]
    BY DEF TextOf
  <2> HIDE DEF t
  <2>2. t.lines = Lines(f) /\ t.x = f.cursor.x /\ t.y = f.cursor.y /\ Len(t.lines) - rows + t.y + 1 = n
    BY <1>7, <2>1
  <2>3. Placed(t, c) = [mid EXCEPT !.x = t.x + 1]
    BY <2>2 DEF Placed
  <2>4. mid = [lines |-> [Lines(f) EXCEPT ![n] = row], x |-> f.cursor.x, y |-> f.cursor.y]
    BY <1>8, <2>1, <2>2, SMTT(30)
  <2> HIDE DEF mid
  <2>5. Placed(t, c) = [lines |-> [Lines(f) EXCEPT ![n] = row], x |-> f.cursor.x + 1, y |-> f.cursor.y]
    BY <2>2, <2>3, <2>4
  <2> QED
    BY <2>5 DEF t
<1> QED
  BY <1>12, <1>13 DEF g

\* write_char of a printing character on the text.
LEMMA PutText ==
  ASSUME NEW f, Sound(f), f.view_offset = 0, NEW c \in Cell, c # "\n"
  PROVE  /\ Sound(Put(f, c)) /\ Put(f, c).view_offset = 0
         /\ Put(f, c) = IF f.cursor.x + 1 >= cols THEN newline(Moved(f, c)) ELSE Moved(f, c)
         /\ TextOf(Put(f, c)) = Abstract!Written(TextOf(f), c)
<1> DEFINE g == Moved(f, c)
<1>0. f \in BufferType /\ f.cursor.x \in Nat /\ f.cursor.x < cols /\ f.cursor.y < rows
      /\ f.count - rows >= 0 /\ f.cursor.y \in Nat
  BY HistRows DEF Sound, BufferType
<1>1. /\ g \in BufferType /\ g.cursor = [x |-> f.cursor.x + 1, y |-> f.cursor.y]
      /\ g.view_offset = 0 /\ g.count = f.count
  BY MovedFields
<1>2. TextOf(g) = Placed(TextOf(f), c)
  BY MovedText
<1>3. Put(f, c) = IF g.cursor.x >= cols THEN newline(g) ELSE g
  BY DEF Put, Moved
<1>4. Abstract!Written(TextOf(f), c) = IF Placed(TextOf(f), c).x < cols THEN Placed(TextOf(f), c)
                                       ELSE Abstract!LineFeed(Placed(TextOf(f), c))
  BY DEF Abstract!Written, Placed
<1>5. TextOf(g).x = f.cursor.x + 1 /\ g.cursor.x = f.cursor.x + 1
  BY <1>1 DEF TextOf
<1> HIDE DEF g
<1>6. CASE f.cursor.x + 1 >= cols
  <2>1. Put(f, c) = newline(g)
    BY <1>3, <1>5, <1>6
  <2>2. Abstract!Written(TextOf(f), c) = Abstract!LineFeed(TextOf(g))
    BY <1>0, <1>2, <1>4, <1>5, <1>6, HistRows
  <2>3. g.cursor.y < rows
    BY <1>0, <1>1
  <2> QED
    BY <1>1, <1>6, <2>1, <2>2, <2>3, NewlineText DEF g
<1>7. CASE ~(f.cursor.x + 1 >= cols)
  <2>1. Put(f, c) = g
    BY <1>3, <1>5, <1>7
  <2>2. Abstract!Written(TextOf(f), c) = TextOf(g)
    BY <1>0, <1>2, <1>4, <1>5, <1>7, HistRows
  <2>3. Sound(g)
    BY <1>0, <1>1, <1>7, HistRows DEF Sound
  <2> QED
    BY <1>1, <1>7, <2>1, <2>2, <2>3 DEF g
<1> QED
  BY <1>6, <1>7

-----------------------------------------------------------------------------
(***************************************************************************)
(* Drawing.                                                                *)
(***************************************************************************)
Shade == Cell \cup {Cursor, Indicator, Mixed}
Screens == [RowIndices -> [ColIndices -> Shade]]

\* The character at row r of the last screenful of the text of f.
Bottom(f, r) == Lines(f)[f.count - rows + r + 1]

\* What the window of f shows at row r and column c.
Glyph(f, r, c) ==
  IF f.view_offset # 0
  THEN IF r = rows - 1 THEN Indicator ELSE Lines(f)[f.count - rows - f.view_offset + r + 1][c]
  ELSE IF r = f.cursor.y /\ c = f.cursor.x THEN Cursor ELSE Bottom(f, r)[c]

\* The screen shows the window of f, except that a cell may be black if e.
Shows(scr, f, e) ==
  /\ scr \in Screens
  /\ \A r \in RowIndices, c \in ColIndices :
       scr[r][c] = Glyph(f, r, c) \/ (e /\ scr[r][c] = Blank)

\* Nothing has been written from the cursor on.
Fresh(f) ==
  \A r \in RowIndices, c \in ColIndices :
    r > f.cursor.y \/ (r = f.cursor.y /\ c >= f.cursor.x) => Bottom(f, r)[c] = Blank

FInv ==
  /\ active_index \in Buffers /\ erased \subseteq Buffers
  /\ fb \in [Buffers -> BufferType]
  /\ \A b \in Buffers : Sound(fb[b])
  /\ \A b \in Buffers \ erased : Fresh(fb[b])
  /\ Shows(monitor, fb[active_index], active_index \in erased)

-----------------------------------------------------------------------------
(***************************************************************************)
(* A full redraw and the picture of module Terminal are the same screen.   *)
(***************************************************************************)
\* os_vbuf_visible_row is a line of the text.
LEMMA VisibleRow ==
  ASSUME NEW f, Sound(f), NEW r \in RowIndices
  PROVE  /\ f.count - rows - f.view_offset + r + 1 \in 1..f.count
         /\ os_vbuf_visible_row(f, r) = Lines(f)[f.count - rows - f.view_offset + r + 1]
         /\ os_vbuf_visible_row(f, r) \in [ColIndices -> Cell]
         /\ f.count - rows + r + 1 \in 1..f.count
         /\ Bottom(f, r) \in [ColIndices -> Cell]
<1>1. /\ f \in BufferType /\ f.count \in Nat /\ f.count >= rows /\ f.view_offset \in Nat
      /\ f.view_offset <= f.count - rows /\ rows \in Nat /\ r \in Nat /\ r < rows
  BY HistRows DEF Sound, BufferType, RowIndices
<1> DEFINE k == f.count - rows - f.view_offset + r + 1
           m == f.count - rows + r + 1
<1>2. k \in 1..f.count /\ k - 1 = f.count - rows - f.view_offset + r /\ m \in 1..f.count
  BY <1>1
<1>3. /\ Lines(f) \in [1..f.count -> [ColIndices -> Cell]]
      /\ \A i \in 1..f.count : Lines(f)[i] = f.content[RingRow(f, i - 1)]
  BY <1>1, LinesType
<1>4. os_vbuf_visible_row(f, r) = f.content[RingRow(f, k - 1)]
  BY <1>2 DEF os_vbuf_visible_row, logical_row
<1>5. os_vbuf_visible_row(f, r) = Lines(f)[k]
  <2> HIDE DEF k
  <2> QED
    BY <1>2, <1>3, <1>4
<1> QED
  BY <1>2, <1>3, <1>5 DEF Bottom

\* Two screens with the same cells are equal.
LEMMA ScreensEqual ==
  ASSUME NEW s \in Screens, NEW t \in Screens,
         \A r \in RowIndices, c \in ColIndices : s[r][c] = t[r][c]
  PROVE  s = t
<1>1. ASSUME NEW r \in RowIndices PROVE s[r] = t[r]
  <2>1. s[r] \in [ColIndices -> Shade] /\ t[r] \in [ColIndices -> Shade]
    BY DEF Screens
  <2> QED
    BY <2>1
<1> QED
  BY <1>1 DEF Screens

\* render_frame_buffer, cell by cell.
LEMMA RenderIs ==
  ASSUME NEW f, Sound(f)
  PROVE  /\ render_frame_buffer(f) \in Screens
         /\ \A r \in RowIndices, c \in ColIndices : render_frame_buffer(f)[r][c] = Glyph(f, r, c)
<1> DEFINE window == [r \in RowIndices |-> os_vbuf_visible_row(f, r)]
<1>1. /\ rows \in Nat \ {0} /\ rows - 1 \in RowIndices /\ f.cursor.y \in RowIndices /\ f.cursor.x \in ColIndices
      /\ f.count \in Nat /\ f.view_offset \in Nat
  BY HistRows DEF Sound, BufferType, RowIndices, ColIndices
<1>2. window \in Screens
  BY VisibleRow DEF Screens, Shade
<1>3. CASE f.view_offset # 0
  <2> DEFINE bar == [c \in ColIndices |-> Indicator]
             scr == [window EXCEPT ![rows - 1] = bar]
  <2>1. render_frame_buffer(f) = scr
    BY <1>3 DEF render_frame_buffer
  <2>2. bar \in [ColIndices -> Shade] /\ \A c \in ColIndices : bar[c] = Indicator
    BY DEF Shade
  <2> HIDE DEF bar
  <2>3. scr \in Screens
    BY <1>1, <1>2, <2>2 DEF Screens
  <2>4. ASSUME NEW r \in RowIndices, NEW c \in ColIndices PROVE scr[r][c] = Glyph(f, r, c)
    <3>1. CASE r = rows - 1
      BY <1>1, <1>2, <1>3, <2>2, <3>1 DEF Glyph, Screens
    <3>2. CASE r # rows - 1
      <4>1. scr[r] = os_vbuf_visible_row(f, r)
        BY <3>2
      <4> QED
        BY <1>3, <3>2, <4>1, VisibleRow DEF Glyph
    <3> QED
      BY <3>1, <3>2
  <2> QED
    BY <2>1, <2>3, <2>4
<1>4. CASE f.view_offset = 0
  <2> DEFINE scr == [window EXCEPT ![f.cursor.y][f.cursor.x] = Cursor]
  <2>1. render_frame_buffer(f) = scr
    BY <1>4 DEF render_frame_buffer, draw_cursor, PaintCursor
  <2>2. \A r \in RowIndices : window[r] = Bottom(f, r) /\ Bottom(f, r) \in [ColIndices -> Cell]
    <3> SUFFICES ASSUME NEW r \in RowIndices
                 PROVE  window[r] = Bottom(f, r) /\ Bottom(f, r) \in [ColIndices -> Cell]
      OBVIOUS
    <3>1. f.count - rows - f.view_offset + r + 1 = f.count - rows + r + 1
      BY <1>1, <1>4 DEF RowIndices
    <3> QED
      BY <3>1, VisibleRow DEF Bottom
  <2> HIDE DEF window
  <2>3. scr \in Screens
    BY <1>1, <1>2 DEF Screens, Shade
  <2>4. ASSUME NEW r \in RowIndices, NEW c \in ColIndices PROVE scr[r][c] = Glyph(f, r, c)
    <3>1. window[r] = Bottom(f, r) /\ window \in Screens
      BY <1>2, <2>2
    <3> QED
      BY <1>1, <1>4, <3>1 DEF Glyph, Screens
  <2> QED
    BY <2>1, <2>3, <2>4
<1> QED
  BY <1>3, <1>4

\* The picture module Terminal promises, cell by cell.
LEMMA PictureIs ==
  ASSUME NEW f, Sound(f)
  PROVE  /\ Abstract!Picture(TextOf(f), f.view_offset) \in Screens
         /\ \A r \in RowIndices, c \in ColIndices :
              Abstract!Picture(TextOf(f), f.view_offset)[r][c] = Glyph(f, r, c)
<1> DEFINE t == TextOf(f)
           u == f.view_offset
           line(r) == t.lines[Len(t.lines) - rows - u + r + 1]
           G(r, c) == CASE u > 0 /\ r = rows - 1 -> Indicator
                        [] u = 0 /\ r = t.y /\ c = t.x -> Cursor
                        [] OTHER -> line(r)[c]
<1>1. /\ rows \in Nat \ {0} /\ f \in BufferType /\ f.count \in Nat /\ u \in Nat
  BY HistRows DEF Sound, BufferType
<1>2. t.lines = Lines(f) /\ t.x = f.cursor.x /\ t.y = f.cursor.y /\ Len(t.lines) = f.count
  BY <1>1, LinesType DEF TextOf
<1>3. Abstract!Picture(t, u) = [r \in RowIndices |-> [c \in ColIndices |-> G(r, c)]]
  BY DEF Abstract!Picture, RowIndices, ColIndices
<1> HIDE DEF t
<1>4. ASSUME NEW r \in RowIndices, NEW c \in ColIndices PROVE G(r, c) = Glyph(f, r, c) /\ G(r, c) \in Shade
  <2>1. line(r) = Lines(f)[f.count - rows - f.view_offset + r + 1]
    BY <1>2
  <2>2. line(r) \in [ColIndices -> Cell]
    BY <2>1, VisibleRow
  <2>3. CASE u > 0
    BY <1>1, <1>2, <2>1, <2>2, <2>3 DEF Glyph, Shade
  <2>4. CASE u = 0
    <3>1. f.count - rows - f.view_offset + r + 1 = f.count - rows + r + 1
      BY <1>1, <2>4 DEF RowIndices
    <3>2. line(r) = Bottom(f, r)
      BY <2>1, <3>1 DEF Bottom
    <3> QED
      BY <1>1, <1>2, <3>2, <2>2, <2>4 DEF Glyph, Shade
  <2> QED
    BY <1>1, <2>3, <2>4
<1> HIDE DEF G
<1>5. Abstract!Picture(t, u) \in Screens
  BY <1>3, <1>4 DEF Screens
<1>6. \A r \in RowIndices, c \in ColIndices : Abstract!Picture(t, u)[r][c] = Glyph(f, r, c)
  BY <1>3, <1>4
<1> QED
  BY <1>5, <1>6 DEF t

\* What is seen of a screen that shows the window of f: with no backspace in
\* f the screen itself, else the screen with its black cells filled in.
LEMMA ShownIsPicture ==
  ASSUME NEW f, Sound(f), NEW scr, NEW e \in BOOLEAN, Shows(scr, f, e)
  PROVE  (IF ~e THEN scr
          ELSE [r \in RowIndices |-> [c \in ColIndices |->
                  IF scr[r][c] = Blank THEN render_frame_buffer(f)[r][c] ELSE scr[r][c]]])
         = Abstract!Picture(TextOf(f), f.view_offset)
<1> DEFINE P == Abstract!Picture(TextOf(f), f.view_offset)
           R == render_frame_buffer(f)
           F == [r \in RowIndices |-> [c \in ColIndices |->
                  IF scr[r][c] = Blank THEN R[r][c] ELSE scr[r][c]]]
<1>1. P \in Screens /\ \A r \in RowIndices, c \in ColIndices : P[r][c] = Glyph(f, r, c)
  BY PictureIs
<1>2. R \in Screens /\ \A r \in RowIndices, c \in ColIndices : R[r][c] = Glyph(f, r, c)
  BY RenderIs
<1>3. scr \in Screens /\ \A r \in RowIndices, c \in ColIndices :
        scr[r][c] = Glyph(f, r, c) \/ (e /\ scr[r][c] = Blank)
  BY DEF Shows
<1> HIDE DEF P, R
<1>4. CASE ~e
  <2>1. scr = P
    BY <1>1, <1>3, <1>4, ScreensEqual
  <2> QED
    BY <1>4, <2>1 DEF P
<1>5. CASE e
  <2>1. ASSUME NEW r \in RowIndices, NEW c \in ColIndices PROVE F[r][c] = Glyph(f, r, c) /\ F[r][c] \in Shade
    <3>1. F[r][c] = IF scr[r][c] = Blank THEN R[r][c] ELSE scr[r][c]
      OBVIOUS
    <3>2. R[r][c] \in Shade /\ scr[r][c] \in Shade
      BY <1>2, <1>3 DEF Screens
    <3> QED
      BY <1>2, <1>3, <3>1, <3>2
  <2>2. F \in Screens
    <3>1. \A r \in RowIndices, c \in ColIndices : (IF scr[r][c] = Blank THEN R[r][c] ELSE scr[r][c]) \in Shade
      BY <2>1
    <3> QED
      BY <3>1 DEF Screens
  <2>3. \A r \in RowIndices, c \in ColIndices : F[r][c] = P[r][c]
    BY <1>1, <2>1
  <2> HIDE DEF F
  <2>4. F = P
    BY <1>1, <2>2, <2>3, ScreensEqual
  <2> QED
    BY <1>5, <2>4 DEF F, P, R
<1> QED
  BY <1>4, <1>5
-----------------------------------------------------------------------------
(***************************************************************************)
(* The last screenful, after each of the calls write_char is made of.      *)
(***************************************************************************)
\* newline moves the last screenful up by one row when the cursor is on the last one.
LEMMA BottomNewline ==
  ASSUME NEW f \in BufferType, f.cursor.y < rows, f.view_offset = 0, NEW r \in RowIndices
  PROVE  Bottom(newline(f), r) = IF f.cursor.y + 1 < rows THEN Bottom(f, r)
                                 ELSE IF r + 1 < rows THEN Bottom(f, r + 1) ELSE EmptyRow
<1> DEFINE g == newline(f)
           Row == [ColIndices -> Cell]
<1>1. /\ f.count \in Nat /\ f.count >= rows /\ f.count <= hist_rows /\ rows \in Nat \ {0} /\ hist_rows \in Nat
      /\ r \in Nat /\ r < rows /\ f.cursor.y \in Nat
  BY HistRows DEF BufferType, RowIndices
<1>2. /\ Lines(f) \in Seq(Row) /\ Len(Lines(f)) = f.count
  BY LinesType
<1>3. g \in BufferType /\ TextOf(g) = Abstract!LineFeed(TextOf(f))
  BY NewlineText DEF Sound
<1>4. Len(Lines(g)) = g.count
  BY <1>3, LinesType
<1> HIDE DEF g
<1>5. CASE f.cursor.y + 1 < rows
  <2>1. TextOf(g).lines = Lines(f)
    BY <1>3, <1>5 DEF Abstract!LineFeed, TextOf
  <2>2. Lines(g) = Lines(f)
    BY <2>1 DEF TextOf
  <2> QED
    BY <1>2, <1>4, <1>5, <2>2 DEF Bottom, g
<1>6. CASE ~(f.cursor.y + 1 < rows)
  <2> DEFINE A == Append(Lines(f), EmptyRow)
             K == Abstract!Kept(A)
  <2>1. Abstract!EmptyLine = EmptyRow /\ EmptyRow \in Row
    BY EmptyRowType DEF Abstract!EmptyLine, EmptyRow, ColIndices
  <2>2. Lines(g) = K
    <3>1. TextOf(g).lines = K
      BY <1>3, <1>6, <2>1 DEF Abstract!LineFeed, TextOf
    <3> QED
      BY <3>1 DEF TextOf
  <2>3. /\ A \in Seq(Row) /\ Len(A) = f.count + 1 /\ A[f.count + 1] = EmptyRow
        /\ \A i \in 1..f.count : A[i] = Lines(f)[i]
    <3>1. PICK l \in Seq(Row) : l = Lines(f)
      BY <1>2
    <3>2. PICK e \in Row : e = EmptyRow
      BY <2>1
    <3>3. Append(l, e) \in Seq(Row) /\ Len(Append(l, e)) = Len(l) + 1 /\ Append(l, e)[Len(l) + 1] = e
          /\ \A i \in 1..Len(l) : Append(l, e)[i] = l[i]
      BY AppendProperties
    <3> QED
      BY <1>2, <3>1, <3>2, <3>3
  <2> HIDE DEF A
  <2>4. PICK d \in {0, 1} : /\ K \in Seq(Row) /\ Len(K) = f.count + 1 - d
                            /\ \A i \in 1..(f.count + 1 - d) : K[i] = A[i + d]
    <3>1. CASE f.count < hist_rows
      <4>1. K = A
        BY <1>1, <2>3, <3>1 DEF Abstract!Kept
      <4> HIDE DEF K
      <4>2. \A i \in 1..(f.count + 1) : i + 0 = i
        BY <1>1
      <4> QED
        BY <1>1, <2>3, <4>1, <4>2
    <3>2. CASE ~(f.count < hist_rows)
      <4>1. K = Tail(A)
        BY <1>1, <2>3, <3>2 DEF Abstract!Kept
      <4>2. Tail(A) \in Seq(Row) /\ Len(Tail(A)) = f.count /\ \A i \in 1..f.count : Tail(A)[i] = A[i + 1]
        BY <1>1, <2>3, SMTT(30)
      <4> HIDE DEF K
      <4> QED
        BY <1>1, <4>1, <4>2
    <3> QED
      BY <3>1, <3>2
  <2> HIDE DEF K
  <2>5. g.count = f.count + 1 - d /\ g.count - rows + r + 1 \in 1..(f.count + 1 - d)
    <3>1. g.count = f.count + 1 - d
      BY <1>4, <2>2, <2>4
    <3>2. g.count >= rows /\ g.count \in Nat
      BY <1>1, <1>3, HistRows DEF BufferType
    <3> QED
      BY <1>1, <3>1, <3>2
  <2>6. Bottom(g, r) = A[f.count - rows + r + 2]
    <3>1. PICK m \in 1..(f.count + 1 - d) : m = g.count - rows + r + 1
      BY <2>5
    <3>2. m + d = f.count - rows + r + 2
      BY <1>1, <2>5, <3>1
    <3>3. Bottom(g, r) = K[m]
      BY <2>2, <3>1 DEF Bottom
    <3> QED
      BY <2>4, <3>2, <3>3
  <2>7. CASE r + 1 < rows
    <3>1. f.count - rows + r + 2 \in 1..f.count /\ f.count - rows + (r + 1) + 1 = f.count - rows + r + 2
      BY <1>1, <2>7
    <3> QED
      BY <1>6, <2>3, <2>6, <2>7, <3>1 DEF Bottom, g
  <2>8. CASE ~(r + 1 < rows)
    <3>1. f.count - rows + r + 2 = f.count + 1
      BY <1>1, <2>8
    <3> QED
      BY <1>6, <2>3, <2>6, <2>8, <3>1 DEF g
  <2> QED
    BY <2>7, <2>8
<1> QED
  BY <1>5, <1>6

\* A character changes the cell under the cursor only.
LEMMA BottomMoved ==
  ASSUME NEW f, Sound(f), NEW c \in Cell, NEW r \in RowIndices
  PROVE  Bottom(Moved(f, c), r) = IF r = f.cursor.y THEN [Bottom(f, r) EXCEPT ![f.cursor.x] = c]
                                  ELSE Bottom(f, r)
<1> DEFINE g == Moved(f, c)
           k == f.count - rows + f.cursor.y
           j == f.count - rows + r
<1>1. /\ f \in BufferType /\ f.count \in Nat /\ f.count >= rows /\ f.count <= hist_rows
      /\ rows \in Nat \ {0} /\ hist_rows \in Nat
      /\ r \in Nat /\ r < rows /\ f.cursor.y \in Nat /\ f.cursor.y < rows
      /\ f.content \in [0..(hist_rows - 1) -> [ColIndices -> Cell]]
  BY HistRows DEF Sound, BufferType, RowIndices
<1>2. /\ g \in BufferType /\ RingRow(f, k) \in 0..(hist_rows - 1)
      /\ g.content = [f.content EXCEPT ![RingRow(f, k)] = [f.content[RingRow(f, k)] EXCEPT ![f.cursor.x] = c]]
      /\ g.base = f.base /\ g.count = f.count
  BY MovedFields DEF CursorRow
<1> HIDE DEF g
<1>3. k \in 0..(hist_rows - 1) /\ j \in 0..(hist_rows - 1) /\ j + 1 \in 1..f.count /\ (j + 1) - 1 = j
  BY <1>1, SMTT(30)
<1>4. Bottom(f, r) = f.content[RingRow(f, j)] /\ Bottom(g, r) = g.content[RingRow(g, j)]
  <2>1. Lines(f)[j + 1] = f.content[RingRow(f, j)]
    BY <1>1, <1>3, LinesType
  <2>2. Lines(g)[j + 1] = g.content[RingRow(g, j)]
    <3>1. j + 1 \in 1..g.count
      BY <1>2, <1>3
    <3>2. \A i \in 1..g.count : Lines(g)[i] = g.content[RingRow(g, i - 1)]
      BY <1>2, LinesType
    <3> QED
      BY <1>3, <3>1, <3>2
  <2> QED
    BY <1>2, <2>1, <2>2 DEF Bottom
<1>5. RingRow(g, j) = RingRow(f, j) /\ RingRow(f, j) \in 0..(hist_rows - 1)
  BY <1>1, <1>2, <1>3, RingRowType DEF RingRow
<1>6. CASE r = f.cursor.y
  <2>1. j = k
    BY <1>6
  <2> QED
    BY <1>1, <1>2, <1>4, <1>5, <1>6, <2>1 DEF g
<1>7. CASE r # f.cursor.y
  <2>1. j # k
    BY <1>1, <1>7
  <2>2. RingRow(f, j) # RingRow(f, k)
    BY <1>1, <1>3, <2>1, RingRowInjective
  <2> QED
    BY <1>1, <1>2, <1>4, <1>5, <1>7, <2>2 DEF g
<1> QED
  BY <1>6, <1>7

\* A line feed writes nothing beyond the cursor.
LEMMA FreshNewline ==
  ASSUME NEW f \in BufferType, f.cursor.y < rows, f.view_offset = 0, Fresh(f)
  PROVE  Fresh(newline(f))
<1> DEFINE g == newline(f)
<1>0. rows \in Nat \ {0} /\ f.cursor.y \in Nat
  BY HistRows DEF BufferType
<1>1. /\ rows \in Nat \ {0} /\ f.cursor.y \in Nat
      /\ g.cursor = [x |-> 0, y |-> IF f.cursor.y + 1 < rows THEN f.cursor.y + 1 ELSE f.cursor.y]
  BY <1>0, NewlineText
<1>2. ASSUME NEW r \in RowIndices
      PROVE  Bottom(g, r) = IF f.cursor.y + 1 < rows THEN Bottom(f, r)
                            ELSE IF r + 1 < rows THEN Bottom(f, r + 1) ELSE EmptyRow
  BY BottomNewline
<1> HIDE DEF g
<1>3. ASSUME NEW r \in RowIndices, NEW c \in ColIndices,
             r > g.cursor.y \/ (r = g.cursor.y /\ c >= g.cursor.x)
      PROVE  Bottom(g, r)[c] = Blank
  <2>1. r \in Nat /\ r < rows
    BY <1>1 DEF RowIndices
  <2>2. CASE f.cursor.y + 1 < rows
    <3>1. r > f.cursor.y
      BY <1>1, <1>3, <2>1, <2>2
    <3> QED
      BY <1>2, <2>2, <3>1 DEF Fresh
  <2>3. CASE ~(f.cursor.y + 1 < rows)
    <3>1. ~(r + 1 < rows)
      BY <1>1, <1>3, <2>1, <2>3
    <3> QED
      BY <1>2, <2>3, <3>1 DEF EmptyRow
  <2> QED
    BY <2>2, <2>3
<1>4. Fresh(g)
  BY <1>3 DEF Fresh
<1> QED
  BY <1>4 DEF g

\* Neither does a character.
LEMMA FreshMoved ==
  ASSUME NEW f, Sound(f), Fresh(f), NEW c \in Cell
  PROVE  Fresh(Moved(f, c))
<1> DEFINE g == Moved(f, c)
<1>0. f.cursor.x \in Nat /\ f.cursor.y \in Nat /\ f.cursor.x \in ColIndices
  BY HistRows DEF Sound, BufferType, ColIndices
<1>1. g.cursor = [x |-> f.cursor.x + 1, y |-> f.cursor.y]
  BY MovedFields
<1>2. ASSUME NEW r \in RowIndices
      PROVE  /\ Bottom(g, r) = IF r = f.cursor.y THEN [Bottom(f, r) EXCEPT ![f.cursor.x] = c]
                              ELSE Bottom(f, r)
             /\ Bottom(f, r) \in [ColIndices -> Cell]
  BY BottomMoved, VisibleRow
<1> HIDE DEF g
<1>3. ASSUME NEW r \in RowIndices, NEW d \in ColIndices,
             r > g.cursor.y \/ (r = g.cursor.y /\ d >= g.cursor.x)
      PROVE  Bottom(g, r)[d] = Blank
  <2>1. r \in Nat /\ d \in Nat
    BY DEF RowIndices, ColIndices
  <2>2. r > f.cursor.y \/ (r = f.cursor.y /\ d >= f.cursor.x /\ d # f.cursor.x)
    BY <1>0, <1>1, <1>3, <2>1
  <2>3. Bottom(f, r)[d] = Blank
    BY <2>2 DEF Fresh
  <2>4. Bottom(g, r)[d] = Bottom(f, r)[d]
    BY <1>0, <1>2, <2>1, <2>2
  <2> QED
    BY <2>3, <2>4
<1>4. Fresh(g)
  BY <1>3 DEF Fresh
<1> QED
  BY <1>4 DEF g
-----------------------------------------------------------------------------
(***************************************************************************)
(* Drawing a cell at a time keeps the screen what a redraw would show.     *)
(***************************************************************************)
\* The screen shows the last screenful without the cursor.
Plain(scr, f, e) ==
  /\ scr \in Screens
  /\ \A r \in RowIndices, c \in ColIndices :
       scr[r][c] = Bottom(f, r)[c] \/ (e /\ scr[r][c] = Blank)

\* The screen with one cell painted.
Painted(scr, y, x, v) == [scr EXCEPT ![y][x] = v]

\* Painting a cell leaves the others alone.
LEMMA PaintCell ==
  ASSUME NEW scr \in Screens, NEW y \in RowIndices, NEW x \in ColIndices, NEW v \in Shade
  PROVE  /\ Painted(scr, y, x, v) \in Screens
         /\ \A r \in RowIndices, c \in ColIndices :
              Painted(scr, y, x, v)[r][c] = IF r = y /\ c = x THEN v ELSE scr[r][c]
  BY DEF Screens, Painted

\* Erasing the cursor uncovers the text, which is empty there.
LEMMA EraseShows ==
  ASSUME NEW f, Sound(f), f.view_offset = 0, NEW scr, NEW e, Shows(scr, f, e), e \/ Fresh(f)
  PROVE  Plain(erase_cursor(scr, f), f, e) /\ erase_cursor(scr, f)[f.cursor.y][f.cursor.x] = Blank
<1>1. f.cursor.y \in RowIndices /\ f.cursor.x \in ColIndices /\ f.cursor.x \in Nat
  BY HistRows DEF Sound, BufferType, RowIndices, ColIndices
<1>2. erase_cursor(scr, f) = Painted(scr, f.cursor.y, f.cursor.x, Blank)
  BY DEF erase_cursor, PaintCursor, Painted
<1>3. scr \in Screens /\ Blank \in Shade
  BY DEF Shows, Shade, Cell
<1>4. /\ erase_cursor(scr, f) \in Screens
      /\ \A r \in RowIndices, c \in ColIndices :
           erase_cursor(scr, f)[r][c] = IF r = f.cursor.y /\ c = f.cursor.x THEN Blank ELSE scr[r][c]
  BY <1>1, <1>2, <1>3, PaintCell
<1>5. ASSUME NEW r \in RowIndices, NEW c \in ColIndices
      PROVE  erase_cursor(scr, f)[r][c] = Bottom(f, r)[c] \/ (e /\ erase_cursor(scr, f)[r][c] = Blank)
  <2>1. CASE r = f.cursor.y /\ c = f.cursor.x
    <3>1. e \/ Bottom(f, r)[c] = Blank
      BY <1>1, <2>1 DEF Fresh
    <3> QED
      BY <1>4, <2>1, <3>1
  <2>2. CASE ~(r = f.cursor.y /\ c = f.cursor.x)
    <3>1. Glyph(f, r, c) = Bottom(f, r)[c]
      BY <2>2 DEF Glyph
    <3> QED
      BY <1>4, <2>2, <3>1 DEF Shows
  <2> QED
    BY <2>1, <2>2
<1> QED
  BY <1>1, <1>4, <1>5 DEF Plain

\* draw_char, on a black cell, draws what content_put stored.
LEMMA DrawChar ==
  ASSUME NEW f, Sound(f), NEW scr, NEW e, Plain(scr, f, e), NEW c \in Cell,
         scr[f.cursor.y][f.cursor.x] = Blank
  PROVE  Plain(draw_char(scr, f, c), Moved(f, c), e)
<1>1. f.cursor.y \in RowIndices /\ f.cursor.x \in ColIndices
  BY HistRows DEF Sound, BufferType, RowIndices, ColIndices
<1>2. draw_char(scr, f, c) = Painted(scr, f.cursor.y, f.cursor.x, c)
  BY DEF draw_char, Painted
<1>3. scr \in Screens /\ c \in Shade
  BY DEF Plain, Shade
<1>4. /\ draw_char(scr, f, c) \in Screens
      /\ \A r \in RowIndices, d \in ColIndices :
           draw_char(scr, f, c)[r][d] = IF r = f.cursor.y /\ d = f.cursor.x THEN c ELSE scr[r][d]
  BY <1>1, <1>2, <1>3, PaintCell
<1>5. ASSUME NEW r \in RowIndices, NEW d \in ColIndices
      PROVE  \/ draw_char(scr, f, c)[r][d] = Bottom(Moved(f, c), r)[d]
             \/ e /\ draw_char(scr, f, c)[r][d] = Blank
  <2>1. /\ Bottom(Moved(f, c), r) = IF r = f.cursor.y THEN [Bottom(f, r) EXCEPT ![f.cursor.x] = c]
                                    ELSE Bottom(f, r)
        /\ Bottom(f, r) \in [ColIndices -> Cell]
    BY BottomMoved, VisibleRow
  <2>2. Bottom(Moved(f, c), r)[d] = IF r = f.cursor.y /\ d = f.cursor.x THEN c ELSE Bottom(f, r)[d]
    BY <1>1, <2>1
  <2> QED
    BY <1>4, <2>2 DEF Plain
<1> QED
  BY <1>4, <1>5 DEF Plain

\* newline scrolls the monitor by as much as it scrolls the ring.
LEMMA ScrollShows ==
  ASSUME NEW f \in BufferType, f.cursor.y < rows, f.view_offset = 0,
         NEW scr, NEW e, Plain(scr, f, e)
  PROVE  Plain(ScrolledBy(scr, f), newline(f), e)
<1>1. f.cursor.y \in Nat /\ rows \in Nat /\ scr \in Screens
  BY HistRows DEF BufferType, Plain
<1>2. CASE f.cursor.y + 1 < rows
  <2>1. ScrolledBy(scr, f) = scr
    BY <1>1, <1>2 DEF ScrolledBy
  <2>2. \A r \in RowIndices : Bottom(newline(f), r) = Bottom(f, r)
    BY <1>2, BottomNewline
  <2> QED
    BY <2>1, <2>2 DEF Plain
<1>3. CASE ~(f.cursor.y + 1 < rows)
  <2> DEFINE s == ScrolledBy(scr, f)
  <2>1. s = [r \in RowIndices |-> IF r + 1 < rows THEN scr[r + 1] ELSE EmptyRow]
    BY <1>1, <1>3 DEF ScrolledBy, scroll_up
  <2>2. \A r \in RowIndices : r + 1 < rows => r + 1 \in RowIndices
    BY <1>1 DEF RowIndices
  <2>3. EmptyRow \in [ColIndices -> Shade]
    BY DEF EmptyRow, Shade, Cell
  <2>4. s \in Screens
    BY <1>1, <2>1, <2>2, <2>3 DEF Screens
  <2> HIDE DEF s
  <2>5. ASSUME NEW r \in RowIndices, NEW c \in ColIndices
        PROVE  s[r][c] = Bottom(newline(f), r)[c] \/ (e /\ s[r][c] = Blank)
    <3>1. Bottom(newline(f), r) = IF r + 1 < rows THEN Bottom(f, r + 1) ELSE EmptyRow
      BY <1>3, BottomNewline
    <3>2. s[r] = IF r + 1 < rows THEN scr[r + 1] ELSE EmptyRow
      BY <2>1
    <3>3. CASE r + 1 < rows
      <4>1. scr[r + 1][c] = Bottom(f, r + 1)[c] \/ (e /\ scr[r + 1][c] = Blank)
        BY <2>2, <3>3 DEF Plain
      <4> QED
        BY <3>1, <3>2, <3>3, <4>1
    <3>4. CASE ~(r + 1 < rows)
      BY <3>1, <3>2, <3>4
    <3> QED
      BY <3>3, <3>4
  <2> QED
    BY <2>4, <2>5 DEF Plain, s
<1> QED
  BY <1>2, <1>3

\* Drawing the cursor over the text.
LEMMA CursorShows ==
  ASSUME NEW f, Sound(f), f.view_offset = 0, NEW scr, NEW e, Plain(scr, f, e)
  PROVE  Shows(draw_cursor(scr, f), f, e)
<1>1. f.cursor.y \in RowIndices /\ f.cursor.x \in ColIndices
  BY HistRows DEF Sound, BufferType, RowIndices, ColIndices
<1>2. draw_cursor(scr, f) = Painted(scr, f.cursor.y, f.cursor.x, Cursor)
  BY DEF draw_cursor, PaintCursor, Painted
<1>3. scr \in Screens /\ Cursor \in Shade
  BY DEF Plain, Shade
<1>4. /\ draw_cursor(scr, f) \in Screens
      /\ \A r \in RowIndices, c \in ColIndices :
           draw_cursor(scr, f)[r][c] = IF r = f.cursor.y /\ c = f.cursor.x THEN Cursor ELSE scr[r][c]
  BY <1>1, <1>2, <1>3, PaintCell
<1> QED
  BY <1>4 DEF Shows, Plain, Glyph

\* write_char on the monitor, on a buffer whose view is at the bottom: the
\* screen shows the new window, whether the character wraps, scrolls or neither.
LEMMA DrawnShows ==
  ASSUME NEW f, Sound(f), f.view_offset = 0, NEW scr, NEW e, Shows(scr, f, e), e \/ Fresh(f),
         NEW c \in Chars \cup {"\n"}
  PROVE  Shows(Drawn(scr, f, c), IF c = "\n" THEN newline(f) ELSE Put(f, c), e)
<1> DEFINE clean == erase_cursor(scr, f)
<1>1. f \in BufferType /\ f.cursor.y < rows
  BY DEF Sound
<1>2. Plain(clean, f, e) /\ clean[f.cursor.y][f.cursor.x] = Blank
  BY EraseShows
<1> HIDE DEF clean
<1>3. CASE c = "\n"
  <2>1. Drawn(scr, f, c) = draw_cursor(ScrolledBy(clean, f), newline(f))
    BY <1>3 DEF Drawn, clean
  <2>2. Plain(ScrolledBy(clean, f), newline(f), e)
    BY <1>1, <1>2, ScrollShows
  <2>3. Sound(newline(f)) /\ newline(f).view_offset = 0
    BY <1>1, NewlineText
  <2> QED
    BY <1>3, <2>1, <2>2, <2>3, CursorShows
<1>4. CASE c # "\n"
  <2> DEFINE g == Moved(f, c)
             drawn == draw_char(clean, f, c)
  <2>1. c \in Cell
    BY <1>4 DEF Cell
  <2>2. Plain(drawn, g, e)
    BY <1>2, <2>1, DrawChar
  <2>3. g \in BufferType /\ g.cursor.y = f.cursor.y /\ g.view_offset = 0
    BY <2>1, MovedFields
  <2>4. /\ Sound(Put(f, c)) /\ Put(f, c).view_offset = 0
        /\ Put(f, c) = IF f.cursor.x + 1 >= cols THEN newline(g) ELSE g
    BY <1>4, <2>1, PutText
  <2>5. ScrolledBy(drawn, f) = ScrolledBy(drawn, g)
    BY <2>3 DEF ScrolledBy
  <2>6. Drawn(scr, f, c) = draw_cursor(IF f.cursor.x + 1 >= cols THEN ScrolledBy(drawn, f) ELSE drawn, Put(f, c))
    BY <1>4 DEF Drawn, clean
  <2> HIDE DEF g, drawn
  <2>7. Plain(IF f.cursor.x + 1 >= cols THEN ScrolledBy(drawn, f) ELSE drawn, Put(f, c), e)
    <3>1. CASE f.cursor.x + 1 >= cols
      <4>1. Plain(ScrolledBy(drawn, g), newline(g), e)
        BY <1>1, <2>2, <2>3, ScrollShows
      <4> QED
        BY <2>4, <2>5, <3>1, <4>1
    <3>2. CASE ~(f.cursor.x + 1 >= cols)
      BY <2>2, <2>4, <3>2
    <3> QED
      BY <3>1, <3>2
  <2> QED
    BY <1>4, <2>4, <2>6, <2>7, CursorShows
<1> QED
  BY <1>3, <1>4

\* What write_char makes of a buffer whose view is at the bottom.
LEMMA WriteText ==
  ASSUME NEW f, Sound(f), f.view_offset = 0, NEW c \in Chars \cup {"\n"}
  PROVE  LET g == IF c = "\n" THEN newline(f) ELSE Put(f, c)
         IN  /\ Sound(g) /\ g.view_offset = 0
             /\ TextOf(g) = Abstract!Written(TextOf(f), c)
             /\ Fresh(f) => Fresh(g)
<1>1. f \in BufferType /\ f.cursor.y < rows
  BY DEF Sound
<1>2. CASE c = "\n"
  <2>1. Abstract!Written(TextOf(f), c) = Abstract!LineFeed(TextOf(f))
    BY <1>2 DEF Abstract!Written
  <2> QED
    BY <1>1, <1>2, <2>1, NewlineText, FreshNewline
<1>3. CASE c # "\n"
  <2>1. c \in Cell
    BY <1>3 DEF Cell
  <2>2. /\ Sound(Put(f, c)) /\ Put(f, c).view_offset = 0
        /\ Put(f, c) = IF f.cursor.x + 1 >= cols THEN newline(Moved(f, c)) ELSE Moved(f, c)
        /\ TextOf(Put(f, c)) = Abstract!Written(TextOf(f), c)
    BY <1>3, <2>1, PutText
  <2>3. ASSUME Fresh(f) PROVE Fresh(Put(f, c))
    <3>1. Fresh(Moved(f, c))
      BY <2>1, <2>3, FreshMoved
    <3>2. Moved(f, c) \in BufferType /\ Moved(f, c).cursor.y < rows /\ Moved(f, c).view_offset = 0
      BY <1>1, <2>1, MovedFields
    <3> QED
      BY <2>2, <3>1, <3>2, FreshNewline
  <2> QED
    BY <1>3, <2>2, <2>3
<1> QED
  BY <1>2, <1>3
-----------------------------------------------------------------------------
(***************************************************************************)
(* Redraws and backspace.                                                  *)
(***************************************************************************)
\* A redraw shows the window, whatever was erased before.
LEMMA RenderShows ==
  ASSUME NEW f, Sound(f), NEW e
  PROVE  Shows(render_frame_buffer(f), f, e)
BY RenderIs DEF Shows

\* Moving the view leaves the text alone.
LEMMA ViewText ==
  ASSUME NEW f, Sound(f), NEW n \in 0..(f.count - rows)
  PROVE  LET g == [f EXCEPT !.view_offset = n]
         IN  /\ Sound(g) /\ g.view_offset = n /\ g.cursor = f.cursor /\ TextOf(g) = TextOf(f)
             /\ Fresh(f) => Fresh(g)
<1> DEFINE g == [f EXCEPT !.view_offset = n]
<1>0. f.count \in Nat /\ rows \in Nat /\ n \in Nat /\ n <= f.count - rows /\ f \in BufferType
  BY HistRows DEF Sound, BufferType
<1>1. g = [content |-> f.content, base |-> f.base, count |-> f.count,
           view_offset |-> n, cursor |-> f.cursor]
  BY <1>0 DEF BufferType
<1>2. g \in BufferType
  BY <1>0 DEF BufferType
<1> HIDE DEF g
<1>3. g.content = f.content /\ g.base = f.base /\ g.count = f.count /\ g.view_offset = n /\ g.cursor = f.cursor
  BY <1>1
<1>4. Sound(g)
  BY <1>0, <1>2, <1>3 DEF Sound
<1>5. Lines(g) = Lines(f)
  BY <1>3 DEF Lines, logical_row, RingRow
<1>6. TextOf(g) = TextOf(f) /\ (Fresh(f) => Fresh(g))
  BY <1>3, <1>5 DEF TextOf, Fresh, Bottom
<1> QED
  BY <1>3, <1>4, <1>6 DEF g

\* write_char and backspace bring the view to the bottom, redrawing if it was not.
LEMMA BottomShows ==
  ASSUME NEW f, Sound(f), NEW scr, NEW e, Shows(scr, f, e)
  PROVE  /\ Sound(Bottomed(f)) /\ Bottomed(f).view_offset = 0 /\ TextOf(Bottomed(f)) = TextOf(f)
         /\ Fresh(f) => Fresh(Bottomed(f))
         /\ Bottomed(f).cursor = f.cursor
         /\ Shows(IF f.view_offset # 0 THEN render_frame_buffer(Bottomed(f)) ELSE scr, Bottomed(f), e)
<1>1. 0 \in 0..(f.count - rows)
  BY HistRows DEF Sound, BufferType
<1>2. /\ Sound(Bottomed(f)) /\ Bottomed(f).view_offset = 0 /\ TextOf(Bottomed(f)) = TextOf(f)
      /\ Fresh(f) => Fresh(Bottomed(f))
      /\ Bottomed(f).cursor = f.cursor
  BY <1>1, ViewText DEF Bottomed
<1>3. CASE f.view_offset # 0
  BY <1>2, <1>3, RenderShows
<1>4. CASE f.view_offset = 0
  <2>1. Bottomed(f) = f
    BY <1>4 DEF Bottomed, Sound, BufferType
  <2> QED
    BY <1>2, <1>4, <2>1
<1> QED
  BY <1>2, <1>3, <1>4

\* Backspace moves the cursor over a character that stays in the text and goes black.
LEMMA BackShows ==
  ASSUME NEW f, Sound(f), f.view_offset = 0, f.cursor.x > 0, NEW scr, NEW e, Shows(scr, f, e)
  PROVE  LET g == [f EXCEPT !.cursor.x = @ - 1]
         IN  /\ Sound(g) /\ g.view_offset = 0 /\ TextOf(g) = [TextOf(f) EXCEPT !.x = @ - 1]
             /\ Shows(draw_cursor(erase_cursor(erase_cursor(scr, f), g), g), g, TRUE)
<1> DEFINE g == [f EXCEPT !.cursor.x = @ - 1]
           clean == erase_cursor(scr, f)
<1>1. /\ f \in BufferType /\ f.cursor \in [x : 0..cols, y : 0..rows] /\ f.cursor.x \in Nat /\ f.cursor.y \in Nat
      /\ f.cursor.x < cols /\ f.cursor.y < rows /\ f.cursor.x - 1 \in 0..cols /\ f.cursor.y \in 0..rows
      /\ f.cursor = [x |-> f.cursor.x, y |-> f.cursor.y] /\ rows \in Nat /\ cols \in Nat
      /\ f.cursor.x - 1 < cols
  BY HistRows DEF Sound, BufferType
<1>2. g = [content |-> f.content, base |-> f.base, count |-> f.count,
           view_offset |-> f.view_offset, cursor |-> [x |-> f.cursor.x - 1, y |-> f.cursor.y]]
  BY <1>1 DEF BufferType
<1> HIDE DEF g
<1>3. [x |-> f.cursor.x - 1, y |-> f.cursor.y] \in [x : 0..cols, y : 0..rows]
  BY <1>1
<1>4. g \in BufferType
  BY <1>1, <1>2, <1>3 DEF BufferType
<1>5. Sound(g)
  BY <1>1, <1>2, <1>4 DEF Sound
<1>6. Lines(g) = Lines(f) /\ g.count = f.count
  BY <1>2 DEF Lines, logical_row, RingRow
<1>7. TextOf(g) = [TextOf(f) EXCEPT !.x = @ - 1]
  BY <1>2, <1>6 DEF TextOf
<1>8. Shows(scr, f, TRUE)
  BY DEF Shows
<1>9. Plain(clean, f, TRUE)
  BY <1>8, EraseShows
<1>10. Plain(clean, g, TRUE)
  BY <1>6, <1>9 DEF Plain, Bottom
<1> HIDE DEF clean
<1>11. Plain(erase_cursor(clean, g), g, TRUE)
  <2>1. g.cursor.y \in RowIndices /\ g.cursor.x \in ColIndices /\ g.view_offset = 0
    BY <1>1, <1>2 DEF RowIndices, ColIndices
  <2>2. erase_cursor(clean, g) = Painted(clean, g.cursor.y, g.cursor.x, Blank)
    BY <2>1 DEF erase_cursor, PaintCursor, Painted
  <2>3. clean \in Screens /\ Blank \in Shade
    BY <1>10 DEF Plain, Shade, Cell
  <2>4. /\ erase_cursor(clean, g) \in Screens
        /\ \A r \in RowIndices, c \in ColIndices :
             erase_cursor(clean, g)[r][c] = IF r = g.cursor.y /\ c = g.cursor.x THEN Blank ELSE clean[r][c]
    BY <2>1, <2>2, <2>3, PaintCell
  <2> QED
    BY <1>10, <2>4 DEF Plain
<1>12. Shows(draw_cursor(erase_cursor(clean, g), g), g, TRUE)
  BY <1>2, <1>5, <1>11, CursorShows
<1> QED
  BY <1>2, <1>5, <1>7, <1>12 DEF g, clean

-----------------------------------------------------------------------------
(***************************************************************************)
(* The invariant and the refinement.                                       *)
(***************************************************************************)
\* initialize_virtual_buffers.
LEMMA InitInv == Init => FInv /\ TextOf(fb[0]) = Abstract!EmptyText /\ \A b \in Buffers : fb[b] = fb[0]
<1> SUFFICES ASSUME Init PROVE FInv /\ TextOf(fb[0]) = Abstract!EmptyText /\ \A b \in Buffers : fb[b] = fb[0]
  OBVIOUS
<1> DEFINE empty == [content     |-> [r \in 0..(hist_rows - 1) |-> EmptyRow],
                     base        |-> 0,
                     count       |-> rows,
                     view_offset |-> 0,
                     cursor      |-> [x |-> 0, y |-> 0]]
<1>1. /\ fb = [b \in Buffers |-> empty] /\ active_index = 0 /\ erased = {}
      /\ monitor = render_frame_buffer(fb[0]) /\ 0 \in Buffers
  BY FrameBufferAssumption DEF Init, initialize_virtual_buffers
<1>2. empty \in BufferType
  <2>1. [r \in 0..(hist_rows - 1) |-> EmptyRow] \in [0..(hist_rows - 1) -> [ColIndices -> Cell]]
    BY EmptyRowType
  <2>2. 0 \in 0..(hist_rows - 1) /\ rows \in rows..hist_rows /\ 0 \in Nat
        /\ [x |-> 0, y |-> 0] \in [x : 0..cols, y : 0..rows]
    BY HistRows
  <2> QED
    BY <2>1, <2>2 DEF BufferType
<1>3. Sound(empty)
  BY <1>2, HistRows DEF Sound
<1>4. Lines(empty) = [i \in 1..rows |-> EmptyRow]
  <2>1. \A i \in 1..rows : i - 1 \in 0..(hist_rows - 1)
    BY HistRows
  <2>2. \A i \in 1..rows : RingRow(empty, i - 1) \in 0..(hist_rows - 1)
    BY <1>2, <2>1, RingRowType
  <2> QED
    BY <2>2 DEF Lines, logical_row
<1>5. empty.count = rows /\ empty.cursor.x = 0 /\ empty.cursor.y = 0
  OBVIOUS
<1> HIDE DEF empty
<1>6. TextOf(empty) = Abstract!EmptyText
  BY <1>4, <1>5 DEF TextOf, Abstract!EmptyText, Abstract!EmptyLine, EmptyRow, ColIndices
<1>7. Fresh(empty)
  <2>1. ASSUME NEW r \in RowIndices PROVE Bottom(empty, r) = EmptyRow
    <3>1. empty.count - rows + r + 1 \in 1..rows
      BY <1>5, HistRows DEF RowIndices
    <3> QED
      BY <1>4, <3>1 DEF Bottom
  <2> QED
    BY <2>1 DEF Fresh, EmptyRow
<1>8. \A b \in Buffers : fb[b] = empty
  BY <1>1
<1>9. Shows(monitor, fb[active_index], active_index \in erased)
  BY <1>1, <1>3, <1>8, RenderShows
<1> QED
  BY <1>1, <1>2, <1>3, <1>6, <1>7, <1>8, <1>9 DEF FInv

\* What is seen of the monitor is the picture of the focused text.
LEMMA SeenIsPicture ==
  FInv => Seen = Abstract!Picture(TextOf(fb[active_index]), fb[active_index].view_offset)
<1> SUFFICES ASSUME FInv
             PROVE  Seen = Abstract!Picture(TextOf(fb[active_index]), fb[active_index].view_offset)
  OBVIOUS
<1>1. Sound(fb[active_index]) /\ Shows(monitor, fb[active_index], active_index \in erased)
  BY DEF FInv
<1>2. PICK f : f = fb[active_index]
  OBVIOUS
<1>3. PICK scr : scr = monitor
  OBVIOUS
<1>4. CASE active_index \in erased
  <2>1. Sound(f) /\ Shows(scr, f, TRUE)
    BY <1>1, <1>2, <1>3, <1>4 DEF Shows
  <2>2. [r \in RowIndices |-> [c \in ColIndices |->
           IF scr[r][c] = Blank THEN render_frame_buffer(f)[r][c] ELSE scr[r][c]]]
        = Abstract!Picture(TextOf(f), f.view_offset)
    BY <2>1, ShownIsPicture
  <2> QED
    BY <1>2, <1>3, <1>4, <2>2 DEF Seen
<1>5. CASE active_index \notin erased
  <2>1. Sound(f) /\ Shows(scr, f, FALSE)
    BY <1>1, <1>2, <1>3, <1>5 DEF Shows
  <2>2. scr = Abstract!Picture(TextOf(f), f.view_offset)
    BY <2>1, ShownIsPicture
  <2> QED
    BY <1>2, <1>3, <1>5, <2>2 DEF Seen
<1> QED
  BY <1>4, <1>5

\* The parts of the invariant that speak of the buffers and of the screen, of
\* any state: the invariant is these of the variables.
Coherent(buffers, focus, screen, back) ==
  /\ focus \in Buffers /\ back \subseteq Buffers
  /\ buffers \in [Buffers -> BufferType]
  /\ \A b \in Buffers : Sound(buffers[b])
  /\ \A b \in Buffers \ back : Fresh(buffers[b])
  /\ Shows(screen, buffers[focus], focus \in back)

\* A step that changes one buffer, and the screen as that buffer asks for.
LEMMA OneBuffer ==
  ASSUME NEW buffers, NEW focus, NEW screen, NEW back, Coherent(buffers, focus, screen, back),
         NEW b \in Buffers, NEW g, Sound(g), NEW screen1, NEW back1,
         back1 = back \/ back1 = back \cup {b},
         b \notin back1 => Fresh(g),
         focus = b => Shows(screen1, g, focus \in back1),
         focus # b => screen1 = screen
  PROVE  Coherent([buffers EXCEPT ![b] = g], focus, screen1, back1)
<1> DEFINE new == [buffers EXCEPT ![b] = g]
<1>1. g \in BufferType
  BY DEF Sound
<1>2. /\ focus \in Buffers /\ back1 \subseteq Buffers /\ new \in [Buffers -> BufferType]
      /\ new[b] = g /\ \A d \in Buffers \ {b} : new[d] = buffers[d]
  BY <1>1 DEF Coherent
<1> HIDE DEF new
<1>3. \A d \in Buffers : Sound(new[d])
  BY <1>2 DEF Coherent
<1>4. \A d \in Buffers \ back1 : Fresh(new[d])
  BY <1>2 DEF Coherent
<1>5. Shows(screen1, new[focus], focus \in back1)
  <2>1. CASE focus = b
    BY <1>2, <2>1
  <2>2. CASE focus # b
    <3>1. new[focus] = buffers[focus] /\ (focus \in back1) = (focus \in back)
      BY <1>2, <2>2
    <3> QED
      BY <2>2, <3>1 DEF Coherent
  <2> QED
    BY <2>1, <2>2
<1> QED
  BY <1>2, <1>3, <1>4, <1>5 DEF Coherent, new

\* The invariant says that of the variables.
LEMMA InvIsCoherent == FInv <=> Coherent(fb, active_index, monitor, erased)
  BY DEF FInv, Coherent

\* write_char, by a process or as the echo of a key.
LEMMA WriteStep ==
  ASSUME FInv, NEW b \in Buffers, NEW c \in Chars \cup {"\n"}, write_char(b, c)
  PROVE  /\ FInv' /\ active_index' = active_index
         /\ \E g : /\ fb' = [fb EXCEPT ![b] = g]
                   /\ TextOf(g) = Abstract!Written(TextOf(fb[b]), c) /\ g.view_offset = 0
<1> DEFINE f == Bottomed(fb[b])
           scr == IF fb[b].view_offset # 0 THEN render_frame_buffer(f) ELSE monitor
           g == IF c = "\n" THEN newline(f) ELSE Put(f, c)
           back == b \in erased
<1>1. Coherent(fb, active_index, monitor, erased)
  BY InvIsCoherent
<1>2. Sound(fb[b]) /\ (back \/ Fresh(fb[b]))
  BY DEF FInv
<1>3. Sound(f) /\ f.view_offset = 0 /\ TextOf(f) = TextOf(fb[b]) /\ (back \/ Fresh(f))
  <2>1. 0 \in 0..(fb[b].count - rows)
    BY <1>2, HistRows DEF Sound, BufferType
  <2> QED
    BY <1>2, <2>1, ViewText DEF Bottomed
<1>4. active_index = b => Shows(scr, f, back)
  BY <1>2, BottomShows DEF FInv
<1>5. /\ fb' = [fb EXCEPT ![b] = g] /\ active_index' = active_index /\ erased' = erased
      /\ monitor' = IF active_index = b THEN Drawn(scr, f, c) ELSE monitor
  BY DEF write_char
<1> HIDE DEF f, scr, back
<1>6. Sound(g) /\ g.view_offset = 0 /\ TextOf(g) = Abstract!Written(TextOf(f), c) /\ (Fresh(f) => Fresh(g))
  BY <1>3, WriteText
<1>7. active_index = b => Shows(monitor', g, back)
  <2>1. ASSUME active_index = b PROVE Shows(Drawn(scr, f, c), g, back)
    BY <1>3, <1>4, <2>1, DrawnShows
  <2> QED
    BY <1>5, <2>1
<1> HIDE DEF g
<1>8. Coherent(fb', active_index, monitor', erased)
  <2>1. PICK s : s = monitor'
    OBVIOUS
  <2>2. Coherent([fb EXCEPT ![b] = g], active_index, s, erased)
    <3>1. active_index = b => Shows(s, g, active_index \in erased)
      BY <1>7, <2>1 DEF back
    <3>2. active_index # b => s = monitor
      BY <1>5, <2>1
    <3>3. b \notin erased => Fresh(g)
      BY <1>3, <1>6 DEF back
    <3> QED
      BY <1>1, <1>6, <3>1, <3>2, <3>3, OneBuffer
  <2> QED
    BY <1>5, <2>1, <2>2
<1>9. FInv'
  BY <1>5, <1>8 DEF FInv, Coherent
<1> QED
  BY <1>3, <1>5, <1>6, <1>9

\* os_vbuf_scroll and os_vbuf_scroll_to_bottom: the view of the focused buffer
\* moves within the history and the screen is redrawn.
LEMMA ViewStep ==
  ASSUME FInv, NEW n \in 0..(fb[active_index].count - rows),
         fb' = [fb EXCEPT ![active_index] = [fb[active_index] EXCEPT !.view_offset = n]],
         monitor' = render_frame_buffer([fb[active_index] EXCEPT !.view_offset = n]),
         UNCHANGED <<active_index, erased>>
  PROVE  /\ FInv'
         /\ \E g : /\ fb' = [fb EXCEPT ![active_index] = g]
                   /\ TextOf(g) = TextOf(fb[active_index]) /\ g.view_offset = n
<1> DEFINE g == [fb[active_index] EXCEPT !.view_offset = n]
<1>1. Coherent(fb, active_index, monitor, erased)
  BY InvIsCoherent
<1>2. Sound(fb[active_index]) /\ (active_index \in erased \/ Fresh(fb[active_index])) /\ active_index \in Buffers
  BY DEF FInv
<1>3. /\ Sound(g) /\ g.view_offset = n /\ TextOf(g) = TextOf(fb[active_index])
      /\ Fresh(fb[active_index]) => Fresh(g)
  BY <1>2, ViewText
<1> HIDE DEF g
<1>4. PICK s : s = monitor'
  OBVIOUS
<1>5. Shows(s, g, active_index \in erased)
  BY <1>3, <1>4, RenderShows DEF g
<1>6. Coherent([fb EXCEPT ![active_index] = g], active_index, s, erased)
  BY <1>1, <1>2, <1>3, <1>5, OneBuffer
<1>7. FInv'
  BY <1>4, <1>6 DEF FInv, Coherent, g
<1> QED
  BY <1>3, <1>7 DEF g

\* The backspace key.
LEMMA BackStep ==
  ASSUME FInv, backspace
  PROVE  /\ FInv' /\ active_index' = active_index /\ fb[active_index].cursor.x > 0
         /\ \E g : /\ fb' = [fb EXCEPT ![active_index] = g]
                   /\ TextOf(g) = [TextOf(fb[active_index]) EXCEPT !.x = @ - 1] /\ g.view_offset = 0
<1> DEFINE f == Bottomed(fb[active_index])
           scr == IF fb[active_index].view_offset # 0 THEN render_frame_buffer(f) ELSE monitor
           g == [f EXCEPT !.cursor.x = @ - 1]
<1>1. Coherent(fb, active_index, monitor, erased)
  BY InvIsCoherent
<1>2. Sound(fb[active_index]) /\ active_index \in Buffers
      /\ Shows(monitor, fb[active_index], active_index \in erased)
  BY DEF FInv
<1>3. /\ Sound(f) /\ f.view_offset = 0 /\ TextOf(f) = TextOf(fb[active_index])
      /\ f.cursor = fb[active_index].cursor /\ Shows(scr, f, active_index \in erased)
  BY <1>2, BottomShows
<1>4. /\ f.cursor.x > 0 /\ fb' = [fb EXCEPT ![active_index] = g]
      /\ monitor' = draw_cursor(erase_cursor(erase_cursor(scr, f), g), g)
      /\ erased' = erased \cup {active_index} /\ active_index' = active_index
  BY DEF backspace
<1> HIDE DEF f, scr
<1>5. /\ Sound(g) /\ g.view_offset = 0 /\ TextOf(g) = [TextOf(f) EXCEPT !.x = @ - 1]
      /\ Shows(draw_cursor(erase_cursor(erase_cursor(scr, f), g), g), g, TRUE)
  BY <1>3, <1>4, BackShows
<1> HIDE DEF g
<1>6. PICK s : s = monitor'
  OBVIOUS
<1>7. PICK back : back = erased \cup {active_index}
  OBVIOUS
<1>8. Shows(s, g, active_index \in back)
  <2>1. Shows(s, g, TRUE) /\ active_index \in back
    BY <1>4, <1>5, <1>6, <1>7
  <2> QED
    BY <2>1 DEF Shows
<1>9. Coherent([fb EXCEPT ![active_index] = g], active_index, s, back)
  BY <1>1, <1>2, <1>5, <1>7, <1>8, OneBuffer
<1>10. FInv'
  BY <1>4, <1>6, <1>7, <1>9 DEF FInv, Coherent
<1> QED
  BY <1>3, <1>4, <1>5, <1>10

\* F1 .. F4.
LEMMA SwitchStep ==
  ASSUME FInv, NEW b \in Buffers, switch_active_frame_buffer(b)
  PROVE  FInv' /\ active_index' = b /\ fb' = fb
<1>1. /\ active_index' = b /\ fb' = fb /\ erased' = erased /\ monitor' = render_frame_buffer(fb[b])
  BY DEF switch_active_frame_buffer
<1>2. Sound(fb[b])
  BY DEF FInv
<1>3. Shows(monitor', fb[b], b \in erased)
  BY <1>1, <1>2, RenderShows
<1>4. FInv'
  BY <1>1, <1>3 DEF FInv
<1> QED
  BY <1>1, <1>4

\* One of the four steps above is taken, or nothing changes.
LEMMA ScrollIsView ==
  ASSUME FInv, NEW delta \in {rows, -rows}, os_vbuf_scroll(delta)
  PROVE  \E n \in 0..(fb[active_index].count - rows) :
            /\ fb' = [fb EXCEPT ![active_index] = [fb[active_index] EXCEPT !.view_offset = n]]
            /\ monitor' = render_frame_buffer([fb[active_index] EXCEPT !.view_offset = n])
            /\ UNCHANGED <<active_index, erased>>
<1> DEFINE f == fb[active_index]
           next == IF f.view_offset + delta < 0 THEN 0
                   ELSE IF f.view_offset + delta > os_vbuf_max_view_offset(f)
                        THEN os_vbuf_max_view_offset(f)
                   ELSE f.view_offset + delta
<1>1. Sound(f)
  BY DEF FInv
<1>2. f.count \in Nat /\ f.count >= rows /\ f.view_offset \in Nat /\ rows \in Nat
  BY <1>1, HistRows DEF Sound, BufferType
<1>3. next \in 0..(f.count - rows)
  BY <1>2 DEF os_vbuf_max_view_offset
<1>4. /\ fb' = [fb EXCEPT ![active_index] = [f EXCEPT !.view_offset = next]]
      /\ monitor' = render_frame_buffer([f EXCEPT !.view_offset = next])
      /\ UNCHANGED <<active_index, erased>>
  BY DEF os_vbuf_scroll
<1> HIDE DEF next
<1> QED
  BY <1>3, <1>4

\* Scrolling to the bottom is the view at offset 0.
LEMMA ToBottomIsView ==
  ASSUME FInv, os_vbuf_scroll_to_bottom
  PROVE  /\ 0 \in 0..(fb[active_index].count - rows)
         /\ fb' = [fb EXCEPT ![active_index] = [fb[active_index] EXCEPT !.view_offset = 0]]
         /\ monitor' = render_frame_buffer([fb[active_index] EXCEPT !.view_offset = 0])
         /\ UNCHANGED <<active_index, erased>>
<1>1. Sound(fb[active_index]) /\ active_index \in Buffers /\ fb \in [Buffers -> BufferType]
  BY DEF FInv
<1>2. 0 \in 0..(fb[active_index].count - rows)
  BY <1>1, HistRows DEF Sound, BufferType
<1>3. fb' = [fb EXCEPT ![active_index] = [fb[active_index] EXCEPT !.view_offset = 0]]
  BY DEF os_vbuf_scroll_to_bottom, Bottomed
<1>4. fb'[active_index] = [fb[active_index] EXCEPT !.view_offset = 0]
  BY <1>1, <1>3
<1> QED
  BY <1>2, <1>3, <1>4 DEF os_vbuf_scroll_to_bottom

\* The text and the view of every buffer, as module Terminal sees them.
Texts == [b \in Buffers |-> TextOf(fb[b])]
Views == [b \in Buffers |-> fb[b].view_offset]

\* A step that changes one buffer changes one text and one view.
LEMMA OneText ==
  ASSUME FInv, NEW b \in Buffers, NEW g, fb' = [fb EXCEPT ![b] = g]
  PROVE  Texts' = [Texts EXCEPT ![b] = TextOf(g)] /\ Views' = [Views EXCEPT ![b] = g.view_offset]
<1>1. fb \in [Buffers -> BufferType]
  BY DEF FInv
<1>2. fb'[b] = g /\ \A d \in Buffers \ {b} : fb'[d] = fb[d]
  BY <1>1
<1>3. Texts' = [d \in Buffers |-> TextOf(fb'[d])] /\ Views' = [d \in Buffers |-> fb'[d].view_offset]
  BY DEF Texts, Views
<1>4. Texts' = [Texts EXCEPT ![b] = TextOf(g)]
  <2>1. \A d \in Buffers : TextOf(fb'[d]) = [Texts EXCEPT ![b] = TextOf(g)][d]
    BY <1>2 DEF Texts
  <2> QED
    BY <1>3, <2>1 DEF Texts
<1>5. Views' = [Views EXCEPT ![b] = g.view_offset]
  <2>1. \A d \in Buffers : fb'[d].view_offset = [Views EXCEPT ![b] = g.view_offset][d]
    BY <1>2 DEF Views
  <2> QED
    BY <1>3, <2>1 DEF Views
<1> QED
  BY <1>4, <1>5

\* The mapped state is the texts, the views, the focus and what is seen.
LEMMA Mapped ==
  /\ Abstract!tvars = <<Texts, Views, active_index, Seen>>
  /\ Abstract!Show <=> Seen' = Abstract!Picture(Texts'[active_index'], Views'[active_index'])
  BY DEF Abstract!tvars, Abstract!Show, Texts, Views, TextOf

\* After every step the monitor is the picture of the focused text.
LEMMA ShownAfter == FInv' => Abstract!Show
<1>1. FInv => Seen = Abstract!Picture(Texts[active_index], Views[active_index])
  BY SeenIsPicture DEF Texts, Views, FInv
<1>2. (FInv => Seen = Abstract!Picture(Texts[active_index], Views[active_index]))'
  BY <1>1, PTL
<1>3. (Abstract!Picture(Texts[active_index], Views[active_index]))'
        = Abstract!Picture(Texts'[active_index'], Views'[active_index'])
  BY DEF Abstract!Picture
<1> QED
  BY <1>2, <1>3, Mapped

\* The abstract actions, of the texts and the views.
LEMMA MappedActions ==
  /\ \A b, c : Abstract!Output(b, c) <=>
       /\ Texts' = [Texts EXCEPT ![b] = Abstract!Written(@, c)]
       /\ Views' = [Views EXCEPT ![b] = 0]
       /\ active_index' = active_index /\ Abstract!Show
  /\ Abstract!Back <=>
       /\ Texts[active_index].x > 0
       /\ Texts' = [Texts EXCEPT ![active_index].x = @ - 1]
       /\ Views' = [Views EXCEPT ![active_index] = 0]
       /\ active_index' = active_index /\ Abstract!Show
  /\ Abstract!ScrollView <=>
       /\ \E u \in 0..(Len(Texts[active_index].lines) - rows) : Views' = [Views EXCEPT ![active_index] = u]
       /\ Texts' = Texts /\ active_index' = active_index /\ Abstract!Show
  /\ \A b : Abstract!Focus(b) <=>
       /\ active_index' = b /\ Texts' = Texts /\ Views' = Views /\ Abstract!Show
<1>1. \A b, c : Abstract!Output(b, c) <=>
       /\ Texts' = [Texts EXCEPT ![b] = Abstract!Written(@, c)]
       /\ Views' = [Views EXCEPT ![b] = 0]
       /\ active_index' = active_index /\ Abstract!Show
  BY DEF Abstract!Output, Texts, Views, TextOf
<1>2. Abstract!Back <=>
       /\ Texts[active_index].x > 0
       /\ Texts' = [Texts EXCEPT ![active_index].x = @ - 1]
       /\ Views' = [Views EXCEPT ![active_index] = 0]
       /\ active_index' = active_index /\ Abstract!Show
  BY DEF Abstract!Back, Texts, Views, TextOf
<1>3. Abstract!ScrollView <=>
       /\ \E u \in 0..(Len(Texts[active_index].lines) - rows) : Views' = [Views EXCEPT ![active_index] = u]
       /\ Texts' = Texts /\ active_index' = active_index /\ Abstract!Show
  BY DEF Abstract!ScrollView, Texts, Views, TextOf
<1>4. \A b : Abstract!Focus(b) <=>
       /\ active_index' = b /\ Texts' = Texts /\ Views' = Views /\ Abstract!Show
  BY DEF Abstract!Focus, Texts, Views, TextOf
<1> QED
  BY <1>1, <1>2, <1>3, <1>4

\* The two view changes are scrolls of the terminal.
LEMMA ViewImplements ==
  ASSUME FInv, NEW n \in 0..(fb[active_index].count - rows),
         fb' = [fb EXCEPT ![active_index] = [fb[active_index] EXCEPT !.view_offset = n]],
         monitor' = render_frame_buffer([fb[active_index] EXCEPT !.view_offset = n]),
         UNCHANGED <<active_index, erased>>
  PROVE  FInv' /\ Abstract!ScrollView
<1>1. PICK g : /\ fb' = [fb EXCEPT ![active_index] = g]
               /\ TextOf(g) = TextOf(fb[active_index]) /\ g.view_offset = n
  BY ViewStep
<1>2. FInv'
  BY ViewStep
<1>3. active_index \in Buffers /\ Sound(fb[active_index])
  BY DEF FInv
<1>4. Texts' = [Texts EXCEPT ![active_index] = TextOf(g)] /\ Views' = [Views EXCEPT ![active_index] = n]
  BY <1>1, <1>3, OneText
<1>5. Texts[active_index] = TextOf(fb[active_index]) /\ Len(Texts[active_index].lines) = fb[active_index].count
  BY <1>3, LinesType DEF Texts, TextOf, Sound
<1>6. Texts' = Texts
  BY <1>1, <1>4, <1>5 DEF Texts
<1> QED
  BY <1>2, <1>4, <1>5, <1>6, ShownAfter, MappedActions

\* Every step keeps the invariant and is a step of module Terminal.
LEMMA StepImplements ==
  ASSUME FInv, [Next]_vars
  PROVE  FInv' /\ [Abstract!TNext]_Abstract!tvars
<1>1. active_index \in Buffers
  BY DEF FInv
<1>2. ASSUME NEW b \in Buffers, NEW c \in Chars \cup {"\n"}, write_char(b, c)
      PROVE  FInv' /\ Abstract!TNext
  <2>1. FInv' /\ active_index' = active_index
    BY <1>2, WriteStep
  <2>2. PICK g : /\ fb' = [fb EXCEPT ![b] = g]
                 /\ TextOf(g) = Abstract!Written(TextOf(fb[b]), c) /\ g.view_offset = 0
    BY <1>2, WriteStep
  <2>3. Texts' = [Texts EXCEPT ![b] = TextOf(g)] /\ Views' = [Views EXCEPT ![b] = 0]
    BY <2>2, OneText
  <2>4. Texts[b] = TextOf(fb[b])
    BY DEF Texts
  <2>5. Texts' = [Texts EXCEPT ![b] = Abstract!Written(@, c)]
    BY <2>2, <2>3, <2>4
  <2>6. Abstract!Output(b, c)
    BY <2>1, <2>3, <2>5, ShownAfter, MappedActions
  <2> QED
    BY <2>1, <2>6 DEF Abstract!TNext
<1>3. ASSUME backspace PROVE FInv' /\ Abstract!TNext
  <2>1. FInv' /\ active_index' = active_index /\ fb[active_index].cursor.x > 0
    BY <1>3, BackStep
  <2>2. PICK g : /\ fb' = [fb EXCEPT ![active_index] = g]
                 /\ TextOf(g) = [TextOf(fb[active_index]) EXCEPT !.x = @ - 1] /\ g.view_offset = 0
    BY <1>3, BackStep
  <2>3. Texts' = [Texts EXCEPT ![active_index] = TextOf(g)] /\ Views' = [Views EXCEPT ![active_index] = 0]
    BY <1>1, <2>2, OneText
  <2>4. Texts[active_index] = TextOf(fb[active_index]) /\ Texts[active_index].x > 0
    BY <1>1, <2>1 DEF Texts, TextOf
  <2>5. Texts' = [Texts EXCEPT ![active_index].x = @ - 1]
    BY <2>2, <2>3, <2>4
  <2>6. Abstract!Back
    BY <2>1, <2>3, <2>4, <2>5, ShownAfter, MappedActions
  <2> QED
    BY <2>1, <2>6 DEF Abstract!TNext
<1>4. ASSUME NEW delta \in {rows, -rows}, os_vbuf_scroll(delta) PROVE FInv' /\ Abstract!TNext
  <2>1. PICK n \in 0..(fb[active_index].count - rows) :
            /\ fb' = [fb EXCEPT ![active_index] = [fb[active_index] EXCEPT !.view_offset = n]]
            /\ monitor' = render_frame_buffer([fb[active_index] EXCEPT !.view_offset = n])
            /\ UNCHANGED <<active_index, erased>>
    BY <1>4, ScrollIsView
  <2>2. FInv' /\ Abstract!ScrollView
    BY <2>1, ViewImplements
  <2> QED
    BY <2>2 DEF Abstract!TNext
<1>5. ASSUME os_vbuf_scroll_to_bottom PROVE FInv' /\ Abstract!TNext
  <2>1. FInv' /\ Abstract!ScrollView
    BY <1>5, ToBottomIsView, ViewImplements
  <2> QED
    BY <2>1 DEF Abstract!TNext
<1>6. ASSUME NEW b \in Buffers, switch_active_frame_buffer(b) PROVE FInv' /\ Abstract!TNext
  <2>1. FInv' /\ active_index' = b /\ fb' = fb
    BY <1>6, SwitchStep
  <2>2. Texts' = Texts /\ Views' = Views
    BY <2>1 DEF Texts, Views
  <2>3. Abstract!Focus(b)
    BY <2>1, <2>2, ShownAfter, MappedActions
  <2> QED
    BY <2>1, <2>3 DEF Abstract!TNext
<1>7. ASSUME UNCHANGED vars PROVE FInv' /\ UNCHANGED Abstract!tvars
  <2>1. fb' = fb /\ active_index' = active_index /\ monitor' = monitor /\ erased' = erased
    BY <1>7 DEF vars
  <2>2. FInv'
    BY <2>1 DEF FInv
  <2>3. Texts' = Texts /\ Views' = Views /\ Seen' = Seen
    BY <2>1 DEF Texts, Views, Seen
  <2>4. Abstract!tvars' = <<Texts', Views', active_index', Seen'>>
    BY Mapped DEF Abstract!tvars, Texts, Views, TextOf
  <2> QED
    BY <2>1, <2>2, <2>3, <2>4, Mapped
<1> QED
  BY <1>1, <1>2, <1>3, <1>4, <1>5, <1>6, <1>7 DEF Next, ProcessOutput, Keyboard, EchoKey

\* The initial screens are those of module Terminal.
LEMMA InitImplements == Init => Abstract!TInit
<1> SUFFICES ASSUME Init PROVE Abstract!TInit
  OBVIOUS
<1>1. FInv /\ TextOf(fb[0]) = Abstract!EmptyText /\ \A b \in Buffers : fb[b] = fb[0]
  BY InitInv
<1>2. active_index = 0 /\ fb[0].view_offset = 0 /\ 0 \in Buffers
  BY FrameBufferAssumption DEF Init, initialize_virtual_buffers
<1>3. Texts = [b \in Buffers |-> Abstract!EmptyText] /\ Views = [b \in Buffers |-> 0]
  BY <1>1, <1>2 DEF Texts, Views
<1>4. Seen = Abstract!Picture(Abstract!EmptyText, 0)
  BY <1>1, <1>2, SeenIsPicture
<1> QED
  BY <1>2, <1>3, <1>4 DEF Abstract!TInit, Texts, Views, TextOf

\* The virtual frame buffers of framebuffer.c implement the plain text terminal,
\* for every screen size, history size, set of buffers and sequence of writes,
\* scrolls, backspaces and switches of the focus: the ring holds the newest
\* lines, every write lands where the terminal's does, and the monitor, drawn a
\* cell at a time, is always the picture of the focused text.
THEOREM ScreenImplementsTerminal == Spec => ImplementsTerminal
<1>1. Init => FInv /\ Abstract!TInit
  BY InitInv, InitImplements
<1>2. FInv /\ [Next]_vars => FInv' /\ [Abstract!TNext]_Abstract!tvars
  BY StepImplements
<1> QED
  BY <1>1, <1>2, PTL DEF Spec, ImplementsTerminal, Abstract!TSpec
=============================================================================
