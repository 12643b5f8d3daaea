------------------------------ MODULE Terminal ------------------------------
(***************************************************************************)
(* What the virtual frame buffers promise (the comments of                 *)
(* src/c/framebuffer.h): every buffer is a text of lines of cols columns,  *)
(* of which the newest hist_rows are kept, and the monitor always shows    *)
(* the window of rows lines that the buffer with the focus has scrolled    *)
(* to, with the cursor, or with the scroll indicator over the last line.   *)
(* There is no ring, no modulus and no incremental drawing here.           *)
(***************************************************************************)
EXTENDS Naturals, Sequences, SequencesExt

CONSTANTS Buffers, Chars, rows, cols, hist_rows, Blank, Cursor, Indicator

VARIABLES
  text,     \* text[b]: lines kept, oldest first, and the cursor on the last screenful
  up,       \* up[b]: lines the view of b is scrolled back
  focus,    \* the buffer on the monitor
  monitor   \* what the monitor shows

tvars == <<text, up, focus, monitor>>

EmptyLine == [c \in 0..(cols - 1) |-> Blank]
EmptyText == [lines |-> [i \in 1..rows |-> EmptyLine], x |-> 0, y |-> 0]

\* The picture of a text scrolled back u lines.
Picture(t, u) ==
  [r \in 0..(rows - 1) |->
    [c \in 0..(cols - 1) |->
       LET line == t.lines[Len(t.lines) - rows - u + r + 1]
       IN  CASE u > 0 /\ r = rows - 1 -> Indicator
             [] u = 0 /\ r = t.y /\ c = t.x -> Cursor
             [] OTHER -> line[c]]]

\* Only the newest hist_rows lines are kept.
Kept(lines) == IF Len(lines) > hist_rows THEN Tail(lines) ELSE lines

LineFeed(t) ==
  IF t.y + 1 < rows
  THEN [t EXCEPT !.x = 0, !.y = @ + 1]
  ELSE [t EXCEPT !.x = 0, !.lines = Kept(Append(@, EmptyLine))]

Written(t, c) ==
  LET placed == [t EXCEPT !.lines[Len(t.lines) - rows + t.y + 1][t.x] = c, !.x = @ + 1]
  IN  IF c = "\n" THEN LineFeed(t)
      ELSE IF placed.x < cols THEN placed ELSE LineFeed(placed)

Show == monitor' = Picture(text'[focus'], up'[focus'])

TInit ==
  /\ text = [b \in Buffers |-> EmptyText]
  /\ up = [b \in Buffers |-> 0]
  /\ focus \in Buffers
  /\ monitor = Picture(EmptyText, 0)

\* Output moves the view of its buffer to the bottom.
Output(b, c) ==
  /\ text' = [text EXCEPT ![b] = Written(@, c)]
  /\ up' = [up EXCEPT ![b] = 0]
  /\ UNCHANGED focus
  /\ Show

\* Backspace moves the cursor of the focused buffer back over a character,
\* which stays in the text.
Back ==
  /\ text[focus].x > 0
  /\ text' = [text EXCEPT ![focus].x = @ - 1]
  /\ up' = [up EXCEPT ![focus] = 0]
  /\ UNCHANGED focus
  /\ Show

\* The view of the focused buffer moves anywhere within the lines kept.
ScrollView ==
  /\ \E u \in 0..(Len(text[focus].lines) - rows) : up' = [up EXCEPT ![focus] = u]
  /\ UNCHANGED <<text, focus>>
  /\ Show

\* Focus moves; every buffer keeps its own view.
Focus(b) ==
  /\ focus' = b
  /\ UNCHANGED <<text, up>>
  /\ Show

TNext == \/ \E b \in Buffers, c \in Chars \cup {"\n"} : Output(b, c)
         \/ Back
         \/ ScrollView
         \/ \E b \in Buffers : Focus(b)

TSpec == TInit /\ [][TNext]_tvars

=============================================================================
