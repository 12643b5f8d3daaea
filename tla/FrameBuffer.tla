---------------------------- MODULE FrameBuffer ----------------------------
(***************************************************************************)
(* The virtual frame buffers (src/c/framebuffer.c): each keeps its text in *)
(* a ring of hist_rows rows, and the active one is also drawn on the       *)
(* monitor, cell by cell as it is written and as a whole when the view     *)
(* changes.  Every call runs to completion here; module OutputRace cuts    *)
(* write_char at the instructions where an interrupt matters.              *)
(*                                                                         *)
(* A cell of the monitor holds a character, Blank (black), Cursor (white), *)
(* Indicator (the scroll indicator's row) or Mixed, two glyphs drawn over  *)
(* one another: draw_char sets the pixels of the glyph and clears none.    *)
(***************************************************************************)
EXTENDS Integers, Sequences, SequencesExt

CONSTANTS
  Buffers,                    \* the virtual buffers, 0 .. VBUF_COUNT - 1
  Chars,                      \* printing characters
  rows, cols,                 \* the monitor in glyphs: height / 16, width / 8
  requested_hist_rows,        \* history rows asked for at boot
  MaxWrites                   \* bound: characters written in one behaviour

ASSUME FrameBufferAssumption ==
  /\ rows \in Nat \ {0} /\ cols \in Nat \ {0} /\ requested_hist_rows \in Nat
  /\ 0 \in Buffers /\ MaxWrites \in Nat

Blank == "blank"
Cursor == "cursor"
Indicator == "indicator"
Mixed == "mixed"

VARIABLES
  fb,            \* frame_buffers
  active_index,
  monitor,       \* the physical frame buffer, by glyph cell
  erased,        \* history: the buffers in which backspace has been pressed
  writes         \* characters written so far (bound only)

vars == <<fb, active_index, monitor, erased, writes>>

RowIndices == 0..(rows - 1)
ColIndices == 0..(cols - 1)

os_vbuf_effective_hist_rows == IF requested_hist_rows < rows THEN rows ELSE requested_hist_rows
hist_rows == os_vbuf_effective_hist_rows

EmptyRow == [c \in ColIndices |-> Blank]

(***************************************************************************)
(* The history ring.                                                       *)
(***************************************************************************)
RingRow(f, index) == (f.base + index) % hist_rows
logical_row(f, index) == f.content[RingRow(f, index)]

os_vbuf_max_view_offset(f) == f.count - rows

os_vbuf_visible_row(f, screen_row) ==
  logical_row(f, f.count - rows - f.view_offset + screen_row)

\* Mutant: the oldest row is not dropped when the ring is full.
ContentScrollUpKeepsBase(f) ==
  LET grown == IF f.count < hist_rows THEN [f EXCEPT !.count = @ + 1] ELSE f
  IN  [grown EXCEPT !.content[RingRow(grown, grown.count - 1)] = EmptyRow]

content_scroll_up(f) ==
  LET grown == IF f.count < hist_rows
               THEN [f EXCEPT !.count = @ + 1]
               ELSE [f EXCEPT !.base = (@ + 1) % hist_rows]
  IN  [grown EXCEPT !.content[RingRow(grown, grown.count - 1)] = EmptyRow]

content_put(f, col, row, c) ==
  IF row >= rows \/ col >= cols THEN f
  ELSE [f EXCEPT !.content[RingRow(f, f.count - rows + row)][col] = c]

newline(f) ==
  LET down == [f EXCEPT !.cursor.x = 0, !.cursor.y = @ + 1]
  IN  IF down.cursor.y < rows THEN down
      ELSE [content_scroll_up(down) EXCEPT !.cursor.y = @ - 1]

(***************************************************************************)
(* Drawing.                                                                *)
(***************************************************************************)
draw_char(scr, f, c) ==
  [scr EXCEPT ![f.cursor.y][f.cursor.x] = IF @ = Blank THEN c ELSE Mixed]

PaintCursor(scr, f, colour) ==
  IF f.view_offset # 0 THEN scr ELSE [scr EXCEPT ![f.cursor.y][f.cursor.x] = colour]

draw_cursor(scr, f)  == PaintCursor(scr, f, Cursor)
erase_cursor(scr, f) == PaintCursor(scr, f, Blank)

scroll_up(scr) == [r \in RowIndices |-> IF r + 1 < rows THEN scr[r + 1] ELSE EmptyRow]

\* newline scrolls the monitor when it scrolls the ring of the active buffer.
ScrolledBy(scr, before) == IF before.cursor.y + 1 >= rows THEN scroll_up(scr) ELSE scr

render_frame_buffer(f) ==
  LET window == [r \in RowIndices |-> os_vbuf_visible_row(f, r)]
  IN  IF f.view_offset # 0
      THEN [window EXCEPT ![rows - 1] = [c \in ColIndices |-> Indicator]]
      ELSE draw_cursor(window, f)

-----------------------------------------------------------------------------
initialize_virtual_buffers ==
  /\ fb = [b \in Buffers |->
            [content     |-> [r \in 0..(hist_rows - 1) |-> EmptyRow],
             base        |-> 0,
             count       |-> rows,
             view_offset |-> 0,
             cursor      |-> [x |-> 0, y |-> 0]]]
  /\ active_index = 0

Init ==
  /\ initialize_virtual_buffers
  /\ monitor = render_frame_buffer(fb[0])
  /\ erased = {}
  /\ writes = 0

\* What write_char makes of the buffer, after its view has gone to the bottom.
Put(f, c) ==
  LET written == content_put(f, f.cursor.x, f.cursor.y, c)
      moved   == [written EXCEPT !.cursor.x = @ + 1]
  IN  IF moved.cursor.x >= cols THEN newline(moved) ELSE moved

\* What it draws when the buffer is the active one.
Drawn(scr, f, c) ==
  LET wraps == c = "\n" \/ f.cursor.x + 1 >= cols
      clean == erase_cursor(scr, f)
      glyph == IF c = "\n" THEN clean ELSE draw_char(clean, f, c)
  IN  draw_cursor(IF wraps THEN ScrolledBy(glyph, f) ELSE glyph,
                  IF c = "\n" THEN newline(f) ELSE Put(f, c))

\* write_char and os_vbuf_scroll_to_bottom first bring the view to the bottom.
Bottomed(f) == [f EXCEPT !.view_offset = 0]

write_char(b, c) ==
  LET f   == Bottomed(fb[b])
      scr == IF fb[b].view_offset # 0 THEN render_frame_buffer(f) ELSE monitor
  IN  /\ writes < MaxWrites
      /\ fb' = [fb EXCEPT ![b] = IF c = "\n" THEN newline(f) ELSE Put(f, c)]
      /\ monitor' = IF active_index = b THEN Drawn(scr, f, c) ELSE monitor
      /\ writes' = writes + 1
      /\ UNCHANGED <<active_index, erased>>

\* Output of a process, to its own buffer or through a screen stream.
ProcessOutput == \E b \in Buffers, c \in Chars \cup {"\n"} : write_char(b, c)

\* Shift+PageUp and Shift+PageDown scroll by a screenful; delta is towards the past.
os_vbuf_scroll(delta) ==
  LET f    == fb[active_index]
      next == IF f.view_offset + delta < 0 THEN 0
              ELSE IF f.view_offset + delta > os_vbuf_max_view_offset(f)
                   THEN os_vbuf_max_view_offset(f)
              ELSE f.view_offset + delta
      g    == [f EXCEPT !.view_offset = next]
  IN  /\ next # f.view_offset
      /\ fb' = [fb EXCEPT ![active_index] = g]
      /\ monitor' = render_frame_buffer(g)
      /\ UNCHANGED <<active_index, erased, writes>>

\* Any key brings a scrolled view to the bottom, even when the line being read
\* is complete and the key itself is ignored.
os_vbuf_scroll_to_bottom ==
  /\ fb[active_index].view_offset # 0
  /\ fb' = [fb EXCEPT ![active_index] = Bottomed(@)]
  /\ monitor' = render_frame_buffer(fb'[active_index])
  /\ UNCHANGED <<active_index, erased, writes>>

\* The key is echoed where the process with the focus writes; the view has
\* gone to the bottom before, exactly as write_char itself would bring it.
EchoKey(c) == write_char(active_index, c)

\* The backspace key, when the line typed so far is not empty.  The cell is
\* blackened on the monitor; the ring keeps the character.
backspace ==
  LET f     == Bottomed(fb[active_index])
      scr   == IF fb[active_index].view_offset # 0 THEN render_frame_buffer(f) ELSE monitor
      moved == [f EXCEPT !.cursor.x = @ - 1]
  IN  /\ f.cursor.x > 0
      /\ fb' = [fb EXCEPT ![active_index] = moved]
      /\ monitor' = draw_cursor(erase_cursor(erase_cursor(scr, f), moved), moved)
      /\ erased' = erased \cup {active_index}
      /\ UNCHANGED <<active_index, writes>>

\* F1 .. F4.
switch_active_frame_buffer(index) ==
  /\ index # active_index
  /\ active_index' = index
  /\ monitor' = render_frame_buffer(fb[index])
  /\ UNCHANGED <<fb, erased, writes>>

\* c_keyboard_handler, as far as the screen is concerned.
Keyboard ==
  \/ os_vbuf_scroll_to_bottom
  \/ \E c \in Chars \cup {"\n"} : EchoKey(c)
  \/ backspace
  \/ \E delta \in {rows, -rows} : os_vbuf_scroll(delta)
  \/ \E b \in Buffers : switch_active_frame_buffer(b)

Next == ProcessOutput \/ Keyboard

Spec == Init /\ [][Next]_vars

-----------------------------------------------------------------------------
Lines(f) == [i \in 1..f.count |-> logical_row(f, i - 1)]

\* The monitor shows what a redraw from the ring would show: "kept here while
\* the buffer is inactive, and redrawn on the screen when it becomes active"
\* (framebuffer.h, the field content).  Backspace is the exception: it leaves
\* the character in the ring, so a cell may stay black until the monitor is
\* redrawn, which brings the character back.
Seen ==
  LET redrawn == render_frame_buffer(fb[active_index])
  IN  IF active_index \notin erased THEN monitor
      ELSE [r \in RowIndices |-> [c \in ColIndices |->
              IF monitor[r][c] = Blank THEN redrawn[r][c] ELSE monitor[r][c]]]

\* The ring with incremental drawing implements the plain text terminal.
Abstract ==
  INSTANCE Terminal
    WITH text    <- [b \in Buffers |-> [lines |-> Lines(fb[b]),
                                       x |-> fb[b].cursor.x, y |-> fb[b].cursor.y]],
         up      <- [b \in Buffers |-> fb[b].view_offset],
         focus   <- active_index,
         monitor <- Seen

\* Refinement: every step of the ring buffers is a step of module Terminal,
\* whose monitor is always the picture of the focused text (framebuffer.c
\* write_char, os_vbuf_scroll, switch_active_frame_buffer, interrupt.c).
ImplementsTerminal == Abstract!TSpec

=============================================================================
