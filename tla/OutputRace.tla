----------------------------- MODULE OutputRace -----------------------------
(***************************************************************************)
(* write_char of src/c/framebuffer.c with interrupts on.  Nothing masks    *)
(* interrupts while a character is written, so the keyboard handler may    *)
(* echo into, scroll, or erase in the buffer between any two instructions, *)
(* and the timer may run another process that writes to the same buffer: a *)
(* screen stream belongs to the buffer that had the display focus when the *)
(* stream was made (cc_open_output_stream), not to the process using it.   *)
(*                                                                         *)
(* The state is the counters of one buffer.  Every C statement that reads  *)
(* and writes a counter is a load and a store; the value compared with a   *)
(* limit is the one loaded, as the compiler keeps it in a register.  The   *)
(* keyboard handler runs with interrupts off and is one step.  The text    *)
(* itself is the subject of module FrameBuffer.                            *)
(***************************************************************************)
EXTENDS Integers, TLAPS

CONSTANTS
  Writers,                 \* processes that write to this buffer
  rows, cols, hist_rows    \* as in module FrameBuffer

ASSUME RaceAssumption ==
  /\ rows \in Nat \ {0} /\ cols \in Nat \ {0}
  /\ hist_rows \in Nat /\ rows <= hist_rows

VARIABLES
  x, y,                \* cursor_position
  base, count,         \* the ring
  view_offset,
  pc,                  \* pc[w]: the next instruction of w inside write_char
  reg                  \* reg[w]: the value it has loaded

counters == <<x, y, base, count, view_offset>>
vars == <<x, y, base, count, view_offset, pc, reg>>

Init ==
  /\ x = 0 /\ y = 0
  /\ base = 0 /\ count = rows
  /\ view_offset = 0
  /\ pc = [w \in Writers |-> "out"]
  /\ reg = [w \in Writers |-> 0]

Goto(w, from, to) == pc[w] = from /\ pc' = [pc EXCEPT ![w] = to]
Load(w, value) == reg' = [reg EXCEPT ![w] = value]

\* A character is written, or a line feed: the view goes to the bottom first.
write_char(w) ==
  /\ \E next \in {"advance", "newline"} : Goto(w, "out", next)
  /\ view_offset' = 0
  /\ UNCHANGED <<x, y, base, count, reg>>

\* cursor_position.x += 1, and the wrap when it reaches cols.
LoadX(w) ==
  /\ Goto(w, "advance", "advanced")
  /\ Load(w, x + 1)
  /\ UNCHANGED counters

StoreX(w) ==
  /\ Goto(w, "advanced", IF reg[w] >= cols THEN "newline" ELSE "out")
  /\ x' = reg[w]
  /\ UNCHANGED <<y, base, count, view_offset, reg>>

\* newline: x = 0, y += 1 and the scroll when it reaches rows.
newline(w) ==
  /\ Goto(w, "newline", "down")
  /\ x' = 0
  /\ UNCHANGED <<y, base, count, view_offset, reg>>

LoadY(w) ==
  /\ Goto(w, "down", "downed")
  /\ Load(w, y + 1)
  /\ UNCHANGED counters

\* Mutant: a line feed on the last row does not scroll.
StoreYNoScroll(w) ==
  /\ Goto(w, "downed", IF reg[w] > rows THEN "scroll" ELSE "out")
  /\ y' = reg[w]
  /\ UNCHANGED <<x, base, count, view_offset, reg>>

StoreY(w) ==
  /\ Goto(w, "downed", IF reg[w] >= rows THEN "scroll" ELSE "out")
  /\ y' = reg[w]
  /\ UNCHANGED <<x, base, count, view_offset, reg>>

\* Mutant: the ring grows by one row too many.
ScrollUpLoadOffByOne(w) ==
  /\ Goto(w, "scroll", IF count <= hist_rows THEN "grow" ELSE "drop")
  /\ Load(w, count)
  /\ UNCHANGED counters

\* content_scroll_up: grow the ring, or drop its oldest row.
content_scroll_up(w) ==
  /\ Goto(w, "scroll", IF count < hist_rows THEN "grow" ELSE "drop")
  /\ Load(w, count)
  /\ UNCHANGED counters

StoreCount(w) ==
  /\ Goto(w, "grow", "up")
  /\ count' = reg[w] + 1
  /\ UNCHANGED <<x, y, base, view_offset, reg>>

LoadBase(w) ==
  /\ Goto(w, "drop", "dropped")
  /\ Load(w, base)
  /\ UNCHANGED counters

StoreBase(w) ==
  /\ Goto(w, "dropped", "up")
  /\ base' = (reg[w] + 1) % hist_rows
  /\ UNCHANGED <<x, y, count, view_offset, reg>>

\* newline ends with y -= 1.
LoadYUp(w) ==
  /\ Goto(w, "up", "upped")
  /\ Load(w, y - 1)
  /\ UNCHANGED counters

StoreYUp(w) ==
  /\ Goto(w, "upped", "out")
  /\ y' = reg[w]
  /\ UNCHANGED <<x, base, count, view_offset, reg>>

(***************************************************************************)
(* The keyboard handler, in one step.                                      *)
(***************************************************************************)
\* newline as the echo runs it, without interruption.
EchoNewline ==
  /\ x' = 0
  /\ IF y + 1 < rows
     THEN y' = y + 1 /\ UNCHANGED <<base, count>>
     ELSE /\ y' = y
          /\ count' = IF count < hist_rows THEN count + 1 ELSE count
          /\ base' = IF count < hist_rows THEN base ELSE (base + 1) % hist_rows

Echo ==
  /\ view_offset' = 0
  /\ \/ EchoNewline
     \/ x + 1 >= cols /\ EchoNewline
     \/ x + 1 < cols /\ x' = x + 1 /\ UNCHANGED <<y, base, count>>
  /\ UNCHANGED <<pc, reg>>

backspace ==
  /\ x > 0
  /\ x' = x - 1
  /\ view_offset' = 0
  /\ UNCHANGED <<y, base, count, pc, reg>>

\* Shift+PageUp and Shift+PageDown; the clamp of os_vbuf_scroll.
os_vbuf_scroll ==
  \E next \in {view_offset + rows, view_offset - rows} :
    /\ view_offset' = IF next < 0 THEN 0
                      ELSE IF next > count - rows THEN count - rows ELSE next
    /\ UNCHANGED <<x, y, base, count, pc, reg>>

Keyboard == Echo \/ backspace \/ os_vbuf_scroll

Write(w) ==
  \/ write_char(w) \/ LoadX(w) \/ StoreX(w) \/ newline(w) \/ LoadY(w) \/ StoreY(w)
  \/ content_scroll_up(w) \/ StoreCount(w) \/ LoadBase(w) \/ StoreBase(w)
  \/ LoadYUp(w) \/ StoreYUp(w)

Next == Keyboard \/ \E w \in Writers : Write(w)

Spec == Init /\ [][Next]_vars

-----------------------------------------------------------------------------
Quiet == \A w \in Writers : pc[w] = "out"

\* However writers and the keyboard interleave, the ring's counters stay
\* within the memory allocated for it: base is a row of the ring, and between
\* a screenful and hist_rows rows are valid (framebuffer.h, base and count).
RingInBounds == base \in 0..(hist_rows - 1) /\ count \in rows..hist_rows

\* "y is a row of the screen (0 .. rows-1)" (framebuffer.h, cursor_position),
\* and x a column, whenever no write_char is in progress.
CursorOnScreen == Quiet => x \in 0..(cols - 1) /\ y \in 0..(rows - 1)

\* "0 <= view_offset <= count - rows" (framebuffer.h, view_offset).
ViewWithinRing == view_offset \in 0..(count - rows)

-----------------------------------------------------------------------------
(***************************************************************************)
(* Proofs, for every size of screen and ring.                              *)
(***************************************************************************)
Points == {"out", "advance", "advanced", "newline", "down", "downed", "scroll",
           "grow", "drop", "dropped", "up", "upped"}

\* The counters are integers, and the base of the ring always a row of it.
CounterTypes ==
  /\ x \in Int /\ y \in Int /\ view_offset \in Int
  /\ pc \in [Writers -> Points]
  /\ reg \in [Writers -> Int]

\* A writer about to store count has loaded a count below hist_rows, however
\* long ago that was: this makes RingInBounds inductive.
LoadedCounts == \A w \in Writers : pc[w] = "grow" => reg[w] \in rows..(hist_rows - 1)

RingInv == CounterTypes /\ RingInBounds /\ LoadedCounts

\* The counters are in range at the start.
LEMMA RingInit == Init => RingInv
  BY RaceAssumption DEF Init, RingInv, CounterTypes, RingInBounds, LoadedCounts, Points

\* One step of a writer.
LEMMA RingWrite ==
  ASSUME RingInv, NEW w \in Writers, Write(w)
  PROVE  RingInv'
<1> USE RaceAssumption DEF RingInv, CounterTypes, RingInBounds, LoadedCounts, Points,
        Goto, Load, counters
<1>1. CASE write_char(w)
  BY <1>1 DEF write_char
<1>2. CASE LoadX(w)
  BY <1>2 DEF LoadX
<1>3. CASE StoreX(w)
  BY <1>3 DEF StoreX
<1>4. CASE newline(w)
  BY <1>4 DEF newline
<1>5. CASE LoadY(w)
  BY <1>5 DEF LoadY
<1>6. CASE StoreY(w)
  BY <1>6 DEF StoreY
<1>7. CASE content_scroll_up(w)
  BY <1>7 DEF content_scroll_up
<1>8. CASE StoreCount(w)
  BY <1>8 DEF StoreCount
<1>9. CASE LoadBase(w)
  BY <1>9 DEF LoadBase
<1>10. CASE StoreBase(w)
  <2>1. (reg[w] + 1) % hist_rows \in 0..(hist_rows - 1)
    OBVIOUS
  <2> QED
    BY <1>10, <2>1 DEF StoreBase
<1>11. CASE LoadYUp(w)
  BY <1>11 DEF LoadYUp
<1>12. CASE StoreYUp(w)
  BY <1>12 DEF StoreYUp
<1> QED
  BY <1>1, <1>2, <1>3, <1>4, <1>5, <1>6, <1>7, <1>8, <1>9, <1>10, <1>11, <1>12 DEF Write

\* One key.
LEMMA RingKeyboard ==
  ASSUME RingInv, Keyboard
  PROVE  RingInv'
<1> USE RaceAssumption DEF RingInv, CounterTypes, RingInBounds, LoadedCounts
<1>1. (base + 1) % hist_rows \in 0..(hist_rows - 1)
  OBVIOUS
<1>2. CASE Echo
  BY <1>1, <1>2 DEF Echo, EchoNewline
<1>3. CASE backspace
  BY <1>3 DEF backspace
<1>4. CASE os_vbuf_scroll
  BY <1>4 DEF os_vbuf_scroll
<1> QED
  BY <1>2, <1>3, <1>4 DEF Keyboard

\* The counters of the ring stay in bounds whatever the number of writers and
\* however they are interleaved with the keyboard: content_scroll_up never
\* indexes outside the ring, even though nothing masks interrupts.
THEOREM RingSafe == Spec => []RingInBounds
<1>1. ASSUME RingInv, [Next]_vars PROVE RingInv'
  <2>1. CASE UNCHANGED vars
    BY <1>1, <2>1 DEF vars, RingInv, CounterTypes, RingInBounds, LoadedCounts
  <2> QED
    BY <1>1, <2>1, RingWrite, RingKeyboard DEF Next
<1>2. RingInv => RingInBounds
  BY DEF RingInv
<1> QED
  BY RingInit, <1>1, <1>2, PTL DEF Spec

-----------------------------------------------------------------------------
(***************************************************************************)
(* One writer and the keyboard.                                            *)
(***************************************************************************)
Scrolling == {"scroll", "grow", "drop", "dropped", "up", "upped"}

\* Where the cursor may be at each point of the writer w: x is off the screen
\* only between its store and the line feed, y only while the ring scrolls, and
\* there exactly at rows, a value the keyboard handler leaves alone.
CursorInv(w) ==
  /\ x >= 0
  /\ pc[w] = "newline" => x <= cols
  /\ pc[w] # "newline" => x < cols
  /\ pc[w] = "advanced" => reg[w] \in 0..cols
  /\ pc[w] \in Scrolling => y = rows
  /\ pc[w] \notin Scrolling => y \in 0..(rows - 1)
  /\ pc[w] = "downed" => reg[w] \in 0..rows
  /\ pc[w] = "upped" => reg[w] = rows - 1

\* One step of the only writer.
LEMMA CursorWrite ==
  ASSUME NEW w, Writers = {w}, CounterTypes, CursorInv(w), Write(w)
  PROVE  CursorInv(w)'
<1> USE RaceAssumption DEF CounterTypes, CursorInv, Goto, Load, counters, Points, Scrolling
<1>1. CASE write_char(w)
  BY <1>1 DEF write_char
<1>2. CASE LoadX(w)
  BY <1>2 DEF LoadX
<1>3. CASE StoreX(w)
  BY <1>3 DEF StoreX
<1>4. CASE newline(w)
  BY <1>4 DEF newline
<1>5. CASE LoadY(w)
  BY <1>5 DEF LoadY
<1>6. CASE StoreY(w)
  BY <1>6 DEF StoreY
<1>7. CASE content_scroll_up(w)
  BY <1>7 DEF content_scroll_up
<1>8. CASE StoreCount(w)
  BY <1>8 DEF StoreCount
<1>9. CASE LoadBase(w)
  BY <1>9 DEF LoadBase
<1>10. CASE StoreBase(w)
  BY <1>10 DEF StoreBase
<1>11. CASE LoadYUp(w)
  BY <1>11 DEF LoadYUp
<1>12. CASE StoreYUp(w)
  BY <1>12 DEF StoreYUp
<1> QED
  BY <1>1, <1>2, <1>3, <1>4, <1>5, <1>6, <1>7, <1>8, <1>9, <1>10, <1>11, <1>12 DEF Write

\* One key while the only writer is anywhere.
LEMMA CursorKeyboard ==
  ASSUME NEW w, Writers = {w}, CounterTypes, CursorInv(w), Keyboard
  PROVE  CursorInv(w)'
<1> USE RaceAssumption DEF CounterTypes, CursorInv, Points, Scrolling
<1>1. CASE Echo
  BY <1>1 DEF Echo, EchoNewline
<1>2. CASE backspace
  BY <1>2 DEF backspace
<1>3. CASE os_vbuf_scroll
  BY <1>3 DEF os_vbuf_scroll
<1> QED
  BY <1>1, <1>2, <1>3 DEF Keyboard

\* With a single process writing to the buffer the keyboard handler cannot
\* push the cursor off the screen, wherever it interrupts write_char; the run
\* output_two_writers shows that a second process can.
THEOREM CursorSafe ==
  ASSUME NEW w, Writers = {w}
  PROVE  Spec => []CursorOnScreen
<1> DEFINE Inv == RingInv /\ CursorInv(w)
<1>1. Init => Inv
  <2>1. ASSUME Init PROVE CursorInv(w)
    BY <2>1, RaceAssumption DEF Init, CursorInv, Scrolling
  <2> QED
    BY <2>1, RingInit
<1>2. ASSUME Inv, [Next]_vars PROVE Inv'
  <2>1. CASE UNCHANGED vars
    BY <1>2, <2>1 DEF vars, RingInv, CounterTypes, RingInBounds, LoadedCounts, CursorInv
  <2>2. CASE Keyboard
    BY <1>2, <2>2, RingKeyboard, CursorKeyboard DEF RingInv
  <2>3. CASE Write(w)
    BY <1>2, <2>3, RingWrite, CursorWrite DEF RingInv
  <2> QED
    BY <1>2, <2>1, <2>2, <2>3 DEF Next
<1>3. Inv => CursorOnScreen
  BY RaceAssumption DEF RingInv, CounterTypes, CursorInv, CursorOnScreen, Quiet, Scrolling
<1> QED
  BY <1>1, <1>2, <1>3, PTL DEF Spec
=============================================================================
