------------------------------ MODULE Console ------------------------------
(***************************************************************************)
(* Line input: the keyboard handler (src/c/interrupt.c), the per-process   *)
(* line buffer (src/c/process.c) and the readers that consume it           *)
(* (src/c/reader.c).  The handler runs with interrupts off, so it is one   *)
(* step; a reader can be interrupted between any two stores, so            *)
(* reset_line is three steps and ensure_data several.                      *)
(*                                                                         *)
(* The handler and os_process_stdin_read_char both work on the process     *)
(* that get_current_process returns, which is the one with the display     *)
(* focus.  A REPL reads its own buffer.  What the reader makes of the      *)
(* characters is left open: after any character the form may be complete.  *)
(*                                                                         *)
(* line, confirmed, consumed, synced, shown and stray are history          *)
(* variables: the line as the user sees it, what Enter has confirmed, what *)
(* the owner of the buffer has read, whether the process has reached its   *)
(* first prompt (characters typed earlier are read without waiting for     *)
(* Enter), whether a prompt has been shown since its os_read was called,   *)
(* and the processes of which one has read the other's buffer.             *)
(***************************************************************************)
EXTENDS Integers, Sequences, SequencesExt

CONSTANTS
  Procs,                  \* processes, each with its line buffer
  StdinReaders,           \* those whose programs read (standard-input)
  Chars,                  \* printing characters
  PROCESS_STDIN_BUF_SIZE,
  MaxKeys                 \* bound: keys accepted in one behaviour

ASSUME ConsoleAssumption ==
  /\ StdinReaders \subseteq Procs
  /\ PROCESS_STDIN_BUF_SIZE \in Nat \ {0, 1} /\ MaxKeys \in Nat

VARIABLES
  focus,        \* g_current_process_index
  stdin_buf, stdin_len, read_pos, ready,
  prompt_shown, \* one static variable for all processes
  pc,           \* pc[p]: where process p is
  proc,         \* proc[p]: the process whose buffer p is reading
  reading,      \* reading[p]: "os_read" or "read_char"
  after,        \* after[p]: where p goes after reset_line
  line, confirmed, consumed, synced, shown, stray,
  keys          \* keys accepted so far (bound only)

buffers == <<stdin_buf, stdin_len, read_pos, ready>>
control == <<prompt_shown, pc, proc, reading, after>>
history == <<line, confirmed, consumed, synced, shown, stray>>
vars == <<focus, buffers, control, history, keys>>

Indices == 0..(PROCESS_STDIN_BUF_SIZE - 1)

Init ==
  /\ focus \in Procs
  /\ stdin_buf = [p \in Procs |-> [i \in Indices |-> "\n"]]
  /\ stdin_len = [p \in Procs |-> 0]
  /\ read_pos = [p \in Procs |-> 0]
  /\ ready = [p \in Procs |-> FALSE]
  /\ prompt_shown = FALSE
  /\ pc = [p \in Procs |-> "start"]
  /\ proc = [p \in Procs |-> p]
  /\ reading = [p \in Procs |-> "os_read"]
  /\ after = [p \in Procs |-> "prompt"]
  /\ line = [p \in Procs |-> <<>>]
  /\ confirmed = [p \in Procs |-> <<>>]
  /\ consumed = [p \in Procs |-> <<>>]
  /\ synced = [p \in Procs |-> FALSE]
  /\ shown = [p \in Procs |-> FALSE]
  /\ stray = {}
  /\ keys = 0

(***************************************************************************)
(* c_keyboard_handler.                                                     *)
(***************************************************************************)
\* Mutant: a full buffer is overwritten at its last character.
StdinPushOverwrites(p, c) ==
  /\ LET at == IF stdin_len[p] < PROCESS_STDIN_BUF_SIZE - 1 THEN stdin_len[p] ELSE stdin_len[p] - 1
     IN  /\ stdin_buf' = [stdin_buf EXCEPT ![p][at] = c]
         /\ stdin_len' = [stdin_len EXCEPT ![p] = at + 1]
  /\ ready' = [ready EXCEPT ![p] = @ \/ c = "\n"]

\* The character is dropped when the buffer is full, but Enter is seen.
process_stdin_push(p, c) ==
  /\ IF stdin_len[p] < PROCESS_STDIN_BUF_SIZE - 1
     THEN /\ stdin_buf' = [stdin_buf EXCEPT ![p][stdin_len[p]] = c]
          /\ stdin_len' = [stdin_len EXCEPT ![p] = @ + 1]
     ELSE UNCHANGED <<stdin_buf, stdin_len>>
  /\ ready' = [ready EXCEPT ![p] = @ \/ c = "\n"]

\* The line with c typed; its length is limited as that of the buffer is.
Typed(p, c) ==
  IF Len(line[p]) < PROCESS_STDIN_BUF_SIZE - 1 THEN Append(line[p], c) ELSE line[p]

\* A character or Enter; keys are ignored until a confirmed line is consumed.
Key(c) ==
  /\ ~ready[focus] /\ keys < MaxKeys
  /\ process_stdin_push(focus, c)
  /\ IF c = "\n" /\ synced[focus]
     THEN /\ confirmed' = [confirmed EXCEPT ![focus] = @ \o Typed(focus, c)]
          /\ line' = [line EXCEPT ![focus] = <<>>]
     ELSE /\ line' = [line EXCEPT ![focus] = Typed(focus, c)]
          /\ UNCHANGED confirmed
  /\ keys' = keys + 1
  /\ UNCHANGED <<focus, read_pos, control, consumed, synced, shown, stray>>

Backspace ==
  /\ ~ready[focus] /\ stdin_len[focus] > 0
  /\ stdin_len' = [stdin_len EXCEPT ![focus] = @ - 1]
  /\ line' = [line EXCEPT ![focus] = IF @ = <<>> THEN @ ELSE Front(@)]
  /\ UNCHANGED <<focus, stdin_buf, read_pos, ready, control, confirmed, consumed, synced,
                 shown, stray, keys>>

\* F1 .. F4.
switch_active_process(p) ==
  /\ p # focus
  /\ focus' = p
  /\ UNCHANGED <<buffers, control, history, keys>>

(***************************************************************************)
(* The readers.                                                            *)
(***************************************************************************)
Goto(p, from, to) == pc[p] = from /\ pc' = [pc EXCEPT ![p] = to]

HasMore(p) == read_pos[proc[p]] < stdin_len[proc[p]]

\* Mutant: the prompt flag is not cleared for a new form.
OsReadKeepsPrompt(p) ==
  /\ Goto(p, "start", "ensure")
  /\ proc' = [proc EXCEPT ![p] = p]
  /\ reading' = [reading EXCEPT ![p] = "os_read"]
  /\ shown' = [shown EXCEPT ![p] = FALSE]
  /\ UNCHANGED <<focus, buffers, prompt_shown, after, line, confirmed, consumed, synced, stray, keys>>

\* os_repl_step calls os_read.
os_read(p) ==
  /\ Goto(p, "start", "ensure")
  /\ prompt_shown' = FALSE
  /\ proc' = [proc EXCEPT ![p] = p]
  /\ reading' = [reading EXCEPT ![p] = "os_read"]
  /\ shown' = [shown EXCEPT ![p] = FALSE]
  /\ UNCHANGED <<focus, buffers, after, line, confirmed, consumed, synced, stray, keys>>

\* A program calls read-char on the keyboard stream.
os_process_stdin_read_char(p) ==
  /\ p \in StdinReaders
  /\ Goto(p, "eval", "ensure")
  /\ proc' = [proc EXCEPT ![p] = focus]
  /\ reading' = [reading EXCEPT ![p] = "read_char"]
  /\ stray' = IF focus = p THEN stray ELSE stray \cup {p, focus}
  /\ UNCHANGED <<focus, buffers, prompt_shown, after, line, confirmed, consumed, synced,
                 shown, keys>>

ensure_data(p) ==
  /\ Goto(p, "ensure", IF HasMore(p) THEN "take" ELSE "stdin_len")
  /\ after' = [after EXCEPT ![p] = "prompt"]
  /\ UNCHANGED <<focus, buffers, prompt_shown, proc, reading, history, keys>>

\* reset_line, first store.
ResetLength(p) ==
  /\ Goto(p, "stdin_len", "read_pos")
  /\ stdin_len' = [stdin_len EXCEPT ![proc[p]] = 0]
  /\ UNCHANGED <<focus, stdin_buf, read_pos, ready, prompt_shown, proc, reading, after,
                 history, keys>>

\* reset_line, second store.
ResetPosition(p) ==
  /\ Goto(p, "read_pos", "ready")
  /\ read_pos' = [read_pos EXCEPT ![proc[p]] = 0]
  /\ UNCHANGED <<focus, stdin_buf, stdin_len, ready, prompt_shown, proc, reading, after,
                 history, keys>>

\* reset_line, third store: keys are accepted from here on.  The history
\* starts at the first of these, with what is then in the buffer.
ResetReady(p) ==
  /\ Goto(p, "ready", after[p])
  /\ ready' = [ready EXCEPT ![proc[p]] = FALSE]
  /\ IF synced[proc[p]] THEN UNCHANGED <<synced, line>>
     ELSE /\ synced' = [synced EXCEPT ![proc[p]] = TRUE]
          /\ line' = [line EXCEPT ![proc[p]] =
                        [i \in 1..stdin_len[proc[p]] |-> stdin_buf[proc[p]][i - 1]]]
  /\ UNCHANGED <<focus, stdin_buf, stdin_len, read_pos, prompt_shown, proc, reading, after,
                 confirmed, consumed, shown, stray, keys>>

\* if (!prompt_shown) print_prompt(proc): the test.
TestPrompt(p) ==
  /\ Goto(p, "prompt", IF prompt_shown THEN "wait" ELSE "print")
  /\ UNCHANGED <<focus, buffers, prompt_shown, proc, reading, after, history, keys>>

\* The prompt is on the screen; prompt_shown = 1.
print_prompt(p) ==
  /\ Goto(p, "print", "wait")
  /\ prompt_shown' = TRUE
  /\ shown' = [q \in Procs |-> TRUE]
  /\ UNCHANGED <<focus, buffers, proc, reading, after, line, confirmed, consumed, synced, stray, keys>>

\* Mutant: only the process with the focus is woken.
WaitNeedsFocus(p) ==
  /\ ready[proc[p]] /\ focus = proc[p]
  /\ Goto(p, "wait", IF HasMore(p) THEN "take"
                     ELSE IF reading[p] = "os_read" THEN "stdin_len" ELSE "eval")
  /\ after' = [after EXCEPT ![p] = "start"]
  /\ UNCHANGED <<focus, buffers, prompt_shown, proc, reading, history, keys>>

\* The wait ends, and the caller looks again whether there is a character:
\* if not, os_read resets the line and returns nil, read-char reports the end.
os_wait_for_more_input(p) ==
  /\ ready[proc[p]]
  /\ Goto(p, "wait", IF HasMore(p) THEN "take"
                     ELSE IF reading[p] = "os_read" THEN "stdin_len" ELSE "eval")
  /\ after' = [after EXCEPT ![p] = "start"]
  /\ UNCHANGED <<focus, buffers, prompt_shown, proc, reading, history, keys>>

\* One character is read.  The form may then be complete, or it may not.
Take(p) ==
  /\ \E next \in (IF reading[p] = "os_read" THEN {"ensure", "eval"} ELSE {"eval"}) :
       Goto(p, "take", next)
  /\ read_pos' = [read_pos EXCEPT ![proc[p]] = @ + 1]
  /\ consumed' = IF proc[p] = p /\ synced[p]
                 THEN [consumed EXCEPT ![p] = Append(@, stdin_buf[p][read_pos[p]])]
                 ELSE consumed
  /\ UNCHANGED <<focus, stdin_buf, stdin_len, ready, prompt_shown, proc, reading, after,
                 line, confirmed, synced, shown, stray, keys>>

\* The form has been evaluated and printed: the next os_repl_step.
Evaluated(p) ==
  /\ Goto(p, "eval", "start")
  /\ UNCHANGED <<focus, buffers, prompt_shown, proc, reading, after, history, keys>>

Read(p) ==
  \/ os_read(p) \/ ensure_data(p) \/ ResetLength(p) \/ ResetPosition(p) \/ ResetReady(p)
  \/ TestPrompt(p) \/ print_prompt(p) \/ os_wait_for_more_input(p) \/ Take(p) \/ Evaluated(p)

Next ==
  \/ \E c \in Chars \cup {"\n"} : Key(c)
  \/ Backspace
  \/ \E p \in Procs : switch_active_process(p) \/ Read(p) \/ os_process_stdin_read_char(p)

\* The timer gives every process its turn (module Scheduler) and evaluation
\* ends; the user need not type.
Spec == Init /\ [][Next]_vars /\ \A p \in Procs : WF_vars(Read(p))

-----------------------------------------------------------------------------
\* From its first prompt on, a process reads exactly the lines that Enter has
\* confirmed, in order, with the corrections made by backspace, whatever the
\* keyboard handler does between the stores of reset_line and whoever has the
\* focus (ensure_data, reset_line, c_keyboard_handler), as long as no program
\* reads (standard-input) while another process has the focus.
LinesInOrder == \A p \in Procs \ stray : IsPrefix(consumed[p], confirmed[p])

\* "Whether the prompt has been shown within this os_read" (prompt_shown): a
\* REPL that waits for input does so after a prompt has been shown since its
\* os_read was called, its own or, the flag being shared, another's.
PromptBeforeWait ==
  \A p \in Procs : pc[p] = "wait" /\ reading[p] = "os_read" => shown[p]

\* A confirmed line is read to its end, after which keys are accepted again
\* (os_wait_for_more_input, reset_line).
LineIsRead ==
  \A p \in Procs : ready[p] ~> (p \in stray \/ (~ready[p] /\ consumed[p] = confirmed[p]))

=============================================================================
