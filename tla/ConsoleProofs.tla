---------------------------- MODULE ConsoleProofs ----------------------------
(***************************************************************************)
(* Proofs about module Console, for any number of processes, any set of    *)
(* characters, any size of the line buffer and any number of keys.         *)
(***************************************************************************)
EXTENDS Console, SequenceTheorems, TLAPS

CharSet == Chars \cup {"\n"}
Waiting == {"prompt", "print", "wait"}
Resetting == {"stdin_len", "read_pos", "ready"}
Points == {"start", "ensure", "take", "eval"} \cup Waiting \cup Resetting

\* Nothing is said of consumed[p] and of the range of read_pos here: several
\* readers of one buffer can run past its end.
TypeInv ==
  /\ focus \in Procs
  /\ stdin_buf \in [Procs -> [Indices -> CharSet]]
  /\ stdin_len \in [Procs -> Indices]
  /\ read_pos \in [Procs -> Nat]
  /\ ready \in [Procs -> BOOLEAN]
  /\ pc \in [Procs -> Points]
  /\ proc \in [Procs -> Procs]
  /\ reading \in [Procs -> {"os_read", "read_char"}]
  /\ after \in [Procs -> {"prompt", "start"}]
  /\ line \in [Procs -> Seq(CharSet)]
  /\ confirmed \in [Procs -> Seq(CharSet)]
  /\ DOMAIN consumed = Procs
  /\ synced \in [Procs -> BOOLEAN]
  /\ stray \subseteq Procs

\* p reads its own buffer and is the only process that does.
Private(p) == proc[p] = p /\ \A q \in Procs : q # p => proc[q] # p

\* Before its first prompt a process has read and confirmed nothing that counts.
BeforePrompt(p) ==
  /\ consumed[p] = <<>> /\ confirmed[p] = <<>>
  /\ pc[p] \notin Waiting
  /\ pc[p] = "ready" => read_pos[p] = 0

\* What has been confirmed is what has been consumed, followed by the part of
\* the buffer from read_pos on.
Unread(p) ==
  /\ read_pos[p] <= stdin_len[p]
  /\ Len(confirmed[p]) = Len(consumed[p]) + stdin_len[p] - read_pos[p]
  /\ \A i \in 1..Len(consumed[p]) : confirmed[p][i] = consumed[p][i]
  /\ \A i \in Indices : read_pos[p] <= i /\ i < stdin_len[p] =>
       confirmed[p][Len(consumed[p]) + i - read_pos[p] + 1] = stdin_buf[p][i]

\* Keys are accepted: the process waits for Enter, everything confirmed has been
\* consumed and the buffer is the line as typed so far.
LineOpen(p) ==
  /\ pc[p] \in Waiting
  /\ read_pos[p] = 0
  /\ consumed[p] = confirmed[p]
  /\ Len(line[p]) = stdin_len[p]
  /\ \A i \in 1..stdin_len[p] : line[p][i] = stdin_buf[p][i - 1]

\* A confirmed line is in the buffer until the last store of reset_line.
LineConfirmed(p) ==
  /\ line[p] = <<>>
  /\ pc[p] \in Waiting => read_pos[p] = 0 /\ stdin_len[p] > 0
  /\ pc[p] = "take" => read_pos[p] < stdin_len[p]
  /\ pc[p] \notin Resetting => Unread(p)
  /\ pc[p] \in Resetting => consumed[p] = confirmed[p]
  /\ pc[p] \in {"read_pos", "ready"} => stdin_len[p] = 0
  /\ pc[p] = "ready" => read_pos[p] = 0

AfterPrompt(p) ==
  /\ consumed[p] \in Seq(CharSet)
  /\ IF ready[p] THEN LineConfirmed(p) ELSE LineOpen(p)

OwnLines(p) ==
  /\ Private(p)
  /\ pc[p] \in Resetting => after[p] = "prompt"
  /\ IF synced[p] THEN AfterPrompt(p) ELSE BeforePrompt(p)

LineInv == \A p \in Procs \ stray : OwnLines(p)

IInv == TypeInv /\ LineInv

-----------------------------------------------------------------------------
\* A function on 1..n is a sequence.
LEMMA FunctionIsSeq ==
  ASSUME NEW S, NEW n \in Nat, NEW f \in [1..n -> S]
  PROVE  f \in Seq(S)
<1>1. \E m \in Nat : f \in [1..m -> S]
  OBVIOUS
<1> QED
  BY <1>1, SeqDef

\* The length and the elements of a concatenation.
LEMMA Concatenation ==
  ASSUME NEW S, NEW a \in Seq(S), NEW b \in Seq(S)
  PROVE  /\ Len(a \o b) = Len(a) + Len(b)
         /\ \A i \in 1..Len(a) : (a \o b)[i] = a[i]
         /\ \A i \in 1..Len(b) : (a \o b)[Len(a) + i] = b[i]
  OBVIOUS

\* The variables have their types at the start.
LEMMA TypeInit == Init => TypeInv
<1> SUFFICES ASSUME Init PROVE TypeInv
  OBVIOUS
<1> USE ConsoleAssumption DEF Init, TypeInv, Indices, CharSet, Points
<1>1. stdin_buf \in [Procs -> [Indices -> CharSet]] /\ stdin_len \in [Procs -> Indices]
  OBVIOUS
<1>2. line \in [Procs -> Seq(CharSet)] /\ confirmed \in [Procs -> Seq(CharSet)]
  OBVIOUS
<1> QED
  BY <1>1, <1>2

\* The line with one more character is a line.
LEMMA TypedType ==
  ASSUME TypeInv, NEW p \in Procs, NEW c \in CharSet
  PROVE  Typed(p, c) \in Seq(CharSet)
  BY DEF Typed, TypeInv

\* ... after a key,
LEMMA TypeKey ==
  ASSUME TypeInv, NEW c \in CharSet, Key(c)
  PROVE  TypeInv'
<1> USE ConsoleAssumption DEF TypeInv, Indices
<1>1. stdin_buf' \in [Procs -> [Indices -> CharSet]] /\ stdin_len' \in [Procs -> Indices]
  <2>1. CASE stdin_len[focus] < PROCESS_STDIN_BUF_SIZE - 1
    <3>1. stdin_len[focus] + 1 \in Indices /\ stdin_len[focus] \in Indices
      BY <2>1
    <3>2. [stdin_buf[focus] EXCEPT ![stdin_len[focus]] = c] \in [Indices -> CharSet]
      BY <3>1
    <3>3. /\ stdin_buf' = [stdin_buf EXCEPT ![focus] = [@ EXCEPT ![stdin_len[focus]] = c]]
          /\ stdin_len' = [stdin_len EXCEPT ![focus] = @ + 1]
      BY <2>1 DEF Key, process_stdin_push
    <3> QED
      BY <3>1, <3>2, <3>3
  <2>2. CASE ~(stdin_len[focus] < PROCESS_STDIN_BUF_SIZE - 1)
    BY <2>2 DEF Key, process_stdin_push
  <2> QED
    BY <2>1, <2>2
<1>2. ready' \in [Procs -> BOOLEAN]
  BY DEF Key, process_stdin_push
<1>3. Typed(focus, c) \in Seq(CharSet) /\ confirmed[focus] \o Typed(focus, c) \in Seq(CharSet)
  BY TypedType
<1>4. line' \in [Procs -> Seq(CharSet)] /\ confirmed' \in [Procs -> Seq(CharSet)]
  <2>1. <<>> \in Seq(CharSet)
    OBVIOUS
  <2>2. CASE c = "\n" /\ synced[focus]
    <3>1. /\ confirmed' = [confirmed EXCEPT ![focus] = @ \o Typed(focus, c)]
          /\ line' = [line EXCEPT ![focus] = <<>>]
      BY <2>2, SMT DEF Key
    <3>2. confirmed' \in [Procs -> Seq(CharSet)]
      BY <1>3, <3>1
    <3>3. line' \in [Procs -> Seq(CharSet)]
      BY <2>1, <3>1
    <3> QED
      BY <3>2, <3>3
  <2>3. CASE ~(c = "\n" /\ synced[focus])
    BY <1>3, <2>3 DEF Key
  <2> QED
    BY <2>2, <2>3
<1> QED
  BY <1>1, <1>2, <1>4 DEF Key, control

\* ... after a backspace,
LEMMA TypeBackspace ==
  ASSUME TypeInv, Backspace
  PROVE  TypeInv'
<1> USE ConsoleAssumption DEF TypeInv, Indices
<1>1. line' \in [Procs -> Seq(CharSet)]
  BY DEF Backspace, Front
<1>2. stdin_len' \in [Procs -> Indices]
  BY DEF Backspace
<1> QED
  BY <1>1, <1>2 DEF Backspace, control

\* ... and after a step of a reader.
LEMMA TypeRead ==
  ASSUME TypeInv, NEW q \in Procs, Read(q) \/ os_process_stdin_read_char(q)
  PROVE  TypeInv'
<1>0. 0 \in Indices /\ Indices \subseteq Nat
  BY ConsoleAssumption DEF Indices
<1> USE DEF TypeInv, Goto, Points, Waiting, Resetting, buffers, history
<1>1. CASE os_read(q)
  BY <1>1 DEF os_read
<1>2. CASE ensure_data(q)
  BY <1>2 DEF ensure_data
<1>3. CASE ResetLength(q)
  <2>1. stdin_len' \in [Procs -> Indices]
    BY <1>0, <1>3 DEF ResetLength
  <2>2. pc' \in [Procs -> Points]
    BY <1>3 DEF ResetLength
  <2> QED
    BY <1>3, <2>1, <2>2 DEF ResetLength
<1>4. CASE ResetPosition(q)
  <2>1. read_pos' \in [Procs -> Nat]
    BY <1>4 DEF ResetPosition
  <2>2. pc' \in [Procs -> Points]
    BY <1>4 DEF ResetPosition
  <2> QED
    BY <1>4, <2>1, <2>2 DEF ResetPosition
<1>5. CASE ResetReady(q)
  <2> DEFINE b == proc[q]
             typed == [i \in 1..stdin_len[b] |-> stdin_buf[b][i - 1]]
  <2>1. typed \in Seq(CharSet)
    <3>1. b \in Procs /\ stdin_len[b] \in Nat /\ stdin_len[b] \in Indices /\ stdin_buf[b] \in [Indices -> CharSet]
      BY <1>0
    <3>2. ASSUME NEW i \in 1..stdin_len[b] PROVE i - 1 \in Indices
      BY <3>1, ConsoleAssumption DEF Indices
    <3>3. typed \in [1..stdin_len[b] -> CharSet]
      BY <3>1, <3>2
    <3> HIDE DEF typed, b
    <3> QED
      BY <3>1, <3>3, FunctionIsSeq
  <2> HIDE DEF typed
  <2>2. line' \in [Procs -> Seq(CharSet)]
    <3>1. line' = line \/ line' = [line EXCEPT ![b] = typed]
      BY <1>5 DEF ResetReady, typed
    <3> QED
      BY <2>1, <3>1
  <2>3. synced' \in [Procs -> BOOLEAN] /\ ready' \in [Procs -> BOOLEAN]
    BY <1>5 DEF ResetReady
  <2>4. pc' \in [Procs -> Points]
    BY <1>5 DEF ResetReady
  <2> QED
    BY <1>5, <2>2, <2>3, <2>4 DEF ResetReady
<1>6. CASE TestPrompt(q)
  BY <1>6 DEF TestPrompt
<1>7. CASE print_prompt(q)
  BY <1>7 DEF print_prompt
<1>8. CASE os_wait_for_more_input(q)
  BY <1>8 DEF os_wait_for_more_input
<1>9. CASE Take(q)
  <2>1. read_pos' \in [Procs -> Nat]
    BY <1>9 DEF Take
  <2>2. pc' \in [Procs -> Points]
    BY <1>9 DEF Take
  <2>3. DOMAIN consumed' = Procs
    BY <1>9 DEF Take
  <2> QED
    BY <1>9, <2>1, <2>2, <2>3 DEF Take
<1>10. CASE Evaluated(q)
  BY <1>10 DEF Evaluated
<1>11. CASE os_process_stdin_read_char(q)
  BY <1>11 DEF os_process_stdin_read_char
<1> QED
  BY <1>1, <1>2, <1>3, <1>4, <1>5, <1>6, <1>7, <1>8, <1>9, <1>10, <1>11 DEF Read

-----------------------------------------------------------------------------
(***************************************************************************)
(* What one step does to the lines of a process p that no program has made *)
(* stray.                                                                  *)
(***************************************************************************)
LEMMA LineInit == Init => LineInv
  BY ConsoleAssumption
  DEF Init, LineInv, OwnLines, Private, BeforePrompt, Waiting, Resetting

Untouched(p) ==
  /\ stdin_buf'[p] = stdin_buf[p] /\ stdin_len'[p] = stdin_len[p]
  /\ read_pos'[p] = read_pos[p] /\ ready'[p] = ready[p] /\ synced'[p] = synced[p]
  /\ pc'[p] = pc[p] /\ after'[p] = after[p]
  /\ line'[p] = line[p] /\ confirmed'[p] = confirmed[p] /\ consumed'[p] = consumed[p]

\* A step that leaves the buffer, the control and the history of p alone.
LEMMA UntouchedLines ==
  ASSUME NEW p \in Procs, OwnLines(p), Untouched(p), Private(p)'
  PROVE  OwnLines(p)'
  BY SMTT(30) DEF OwnLines, Untouched, AfterPrompt, BeforePrompt, LineOpen, LineConfirmed, Unread

\* A key goes to the buffer of the process with the focus, and is accepted
\* only while its line is open or before its first prompt.
LEMMA LinesKey ==
  ASSUME IInv, NEW c \in CharSet, Key(c), NEW p \in Procs, p \notin stray
  PROVE  OwnLines(p)'
<1> USE ConsoleAssumption DEF IInv
<1>0. OwnLines(p)
  BY DEF LineInv
<1>1. Private(p)'
  BY <1>0 DEF OwnLines, Private, Key, control
<1>2. CASE p # focus
  <2>1. Untouched(p)
    BY <1>2 DEF Untouched, TypeInv, Key, process_stdin_push, control
  <2> QED
    BY <1>0, <1>1, <2>1, UntouchedLines
<1>3. CASE p = focus /\ ~synced[p]
  <2>1. /\ pc'[p] = pc[p] /\ after'[p] = after[p] /\ read_pos'[p] = read_pos[p]
        /\ confirmed'[p] = confirmed[p] /\ consumed'[p] = consumed[p] /\ synced'[p] = synced[p]
    BY <1>3 DEF Key, control, TypeInv
  <2> QED
    BY <1>0, <1>1, <1>3, <2>1 DEF OwnLines, BeforePrompt
<1>4. CASE p = focus /\ synced[p]
  <2> DEFINE n == stdin_len[p]
  <2>1. LineOpen(p) /\ ~ready[p] /\ consumed[p] \in Seq(CharSet)
    BY <1>0, <1>4 DEF OwnLines, AfterPrompt, Key
  <2>2. /\ pc'[p] = pc[p] /\ after'[p] = after[p] /\ read_pos'[p] = 0
        /\ consumed'[p] = consumed[p] /\ synced'[p] /\ pc[p] \in Waiting
        /\ consumed[p] = confirmed[p] /\ pc[p] \notin Resetting /\ pc[p] # "take"
    BY <1>4, <2>1 DEF Key, control, TypeInv, LineOpen, Waiting, Resetting
  <2>3. /\ n \in Indices /\ line[p] \in Seq(CharSet) /\ Len(line[p]) = n
        /\ \A i \in 1..n : line[p][i] = stdin_buf[p][i - 1]
    BY <2>1 DEF TypeInv, LineOpen
  <2>4. Typed(p, c) \in Seq(CharSet)
    BY TypedType
  <2>5. /\ stdin_len'[p] = Len(Typed(p, c)) /\ Len(Typed(p, c)) > 0
        /\ \A i \in 1..Len(Typed(p, c)) : Typed(p, c)[i] = stdin_buf'[p][i - 1]
    <3>1. CASE n < PROCESS_STDIN_BUF_SIZE - 1
      <4>1. /\ Typed(p, c) = Append(line[p], c) /\ Len(Typed(p, c)) = n + 1
            /\ \A i \in 1..n : Typed(p, c)[i] = line[p][i]
            /\ Typed(p, c)[n + 1] = c
        BY <2>3, <3>1 DEF Typed, Indices
      <4>2. stdin_buf'[p] = [stdin_buf[p] EXCEPT ![n] = c] /\ stdin_len'[p] = n + 1
        BY <1>4, <3>1 DEF Key, process_stdin_push, TypeInv
      <4>3. stdin_buf[p] \in [Indices -> CharSet]
        BY DEF TypeInv
      <4> QED
        BY <2>3, <4>1, <4>2, <4>3 DEF Indices
    <3>2. CASE ~(n < PROCESS_STDIN_BUF_SIZE - 1)
      <4>1. Typed(p, c) = line[p] /\ stdin_buf'[p] = stdin_buf[p] /\ stdin_len'[p] = n
        BY <1>4, <2>3, <3>2 DEF Typed, Key, process_stdin_push
      <4> QED
        BY <2>3, <3>2, <4>1 DEF Indices
    <3> QED
      BY <3>1, <3>2
  <2>6. CASE c = "\n"
    <3>1. /\ ready'[p] /\ line'[p] = <<>>
          /\ confirmed'[p] = confirmed[p] \o Typed(p, c)
      BY <1>4, <2>6 DEF Key, process_stdin_push, TypeInv
    <3>2. LineConfirmed(p)'
      <4>1. confirmed[p] \in Seq(CharSet)
        BY DEF TypeInv
      <4>2. Unread(p)'
        <5> DEFINE t == Typed(p, c)
                   m == Len(consumed[p])
        <5>1. /\ t \in Seq(CharSet) /\ Len(t) \in Nat /\ stdin_len'[p] = Len(t)
              /\ m \in Nat /\ m = Len(confirmed[p])
          BY <2>2, <2>4, <2>5, <4>1
        <5>2. /\ Len(confirmed'[p]) = m + Len(t)
              /\ \A i \in 1..m : confirmed'[p][i] = confirmed[p][i]
              /\ \A i \in 1..Len(t) : confirmed'[p][m + i] = t[i]
          <6>1. confirmed'[p] = confirmed[p] \o t
            BY <3>1
          <6> HIDE DEF t, m
          <6>2. /\ Len(confirmed[p] \o t) = Len(confirmed[p]) + Len(t)
                /\ \A i \in 1..Len(confirmed[p]) : (confirmed[p] \o t)[i] = confirmed[p][i]
                /\ \A i \in 1..Len(t) : (confirmed[p] \o t)[Len(confirmed[p]) + i] = t[i]
            BY <4>1, <5>1, Concatenation
          <6> QED
            BY <5>1, <6>1, <6>2
        <5> HIDE DEF t, m
        <5>3. ASSUME NEW i \in Indices, i < Len(t)
              PROVE  confirmed'[p][m + i + 1] = stdin_buf'[p][i]
          <6>0. i \in Nat
            BY DEF Indices
          <6>1. i + 1 \in 1..Len(t) /\ (i + 1) - 1 = i /\ m + (i + 1) = m + i + 1
            <7>1. PICK n1 \in Nat, n2 \in Nat : n1 = Len(t) /\ n2 = m
              BY <5>1
            <7> QED
              BY <5>3, <6>0, <7>1
          <6>2. t[i + 1] = stdin_buf'[p][i]
            BY <2>5, <6>1 DEF t
          <6> QED
            BY <5>2, <6>1, <6>2
        <5>4. \A i \in Indices : m + i - 0 + 1 = m + i + 1
          BY <5>1 DEF Indices
        <5> QED
          BY <2>2, <5>1, <5>2, <5>3, <5>4 DEF Unread, m
      <4> QED
        BY <2>2, <2>5, <3>1, <4>2 DEF LineConfirmed, Resetting, Waiting
    <3> QED
      BY <1>1, <2>1, <2>2, <3>1, <3>2 DEF OwnLines, AfterPrompt
  <2>7. CASE c # "\n"
    <3>1. /\ ~ready'[p] /\ line'[p] = Typed(p, c) /\ confirmed'[p] = confirmed[p]
      BY <1>4, <2>1, <2>7 DEF Key, process_stdin_push, TypeInv
    <3>2. LineOpen(p)'
      BY <2>2, <2>5, <3>1 DEF LineOpen
    <3> QED
      BY <1>1, <2>1, <2>2, <3>1, <3>2 DEF OwnLines, AfterPrompt
  <2> QED
    BY <2>6, <2>7
<1> QED
  BY <1>2, <1>3, <1>4 DEF TypeInv

\* Backspace takes the last character of an open line and touches no other.
LEMMA LinesBackspace ==
  ASSUME IInv, Backspace, NEW p \in Procs, p \notin stray
  PROVE  OwnLines(p)'
<1> USE ConsoleAssumption DEF IInv
<1>0. OwnLines(p)
  BY DEF LineInv
<1>1. Private(p)'
  BY <1>0 DEF OwnLines, Private, Backspace, control
<1>2. CASE p # focus
  <2>1. Untouched(p)
    BY <1>2 DEF Untouched, TypeInv, Backspace, control
  <2> QED
    BY <1>0, <1>1, <2>1, UntouchedLines
<1>3. CASE p = focus
  <2>1. /\ pc'[p] = pc[p] /\ after'[p] = after[p] /\ read_pos'[p] = read_pos[p]
        /\ confirmed'[p] = confirmed[p] /\ consumed'[p] = consumed[p] /\ synced'[p] = synced[p]
        /\ stdin_buf'[p] = stdin_buf[p] /\ ~ready[p] /\ ready'[p] = ready[p]
        /\ stdin_len'[p] = stdin_len[p] - 1 /\ stdin_len[p] > 0
    BY <1>3 DEF Backspace, control, TypeInv
  <2>2. CASE ~synced[p]
    BY <1>0, <1>1, <2>1, <2>2 DEF OwnLines, BeforePrompt
  <2>3. CASE synced[p]
    <3>1. LineOpen(p) /\ consumed[p] \in Seq(CharSet)
      BY <1>0, <2>1, <2>3 DEF OwnLines, AfterPrompt
    <3>2. line[p] \in Seq(CharSet) /\ stdin_len[p] \in Indices /\ Len(line[p]) = stdin_len[p]
      BY <3>1 DEF TypeInv, LineOpen
    <3>3. line'[p] = SubSeq(line[p], 1, Len(line[p]) - 1)
      BY <1>3, <2>1, <3>2 DEF Backspace, Front, TypeInv
    <3>4. Len(line'[p]) = stdin_len[p] - 1 /\ \A i \in 1..(stdin_len[p] - 1) : line'[p][i] = line[p][i]
      BY <2>1, <3>2, <3>3 DEF Indices
    <3>5. LineOpen(p)'
      BY <2>1, <3>1, <3>2, <3>4 DEF LineOpen, Indices
    <3> QED
      BY <1>0, <1>1, <2>1, <2>3, <3>1, <3>5 DEF OwnLines, AfterPrompt
  <2> QED
    BY <2>2, <2>3
<1> QED
  BY <1>2, <1>3

\* A step of another process, which reads no other buffer than p's own.
LEMMA LinesOther ==
  ASSUME IInv, NEW p \in Procs, NEW q \in Procs, p # q, p \notin stray', stray \subseteq stray',
         Read(q) \/ os_process_stdin_read_char(q)
  PROVE  OwnLines(p)'
<1> USE DEF IInv, TypeInv
<1>0. OwnLines(p) /\ Private(p)
  BY DEF LineInv, OwnLines
<1> DEFINE b == proc[q]
<1>1. b # p /\ b \in Procs
  BY <1>0 DEF Private
<1>2. Untouched(p)
  <2> USE <1>1 DEF Untouched, Goto, buffers, history
  <2>1. CASE os_read(q)
    BY <2>1 DEF os_read
  <2>2. CASE ensure_data(q)
    BY <2>2 DEF ensure_data
  <2>3. CASE ResetLength(q)
    BY <2>3 DEF ResetLength
  <2>4. CASE ResetPosition(q)
    BY <2>4 DEF ResetPosition
  <2>5. CASE ResetReady(q)
    BY <2>5 DEF ResetReady
  <2>6. CASE TestPrompt(q)
    BY <2>6 DEF TestPrompt
  <2>7. CASE print_prompt(q)
    BY <2>7 DEF print_prompt
  <2>8. CASE os_wait_for_more_input(q)
    BY <2>8 DEF os_wait_for_more_input
  <2>9. CASE Take(q)
    BY <2>9 DEF Take
  <2>10. CASE Evaluated(q)
    BY <2>10 DEF Evaluated
  <2>11. CASE os_process_stdin_read_char(q)
    BY <2>11 DEF os_process_stdin_read_char
  <2> QED
    BY <2>1, <2>2, <2>3, <2>4, <2>5, <2>6, <2>7, <2>8, <2>9, <2>10, <2>11 DEF Read
<1>3. proc'[p] = p /\ \A r \in Procs : r # p => proc'[r] # p
  <2> USE <1>0 DEF Private
  <2>1. CASE os_read(q)
    BY <2>1 DEF os_read
  <2>2. CASE os_process_stdin_read_char(q)
    BY <2>2 DEF os_process_stdin_read_char
  <2>3. CASE UNCHANGED proc
    BY <2>3
  <2> QED
    BY <2>1, <2>2, <2>3 DEF Read, ensure_data, ResetLength, ResetPosition, ResetReady,
       TestPrompt, print_prompt, os_wait_for_more_input, Take, Evaluated
<1> QED
  BY <1>0, <1>2, <1>3, UntouchedLines DEF Private

\* A step of p itself.
LEMMA LinesOwn ==
  ASSUME IInv, NEW p \in Procs, p \notin stray', stray \subseteq stray',
         Read(p) \/ os_process_stdin_read_char(p)
  PROVE  OwnLines(p)'
<1> USE ConsoleAssumption DEF IInv
<1>0. OwnLines(p) /\ Private(p) /\ proc[p] = p
  BY DEF LineInv, OwnLines, Private
<1>1. Private(p)'
  <2> USE <1>0 DEF Private, TypeInv
  <2>1. CASE os_read(p)
    BY <2>1 DEF os_read
  <2>2. CASE os_process_stdin_read_char(p)
    BY <2>2 DEF os_process_stdin_read_char
  <2>3. CASE UNCHANGED proc
    BY <2>3
  <2> QED
    BY <2>1, <2>2, <2>3 DEF Read, ensure_data, ResetLength, ResetPosition, ResetReady,
       TestPrompt, print_prompt, os_wait_for_more_input, Take, Evaluated
<1> USE DEF Goto, buffers, history
<1> DEFINE Same == /\ stdin_buf'[p] = stdin_buf[p] /\ stdin_len'[p] = stdin_len[p]
                   /\ read_pos'[p] = read_pos[p] /\ ready'[p] = ready[p] /\ synced'[p] = synced[p]
                   /\ line'[p] = line[p] /\ confirmed'[p] = confirmed[p] /\ consumed'[p] = consumed[p]
<1>2. ASSUME Same, pc[p] \notin Resetting, pc'[p] \notin Resetting,
             pc[p] \in Waiting <=> pc'[p] \in Waiting, pc'[p] # "take"
      PROVE  OwnLines(p)'
  BY <1>0, <1>1, <1>2
  DEF OwnLines, AfterPrompt, BeforePrompt, LineOpen, LineConfirmed, Unread, Resetting, Waiting
<1>3. CASE os_read(p)
  BY <1>2, <1>3 DEF os_read, TypeInv, Resetting, Waiting
<1>4. CASE os_process_stdin_read_char(p)
  BY <1>2, <1>4 DEF os_process_stdin_read_char, TypeInv, Resetting, Waiting
<1>5. CASE Evaluated(p)
  BY <1>2, <1>5 DEF Evaluated, TypeInv, Resetting, Waiting
<1>6. CASE TestPrompt(p)
  BY <1>2, <1>6 DEF TestPrompt, TypeInv, Resetting, Waiting
<1>7. CASE print_prompt(p)
  BY <1>2, <1>7 DEF print_prompt, TypeInv, Resetting, Waiting
<1>8. CASE ensure_data(p)
  <2>1. Same /\ after'[p] = "prompt" /\ pc[p] = "ensure" /\ pc'[p] = IF HasMore(p) THEN "take" ELSE "stdin_len"
    BY <1>8 DEF ensure_data, TypeInv
  <2>2. CASE ~synced[p]
    BY <1>0, <1>1, <2>1, <2>2 DEF OwnLines, BeforePrompt, Waiting, Resetting
  <2>3. CASE synced[p]
    <3>1. LineConfirmed(p) /\ ready[p] /\ consumed[p] \in Seq(CharSet) /\ Unread(p)
      BY <1>0, <2>1, <2>3 DEF OwnLines, AfterPrompt, LineOpen, LineConfirmed, Waiting, Resetting
    <3>2. CASE HasMore(p)
      <4>1. read_pos[p] < stdin_len[p]
        BY <1>0, <3>2 DEF HasMore
      <4>2. Unread(p)'
        BY <2>1, <3>1 DEF Unread
      <4>3. LineConfirmed(p)'
        BY <2>1, <3>1, <3>2, <4>1, <4>2 DEF LineConfirmed, Waiting, Resetting
      <4> QED
        BY <1>1, <2>1, <2>3, <3>1, <3>2, <4>3 DEF OwnLines, AfterPrompt, Resetting
    <3>3. CASE ~HasMore(p)
      <4>1. read_pos[p] = stdin_len[p]
        BY <1>0, <3>1, <3>3 DEF HasMore, Unread, TypeInv, Indices
      <4>2. consumed[p] = confirmed[p]
        <5>1. confirmed[p] \in Seq(CharSet) /\ Len(confirmed[p]) = Len(consumed[p])
          BY <3>1, <4>1 DEF Unread, TypeInv, Indices
        <5> QED
          BY <3>1, <5>1, SeqEqual DEF Unread
      <4>3. LineConfirmed(p)'
        BY <2>1, <3>1, <3>3, <4>2 DEF LineConfirmed, Waiting, Resetting
      <4> QED
        BY <1>1, <2>1, <2>3, <3>1, <3>3, <4>3 DEF OwnLines, AfterPrompt, Resetting
    <3> QED
      BY <3>2, <3>3
  <2> QED
    BY <2>2, <2>3
<1>9. CASE ResetLength(p)
  <2>1. /\ stdin_len'[p] = 0 /\ pc[p] = "stdin_len" /\ pc'[p] = "read_pos" /\ after'[p] = after[p]
        /\ read_pos'[p] = read_pos[p] /\ ready'[p] = ready[p] /\ synced'[p] = synced[p]
        /\ line'[p] = line[p] /\ confirmed'[p] = confirmed[p] /\ consumed'[p] = consumed[p]
    BY <1>0, <1>9 DEF ResetLength, TypeInv
  <2> QED
    BY <1>0, <1>1, <2>1
    DEF OwnLines, BeforePrompt, AfterPrompt, LineOpen, LineConfirmed, Waiting, Resetting
<1>10. CASE ResetPosition(p)
  <2>1. /\ read_pos'[p] = 0 /\ pc[p] = "read_pos" /\ pc'[p] = "ready" /\ after'[p] = after[p]
        /\ stdin_len'[p] = stdin_len[p] /\ ready'[p] = ready[p] /\ synced'[p] = synced[p]
        /\ line'[p] = line[p] /\ confirmed'[p] = confirmed[p] /\ consumed'[p] = consumed[p]
    BY <1>0, <1>10 DEF ResetPosition, TypeInv
  <2> QED
    BY <1>0, <1>1, <2>1
    DEF OwnLines, BeforePrompt, AfterPrompt, LineOpen, LineConfirmed, Waiting, Resetting
<1>11. CASE ResetReady(p)
  <2> DEFINE typed == [i \in 1..stdin_len[p] |-> stdin_buf[p][i - 1]]
  <2>1. /\ pc[p] = "ready" /\ pc'[p] = "prompt" /\ ~ready'[p] /\ synced'[p]
        /\ stdin_len'[p] = stdin_len[p] /\ stdin_buf'[p] = stdin_buf[p]
        /\ read_pos'[p] = read_pos[p] /\ confirmed'[p] = confirmed[p] /\ consumed'[p] = consumed[p]
        /\ line'[p] = IF synced[p] THEN line[p] ELSE typed
    <3>1. pc[p] = "ready" /\ after[p] = "prompt"
      BY <1>0, <1>11 DEF ResetReady, OwnLines, Resetting
    <3>2. pc'[p] = "prompt" /\ ~ready'[p]
      BY <1>0, <1>11, <3>1 DEF ResetReady, TypeInv
    <3>3. synced'[p] /\ line'[p] = IF synced[p] THEN line[p] ELSE typed
      <4>1. CASE synced[p]
        BY <1>0, <1>11, <4>1 DEF ResetReady
      <4>2. CASE ~synced[p]
        <5>1. /\ synced' = [synced EXCEPT ![p] = TRUE]
              /\ line' = [line EXCEPT ![p] = typed]
          BY <1>0, <1>11, <4>2 DEF ResetReady
        <5> HIDE DEF typed
        <5> QED
          BY <4>2, <5>1 DEF TypeInv
      <4> QED
        BY <4>1, <4>2
    <3> QED
      BY <1>11, <3>1, <3>2, <3>3 DEF ResetReady
  <2>2. read_pos[p] = 0 /\ consumed[p] = confirmed[p]
    BY <1>0, <2>1
    DEF OwnLines, BeforePrompt, AfterPrompt, LineOpen, LineConfirmed, Waiting, Resetting
  <2>3. Len(line'[p]) = stdin_len[p] /\ \A i \in 1..stdin_len[p] : line'[p][i] = stdin_buf[p][i - 1]
    <3>1. CASE synced[p]
      <4>1. line[p] = <<>> /\ stdin_len[p] = 0
        BY <1>0, <2>1, <3>1 DEF OwnLines, AfterPrompt, LineOpen, LineConfirmed, Waiting, Resetting
      <4> QED
        BY <2>1, <3>1, <4>1
    <3>2. CASE ~synced[p]
      <4>1. stdin_len[p] \in Nat
        BY DEF TypeInv, Indices
      <4> QED
        BY <2>1, <3>2, <4>1
    <3> QED
      BY <3>1, <3>2
  <2>4. LineOpen(p)'
    BY <2>1, <2>2, <2>3 DEF LineOpen, Waiting
  <2>5. consumed'[p] \in Seq(CharSet)
    BY <2>1, <2>2 DEF TypeInv
  <2> QED
    BY <1>1, <2>1, <2>4, <2>5 DEF OwnLines, AfterPrompt, Resetting
<1>12. CASE os_wait_for_more_input(p)
  <2>1. ready[p] /\ synced[p] /\ LineConfirmed(p) /\ consumed[p] \in Seq(CharSet) /\ pc[p] = "wait"
    BY <1>0, <1>12 DEF os_wait_for_more_input, OwnLines, AfterPrompt, BeforePrompt, Waiting
  <2>2. read_pos[p] < stdin_len[p] /\ Unread(p)
    BY <2>1 DEF LineConfirmed, Waiting, Resetting, TypeInv, Indices
  <2>3. Same /\ pc'[p] = "take"
    BY <1>0, <1>12, <2>2 DEF os_wait_for_more_input, HasMore, TypeInv
  <2>4. Unread(p)'
    BY <2>2, <2>3 DEF Unread
  <2>5. LineConfirmed(p)'
    BY <2>1, <2>2, <2>3, <2>4 DEF LineConfirmed, Waiting, Resetting
  <2> QED
    BY <1>1, <2>1, <2>3, <2>5 DEF OwnLines, AfterPrompt, Resetting
<1>13. CASE Take(p)
  <2>1. /\ pc[p] = "take" /\ pc'[p] \in {"ensure", "eval"} /\ read_pos'[p] = read_pos[p] + 1
        /\ stdin_len'[p] = stdin_len[p] /\ stdin_buf'[p] = stdin_buf[p] /\ ready'[p] = ready[p]
        /\ line'[p] = line[p] /\ confirmed'[p] = confirmed[p] /\ synced'[p] = synced[p]
        /\ consumed'[p] = IF synced[p] THEN Append(consumed[p], stdin_buf[p][read_pos[p]])
                          ELSE consumed[p]
    BY <1>0, <1>13 DEF Take, TypeInv
  <2>2. CASE ~synced[p]
    BY <1>0, <1>1, <2>1, <2>2 DEF OwnLines, BeforePrompt, Waiting, Resetting
  <2>3. CASE synced[p]
    <3>1. LineConfirmed(p) /\ ready[p] /\ consumed[p] \in Seq(CharSet) /\ Unread(p)
      BY <1>0, <2>1, <2>3 DEF OwnLines, AfterPrompt, LineOpen, LineConfirmed, Waiting, Resetting
    <3>2. /\ read_pos[p] < stdin_len[p] /\ read_pos[p] \in Indices
          /\ stdin_buf[p][read_pos[p]] \in CharSet /\ stdin_len[p] \in Nat /\ read_pos[p] \in Nat
      BY <2>1, <3>1, SMTT(30) DEF LineConfirmed, TypeInv, Indices
    <3> DEFINE c == stdin_buf[p][read_pos[p]]
               m == Len(consumed[p])
    <3>3. /\ consumed'[p] = Append(consumed[p], c) /\ consumed'[p] \in Seq(CharSet) /\ m \in Nat
          /\ Len(consumed'[p]) = m + 1 /\ consumed'[p][m + 1] = c
          /\ \A i \in 1..m : consumed'[p][i] = consumed[p][i]
      BY <2>1, <2>3, <3>1, <3>2
    <3>4. c = confirmed[p][m + 1]
      <4>1. m + read_pos[p] - read_pos[p] + 1 = m + 1
        BY <3>2, <3>3
      <4>2. confirmed[p][m + read_pos[p] - read_pos[p] + 1] = c
        BY <3>1, <3>2 DEF Unread
      <4> QED
        BY <4>1, <4>2
    <3> HIDE DEF c, m
    <3>5. Len(confirmed[p]) = Len(consumed'[p]) + stdin_len'[p] - read_pos'[p]
      <4>1. Len(confirmed[p]) = m + stdin_len[p] - read_pos[p]
        BY <3>1 DEF Unread, m
      <4>2. Len(consumed'[p]) = m + 1 /\ stdin_len'[p] = stdin_len[p] /\ read_pos'[p] = read_pos[p] + 1
        BY <2>1, <3>3
      <4>3. m \in Nat /\ stdin_len[p] \in Nat /\ read_pos[p] \in Nat
        BY <3>2, <3>3
      <4>4. m + stdin_len[p] - read_pos[p] = (m + 1) + stdin_len[p] - (read_pos[p] + 1)
        BY <4>3
      <4>5. (m + 1) + stdin_len[p] - (read_pos[p] + 1) = Len(consumed'[p]) + stdin_len'[p] - read_pos'[p]
        BY <4>2
      <4> QED
        BY <4>1, <4>4, <4>5, Zenon
    <3>6. \A i \in 1..(m + 1) : confirmed[p][i] = consumed'[p][i]
      <4>1. \A i \in 1..m : confirmed[p][i] = consumed[p][i]
        BY <3>1 DEF Unread, m
      <4> QED
        BY <3>3, <3>4, <4>1
    <3>7. ASSUME NEW i \in Indices, read_pos'[p] <= i, i < stdin_len'[p]
          PROVE  confirmed[p][(m + 1) + i - read_pos'[p] + 1] = stdin_buf[p][i]
      <4>1. read_pos[p] <= i /\ i < stdin_len[p]
        BY <2>1, <3>2, <3>7 DEF Indices
      <4>2. confirmed[p][m + i - read_pos[p] + 1] = stdin_buf[p][i]
        BY <3>1, <4>1 DEF Unread, m
      <4>3. (m + 1) + i - read_pos'[p] + 1 = m + i - read_pos[p] + 1
        <5>1. i \in Nat
          BY DEF Indices
        <5>2. PICK n1 \in Nat, n2 \in Nat : n1 = m /\ n2 = read_pos[p] /\ read_pos'[p] = n2 + 1
          BY <2>1, <3>2, <3>3
        <5> QED
          BY <5>1, <5>2
      <4> QED
        BY <4>2, <4>3
    <3>8. Unread(p)'
      BY <2>1, <3>2, <3>3, <3>5, <3>6, <3>7 DEF Unread
    <3>9. LineConfirmed(p)'
      BY <2>1, <3>1, <3>8 DEF LineConfirmed, Waiting, Resetting
    <3> QED
      BY <1>1, <2>1, <2>3, <3>1, <3>3, <3>9 DEF OwnLines, AfterPrompt, Resetting
  <2> QED
    BY <2>2, <2>3
<1> QED
  BY <1>3, <1>4, <1>5, <1>6, <1>7, <1>8, <1>9, <1>10, <1>11, <1>12, <1>13 DEF Read

-----------------------------------------------------------------------------
\* Every step of the handler and of the readers keeps the lines in order.
LEMMA StepInv == IInv /\ [Next]_vars => IInv'
<1> SUFFICES ASSUME IInv, [Next]_vars PROVE IInv'
  OBVIOUS
<1> USE DEF IInv
<1>1. ASSUME NEW c \in Chars \cup {"\n"}, Key(c) PROVE IInv'
  <2>1. TypeInv'
    BY <1>1, TypeKey DEF CharSet
  <2>2. stray' = stray
    BY <1>1 DEF Key
  <2> QED
    BY <1>1, <2>1, <2>2, LinesKey DEF LineInv, CharSet
<1>2. CASE Backspace
  <2>1. stray' = stray
    BY <1>2 DEF Backspace
  <2> QED
    BY <1>2, <2>1, TypeBackspace, LinesBackspace DEF LineInv
<1>3. ASSUME NEW p \in Procs, switch_active_process(p) PROVE IInv'
  <2>1. TypeInv'
    BY <1>3 DEF switch_active_process, TypeInv, buffers, control, history
  <2>2. LineInv'
    BY <1>3 DEF switch_active_process, LineInv, OwnLines, Private, AfterPrompt, BeforePrompt,
       LineOpen, LineConfirmed, Unread, buffers, control, history
  <2> QED
    BY <2>1, <2>2
<1>4. ASSUME NEW q \in Procs, Read(q) \/ os_process_stdin_read_char(q) PROVE IInv'
  <2>1. TypeInv'
    BY <1>4, TypeRead
  <2>2. stray \subseteq stray'
    BY <1>4 DEF Read, os_read, ensure_data, ResetLength, ResetPosition, ResetReady, history,
       TestPrompt, print_prompt, os_wait_for_more_input, Take, Evaluated, os_process_stdin_read_char
  <2> QED
    BY <1>4, <2>1, <2>2, LinesOther, LinesOwn DEF LineInv
<1>5. CASE UNCHANGED vars
  <2>1. TypeInv'
    BY <1>5 DEF vars, TypeInv, buffers, control, history
  <2>2. LineInv'
    BY <1>5 DEF vars, LineInv, OwnLines, Private, AfterPrompt, BeforePrompt,
       LineOpen, LineConfirmed, Unread, buffers, control, history
  <2> QED
    BY <2>1, <2>2
<1> QED
  BY <1>1, <1>2, <1>3, <1>4, <1>5 DEF Next

\* A sequence that agrees with the beginning of another one is a prefix of it.
LEMMA PrefixOf ==
  ASSUME NEW S, NEW s \in Seq(S), NEW t \in Seq(S), Len(s) <= Len(t),
         \A i \in 1..Len(s) : t[i] = s[i]
  PROVE  IsPrefix(s, t)
<1>1. SubSeq(s, 1, Len(s)) = SubSeq(t, 1, Len(s))
  OBVIOUS
<1> QED
  BY <1>1 DEF IsPrefix

\* Every REPL reads exactly the lines confirmed by Enter, in order, from its
\* first prompt on, however the keyboard handler is interleaved with the three
\* stores of reset_line and with the readers of other processes, and wherever the
\* focus is, unless a program reads (standard-input) without having the focus.
THEOREM LinesReadInOrder == Spec => []LinesInOrder
<1>1. Init => IInv
  BY TypeInit, LineInit DEF IInv
<1>2. IInv => LinesInOrder
  <2> SUFFICES ASSUME IInv, NEW p \in Procs \ stray PROVE IsPrefix(consumed[p], confirmed[p])
    BY DEF LinesInOrder
  <2>1. OwnLines(p) /\ confirmed[p] \in Seq(CharSet)
    BY DEF IInv, LineInv, TypeInv
  <2>2. consumed[p] \in Seq(CharSet)
    BY <2>1 DEF OwnLines, AfterPrompt, BeforePrompt
  <2>3. CASE consumed[p] = confirmed[p]
    BY <2>1, <2>3, PrefixOf
  <2>4. CASE synced[p] /\ Unread(p)
    <3>1. Len(consumed[p]) <= Len(confirmed[p])
      BY <2>2, <2>4 DEF Unread, IInv, TypeInv, Indices
    <3> QED
      BY <2>1, <2>2, <2>4, <3>1, PrefixOf DEF Unread
  <2> QED
    BY <2>1, <2>3, <2>4 DEF OwnLines, AfterPrompt, BeforePrompt, LineOpen, LineConfirmed
<1> QED
  BY <1>1, <1>2, StepInv, PTL DEF Spec

-----------------------------------------------------------------------------
\* The flag shared by all processes is only set while every process has seen a
\* prompt since its last os_read.
PromptInv ==
  /\ pc \in [Procs -> Points] /\ DOMAIN reading = Procs
  /\ after \in [Procs -> {"prompt", "start"}]
  /\ shown \in [Procs -> BOOLEAN]
  /\ prompt_shown => \A p \in Procs : shown[p]
  /\ PromptBeforeWait

\* A REPL never waits for a line without a prompt having been shown since its
\* os_read was called, although prompt_shown is one variable for all processes
\* and the test, the printing and the store are separate steps (ensure_data,
\* print_prompt).
THEOREM PromptShown == Spec => []PromptBeforeWait
<1>1. Init => PromptInv
  BY DEF Init, PromptInv, PromptBeforeWait, Points
<1>2. ASSUME PromptInv, [Next]_vars PROVE PromptInv'
  <2> USE <1>2 DEF PromptInv, PromptBeforeWait, Goto, Points, Waiting, Resetting, control, history
  <2>1. ASSUME NEW c \in Chars \cup {"\n"}, Key(c) PROVE PromptInv'
    BY <2>1 DEF Key
  <2>2. CASE Backspace
    BY <2>2 DEF Backspace
  <2>3. ASSUME NEW p \in Procs, switch_active_process(p) PROVE PromptInv'
    BY <2>3 DEF switch_active_process
  <2>4. ASSUME NEW p \in Procs, os_read(p) PROVE PromptInv'
    BY <2>4 DEF os_read
  <2>5. ASSUME NEW p \in Procs, os_process_stdin_read_char(p) PROVE PromptInv'
    BY <2>5 DEF os_process_stdin_read_char
  <2>6. ASSUME NEW p \in Procs, ensure_data(p) PROVE PromptInv'
    BY <2>6 DEF ensure_data
  <2>7. ASSUME NEW p \in Procs, ResetLength(p) \/ ResetPosition(p) PROVE PromptInv'
    BY <2>7 DEF ResetLength, ResetPosition
  <2>8. ASSUME NEW p \in Procs, ResetReady(p) PROVE PromptInv'
    BY <2>8 DEF ResetReady
  <2>9. ASSUME NEW p \in Procs, TestPrompt(p) PROVE PromptInv'
    BY <2>9 DEF TestPrompt
  <2>10. ASSUME NEW p \in Procs, print_prompt(p) PROVE PromptInv'
    BY <2>10 DEF print_prompt
  <2>11. ASSUME NEW p \in Procs, os_wait_for_more_input(p) PROVE PromptInv'
    BY <2>11 DEF os_wait_for_more_input
  <2>12. ASSUME NEW p \in Procs, Take(p) PROVE PromptInv'
    BY <2>12 DEF Take
  <2>13. ASSUME NEW p \in Procs, Evaluated(p) PROVE PromptInv'
    BY <2>13 DEF Evaluated
  <2>14. CASE UNCHANGED vars
    BY <2>14 DEF vars
  <2> QED
    BY <2>1, <2>2, <2>3, <2>4, <2>5, <2>6, <2>7, <2>8, <2>9, <2>10, <2>11, <2>12, <2>13, <2>14
    DEF Next, Read
<1>3. PromptInv => PromptBeforeWait
  BY DEF PromptInv
<1> QED
  BY <1>1, <1>2, <1>3, PTL DEF Spec
=============================================================================
