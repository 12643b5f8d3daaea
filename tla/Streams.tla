------------------------------ MODULE Streams ------------------------------
(***************************************************************************)
(* Streams (stream.c) and the functions Lisp programs call on them         *)
(* (stream_lisp.c), over the 9P client of module P9Client and over the     *)
(* file nodes of the FAT drivers (mount.c).                                *)
(*                                                                         *)
(* Each process has one stream variable and files of its own.  An          *)
(* operation on a file of the host takes several steps, between which      *)
(* other processes run; todo[p] is what remains of process p's operation.  *)
(*                                                                         *)
(* beyond collects the situations for which the code makes no provision:   *)
(* module FileCursor describes what streams do until the first of them.    *)
(***************************************************************************)
EXTENDS P9Client

CONSTANTS
    Text,               \* the string a program opens for input
    STREAM_READ_CHUNK,  \* bytes asked for by one read (1024)
    WRITE_BUF,          \* sizeof(write_buf) (512)
    STREAM_STRING_OUTPUT_CAP,
    MaxOps,             \* bound: operations in a behaviour
    MaxOpsBeyond        \* bound: operations after which none starts once beyond # {}

ASSUME StreamsAssumption ==
    /\ STREAM_READ_CHUNK \in Nat \ {0} /\ WRITE_BUF \in Nat \ {0}
    /\ STREAM_STRING_OUTPUT_CAP \in Nat /\ MaxOps \in Nat /\ MaxOpsBeyond \in Nat
    /\ Files = Procs

VARIABLES
    stream,   \* stream[p]: the os_stream_t of process p
    op, todo, \* the operation process p is in, and its remaining requests
    fat,      \* fat[p]: contents of process p's file on the FAT volume
    answer,   \* answer[p]: the last value an operation returned
    ops       \* operations started so far

vars == <<p9vars, stream, op, todo, fat, answer, ops>>

-----------------------------------------------------------------------------
stream_init_common(kind) ==
    [kind |-> kind, fid |-> 0, next_offset |-> 0, buf |-> <<>>, buf_pos |-> 0,
     write_buf |-> <<>>, eof |-> FALSE, error |-> FALSE, str_buf |-> <<>>,
     str_pos |-> 0, lookahead |-> <<>>, closed |-> FALSE]

NoStream == [stream_init_common(None) EXCEPT !.closed = TRUE]

is_9p_write_kind(s)  == s.kind \in {"9p write", "9p io"}
is_9p_read_kind(s)   == s.kind \in {"9p read", "9p io"}
is_fat_write_kind(s) == s.kind \in {"fat write", "fat io"}
is_fat_read_kind(s)  == s.kind = "fat io"
Is9p(s)  == is_9p_read_kind(s) \/ is_9p_write_kind(s)
IsIo(s)  == s.kind \in {"9p io", "fat io"}
Unread(s) == Len(s.buf) - s.buf_pos
ModeOf(kind) == CASE kind = "9p read" -> "r" [] kind = "9p write" -> "w" [] OTHER -> "rw"

Ready(p) == /\ MayRun(p) /\ op[p] = None /\ ops < MaxOps
            /\ beyond = {} \/ ops < MaxOpsBeyond

(* A program writes a different byte each time.                            *)
Bytes == 10 .. 10 + MaxOps
NewByte == 10 + ops
Tell(p, a) == answer' = [answer EXCEPT ![p] = a]
Silent(p) == Tell(p, <<"none">>)
SetStream(p, s) == stream' = [stream EXCEPT ![p] = s]
Ask(p, name, tasks) == /\ op' = [op EXCEPT ![p] = name]
                       /\ todo' = [todo EXCEPT ![p] = tasks]
                       /\ ops' = ops + 1
Unhandled(situations) == beyond' = beyond \cup situations
When(c, situation) == IF c THEN {situation} ELSE {}
P9Rest == <<g_p9_tx_buf, g_p9_rx_buf, vq, taken, server, g_session_ready, g_next_fid, cli>>

(* An operation that needs no request ends where it starts.                *)
AtOnce == ops' = ops + 1 /\ UNCHANGED <<P9Rest, rpc, op, todo>>

-----------------------------------------------------------------------------
(* Opening: cc_open_input_stream, cc_open_output_file, cc_open_io_file,    *)
(* cc_create_string_input_stream, cc_create_string_output_stream.          *)
Openable(p) == Ready(p) /\ stream[p].closed

OpenString(p) ==
    /\ Openable(p)
    /\ \E s \in {[stream_init_common("string in") EXCEPT !.str_buf = Text],
                 stream_init_common("string out")} : SetStream(p, s)
    /\ AtOnce /\ UNCHANGED <<fat, beyond>> /\ Silent(p)

OpenFile(p) ==
    /\ Openable(p)
    /\ \E kind \in {"9p read", "9p write", "9p io", "fat write", "fat io"} :
          /\ SetStream(p, [stream_init_common(kind) EXCEPT !.closed = TRUE])
          /\ Ask(p, "open", IF kind \in {"fat write", "fat io"} THEN <<"resolve">> ELSE <<"open">>)
    /\ UNCHANGED <<P9Rest, rpc, fat, beyond>> /\ Silent(p)

(* os_mount_fat_read_file: a FAT file is read whole into a string stream.  *)
OpenFatInput(p) ==
    /\ Openable(p)
    /\ \/ /\ fat[p] # Absent
          /\ SetStream(p, [stream_init_common("string in") EXCEPT !.str_buf = fat[p][2]])
          /\ Silent(p)
       \/ /\ \E a \in {<<"error">>, <<"transfer">>} : Tell(p, a)
          /\ SetStream(p, NoStream)
    /\ AtOnce /\ UNCHANGED <<fat, beyond>>

(* os_mount_fat_resolve_file_node, one step per function of the driver it  *)
(* applies.  A function returns something, nil, or a control transfer.     *)
FatOpenEnds(p) == op' = [op EXCEPT ![p] = None] /\ todo' = [todo EXCEPT ![p] = <<>>]

FatOpenFails(p, a) == FatOpenEnds(p) /\ SetStream(p, NoStream) /\ Tell(p, a) /\ UNCHANGED fat

FatResolved(p, task) ==
    IF task = "resolve" /\ stream[p].kind = "fat write"
    THEN /\ todo' = [todo EXCEPT ![p] = <<"truncate">>]
         /\ UNCHANGED <<stream, op, answer, fat>>
    ELSE /\ FatOpenEnds(p)
         /\ SetStream(p, [stream[p] EXCEPT !.closed = FALSE])
         /\ UNCHANGED <<answer, fat>>

os_mount_fat_resolve_file_node(p) ==
    LET task == Head(todo[p]) IN
    /\ MayRun(p) /\ todo[p] # <<>>
    /\ task \in {"resolve", "truncate", "resolve again", "create node", "resolve new"}
    /\ \/ FatOpenFails(p, <<"transfer">>)
       \/ task \in {"truncate", "create node", "resolve new"} /\ FatOpenFails(p, <<"error">>)
       \/ /\ task \in {"resolve", "resolve again", "resolve new"} /\ fat[p] # Absent
          /\ FatResolved(p, task)
       \/ /\ task \in {"resolve", "resolve again"}
          /\ todo' = [todo EXCEPT ![p] = <<"create node">>]
          /\ UNCHANGED <<stream, op, answer, fat>>
       \/ /\ task = "truncate" \/ (task = "create node" /\ fat[p] = Absent)
          /\ fat' = [fat EXCEPT ![p] = Contents(<<>>)]
          /\ todo' = [todo EXCEPT ![p] =
                        IF task = "truncate" THEN <<"resolve again">> ELSE <<"resolve new">>]
          /\ UNCHANGED <<stream, op, answer>>
    /\ UNCHANGED <<p9vars, ops>>

-----------------------------------------------------------------------------
(* Buffers of FAT streams.  A result is <<stream, contents, situation>>.   *)
Outcomes == {"ok", "nil", "transfer"}

flush_write_buf_fat(s, bytes, outcome) ==
    IF s.write_buf = <<>> THEN <<s, bytes>>
    ELSE IF outcome = "ok"
    THEN <<[s EXCEPT !.next_offset = @ + Len(s.write_buf), !.write_buf = <<>>],
           Overwrite(bytes, s.next_offset, s.write_buf)>>
    ELSE <<[s EXCEPT !.error = TRUE, !.write_buf = <<>>], bytes>>

refill_read_buf_fat(s, bytes, outcome) ==
    LET got == IF outcome = "nil" THEN <<>>
               ELSE Chunk(bytes, s.next_offset, STREAM_READ_CHUNK)
    IN  IF outcome = "transfer" THEN [s EXCEPT !.error = TRUE]
        ELSE [s EXCEPT !.buf = got, !.buf_pos = 0, !.next_offset = @ + Len(got),
                       !.eof = got = <<>>]

-----------------------------------------------------------------------------
(* os_stream_read_char and os_stream_preview_char; keep is TRUE for        *)
(* preview-char, which puts the character back.                            *)
Took(s, keep, ch) == IF keep THEN [s EXCEPT !.lookahead = <<ch>>] ELSE s

Exhausted(s) == s.closed \/ s.eof \/ s.error

Readable(p, keep) ==
    /\ Ready(p) /\ stream[p].kind # None
    /\ ~Exhausted(stream[p]) /\ stream[p].lookahead = <<>>

ReadNothing(p, keep) ==
    LET s == stream[p]
        output == s.kind \in {"9p write", "fat write", "string out"}
        ended  == s.kind = "string in" /\ s.str_pos >= Len(s.str_buf)
    IN  /\ Ready(p) /\ s.kind # None
        /\ keep => s.lookahead = <<>>
        /\ Exhausted(s) \/ (s.lookahead = <<>> /\ (output \/ ended))
        /\ SetStream(p, IF ended /\ ~Exhausted(s) THEN [s EXCEPT !.eof = TRUE] ELSE s)
        /\ Tell(p, <<"eos">>)
        /\ Unhandled(When(output /\ ~Exhausted(s), "read of an output stream"))
        /\ AtOnce /\ UNCHANGED fat

ReadLookahead(p, keep) ==
    LET s == stream[p] IN
    /\ Ready(p) /\ s.lookahead # <<>> /\ (keep \/ ~Exhausted(s))
    /\ Tell(p, <<"char", Head(s.lookahead)>>)
    /\ SetStream(p, IF keep THEN s ELSE [s EXCEPT !.lookahead = <<>>])
    /\ Unhandled(When(Exhausted(s), "preview of an ended stream"))
    /\ AtOnce /\ UNCHANGED fat

ReadBuffered(p, keep) ==
    LET s == stream[p] IN
    /\ Readable(p, keep)
    /\ \/ /\ s.kind = "string in" /\ s.str_pos < Len(s.str_buf)
          /\ Tell(p, <<"char", s.str_buf[s.str_pos + 1]>>)
          /\ SetStream(p, Took([s EXCEPT !.str_pos = @ + 1], keep, s.str_buf[s.str_pos + 1]))
       \/ /\ is_9p_read_kind(s) \/ is_fat_read_kind(s)
          /\ Unread(s) > 0
          /\ Tell(p, <<"char", s.buf[s.buf_pos + 1]>>)
          /\ SetStream(p, Took([s EXCEPT !.buf_pos = @ + 1], keep, s.buf[s.buf_pos + 1]))
    /\ AtOnce /\ UNCHANGED <<fat, beyond>>

(* The write buffer of a FAT stream is flushed before the next bytes are   *)
(* read.  nil from read-into! counts as no bytes, which is the end.        *)
ReadFat(p, keep) ==
    /\ Readable(p, keep) /\ is_fat_read_kind(stream[p]) /\ Unread(stream[p]) = 0
    /\ \E o1, o2 \in Outcomes :
         LET f == flush_write_buf_fat(stream[p], fat[p][2], o1)
             r == refill_read_buf_fat(f[1], f[2], o2)
         IN  /\ fat' = [fat EXCEPT ![p] = Contents(f[2])]
             /\ IF f[1].error THEN SetStream(p, f[1])
                ELSE IF r.error \/ r.buf = <<>> THEN SetStream(p, r)
                ELSE SetStream(p, Took([r EXCEPT !.buf_pos = 1], keep, r.buf[1]))
             /\ Tell(p, IF f[1].error THEN (IF o1 = "transfer" THEN <<"transfer">> ELSE <<"eos">>)
                        ELSE IF r.error THEN <<"transfer">>
                        ELSE IF r.buf = <<>> THEN <<"eos">> ELSE <<"char", r.buf[1]>>)
             /\ Unhandled(When(o2 = "nil", "failed read taken for the end"))
    /\ AtOnce

ReadRemote(p, keep) ==
    LET s == stream[p] IN
    /\ Readable(p, keep) /\ is_9p_read_kind(s) /\ Unread(s) = 0
    /\ Ask(p, IF keep THEN "preview" ELSE "read",
              (IF s.write_buf = <<>> THEN <<>> ELSE <<"write">>) \o <<"read">>)
    /\ UNCHANGED <<P9Rest, rpc, stream, fat, beyond>> /\ Silent(p)

-----------------------------------------------------------------------------
(* os_stream_write_char.                                                   *)
Buffered(s, b) == [s EXCEPT !.write_buf = Append(@, b),
                            !.buf = IF IsIo(s) THEN <<>> ELSE @,
                            !.buf_pos = IF IsIo(s) THEN 0 ELSE @]

(* A flush failed in a call whose answer does not tell.                    *)
Lost(before, after, a) == When(after.error /\ ~before.error /\ a # <<"transfer">>, "unreported loss")

Mixed(s) == When(IsIo(s) /\ (Unread(s) > 0 \/ s.lookahead # <<>>), "write amid buffered input")

WriteString(p, b) ==
    LET s == stream[p]
        room == Len(s.str_buf) < STREAM_STRING_OUTPUT_CAP
    IN  /\ Ready(p) /\ ~s.closed /\ s.kind = "string out"
        /\ SetStream(p, IF room THEN [s EXCEPT !.str_buf = Append(@, b)] ELSE s)
        /\ Unhandled(When(~room, "full string stream"))
        /\ AtOnce /\ UNCHANGED fat /\ Silent(p)

WriteRemote(p, b) ==
    LET s == Buffered(stream[p], b) IN
    /\ Ready(p) /\ ~s.closed /\ is_9p_write_kind(s)
    /\ SetStream(p, s)
    /\ IF Len(s.write_buf) = WRITE_BUF THEN Ask(p, "write", <<"write">>) /\ UNCHANGED <<P9Rest, rpc>>
                                       ELSE AtOnce
    /\ Unhandled(Mixed(stream[p])) /\ UNCHANGED fat /\ Silent(p)

WriteFat(p, b) ==
    LET s == Buffered(stream[p], b) IN
    /\ Ready(p) /\ ~s.closed /\ is_fat_write_kind(s)
    /\ IF Len(s.write_buf) < WRITE_BUF THEN SetStream(p, s) /\ UNCHANGED fat /\ Silent(p)
       ELSE \E o \in Outcomes : LET f == flush_write_buf_fat(s, fat[p][2], o) IN
                /\ SetStream(p, f[1]) /\ fat' = [fat EXCEPT ![p] = Contents(f[2])]
                /\ IF o = "transfer" THEN Tell(p, <<"transfer">>) ELSE Silent(p)
    /\ Unhandled(Mixed(stream[p]) \cup Lost(s, stream'[p], answer'[p])) /\ AtOnce

-----------------------------------------------------------------------------
(* Mutant: closing a stream of the host leaves its fid.                    *)
CloseWithoutClunk(p, name) ==
    /\ Ready(p) /\ stream[p].kind # None /\ stream[p].write_buf = <<>>
    /\ SetStream(p, [stream[p] EXCEPT !.closed = name = "close" \/ @])
    /\ AtOnce /\ UNCHANGED <<fat, beyond>> /\ Silent(p)

(* cc_finish_output and cc_close.  os_stream_close does not look at        *)
(* closed: a second close sends a second Tclunk.                           *)
FinishOrClose(p, name) ==
    LET s == stream[p]
        done(r) == IF name = "close" THEN [r EXCEPT !.closed = TRUE] ELSE r
    IN  /\ Ready(p) /\ s.kind # None
        /\ IF Is9p(s) /\ (name = "close" \/ s.write_buf # <<>>)
           THEN /\ Ask(p, name, (IF s.write_buf = <<>> THEN <<>> ELSE <<"write">>)
                                \o (IF name = "close" THEN <<"clunk">> ELSE <<>>))
                /\ UNCHANGED <<P9Rest, rpc, stream, fat, beyond>> /\ Silent(p)
           ELSE /\ \E o \in Outcomes :
                      LET f == flush_write_buf_fat(s, fat[p][2], o) IN
                      IF is_fat_write_kind(s) /\ s.write_buf # <<>>
                      THEN /\ SetStream(p, done(f[1])) /\ fat' = [fat EXCEPT ![p] = Contents(f[2])]
                           /\ IF o = "transfer" THEN Tell(p, <<"transfer">>) ELSE Silent(p)
                      ELSE SetStream(p, done(s)) /\ UNCHANGED fat /\ Silent(p)
                /\ Unhandled(Lost(s, stream'[p], answer'[p]))
                /\ AtOnce

cc_file_position(p) ==
    LET s == stream[p] IN
    /\ Ready(p) /\ s.kind # None
    /\ Tell(p, <<"position",
                 CASE s.kind = "string in"  -> s.str_pos
                   [] s.kind = "string out" -> Len(s.str_buf)
                   [] s.kind \in {"9p read", "9p io", "fat io"} ->
                        s.next_offset - Unread(s) - Len(s.lookahead)
                   [] OTHER -> s.next_offset + Len(s.write_buf)>>)
    /\ Unhandled(When(s.closed \/ s.error, "position of an ended stream")
                 \cup When(IsIo(s) /\ s.write_buf # <<>>, "position before a flush")
                 \cup When(s.kind = "string in" /\ s.lookahead # <<>>, "position after a preview"))
    /\ AtOnce /\ UNCHANGED <<stream, fat>>

(* Positions up to the end of what the stream holds.                       *)
Held(p) == LET s == stream[p] IN
    CASE Is9p(s) -> Overwrite(server.files[p][2], s.next_offset, s.write_buf)
      [] is_fat_write_kind(s) -> Overwrite(fat[p][2], s.next_offset, s.write_buf)
      [] OTHER -> s.str_buf

(* Mutant: bytes read ahead survive a change of position.                  *)
SetPositionKeepsBuffer(p) ==
    LET s == [stream[p] EXCEPT !.lookahead = <<>>, !.eof = FALSE] IN
    /\ Ready(p) /\ s.kind # None /\ ~s.closed
    /\ \E n \in 0 .. Len(Held(p)) :
         SetStream(p, CASE s.kind = "string in"  -> [s EXCEPT !.str_pos = n]
                        [] s.kind = "string out" -> [s EXCEPT !.str_buf = SubSeq(@, 1, n)]
                        [] OTHER -> [s EXCEPT !.next_offset = n])
    /\ Unhandled(When(s.write_buf # <<>>, "seek before a flush"))
    /\ AtOnce /\ UNCHANGED fat /\ Silent(p)

cc_set_file_position(p) ==
    LET s == [stream[p] EXCEPT !.lookahead = <<>>, !.eof = FALSE] IN
    /\ Ready(p) /\ s.kind # None /\ ~s.closed
    /\ \E n \in 0 .. Len(Held(p)) :
         SetStream(p, CASE s.kind = "string in"  -> [s EXCEPT !.str_pos = n]
                        [] s.kind = "string out" -> [s EXCEPT !.str_buf = SubSeq(@, 1, n)]
                        [] OTHER -> [s EXCEPT !.next_offset = n, !.buf = <<>>, !.buf_pos = 0])
    /\ Unhandled(When(s.write_buf # <<>>, "seek before a flush"))
    /\ AtOnce /\ UNCHANGED fat /\ Silent(p)

cc_get_output_stream_string(p) ==
    /\ Ready(p) /\ stream[p].kind = "string out" /\ ~stream[p].closed
    /\ Tell(p, <<"string", stream[p].str_buf>>)
    /\ SetStream(p, [stream[p] EXCEPT !.str_buf = <<>>])
    /\ AtOnce /\ UNCHANGED <<fat, beyond>>

(* cc_file_length and cc_probe_file, with a stream of their own.           *)
LengthOrProbe9p(p) ==
    /\ Openable(p)
    /\ SetStream(p, [stream_init_common("9p read") EXCEPT !.closed = TRUE])
    /\ \/ Ask(p, "length", <<"open", "scan", "clunk">>)
       \/ Ask(p, "probe", <<"open", "clunk">>)
    /\ UNCHANGED <<P9Rest, rpc, fat, beyond>> /\ Silent(p)

LengthOrProbeFat(p) ==
    /\ Openable(p)
    /\ \/ fat[p] # Absent /\ \E a \in {<<"length", Len(fat[p][2])>>, <<"probe", TRUE>>} : Tell(p, a)
       \/ \E a \in {<<"error">>, <<"transfer">>, <<"probe", FALSE>>} : Tell(p, a)
    /\ SetStream(p, NoStream)
    /\ AtOnce /\ UNCHANGED <<fat, beyond>>

-----------------------------------------------------------------------------
(* The requests of an operation.                                           *)
Begin(p) ==
    LET s == stream[p]
        task == Head(todo[p])
        args == [NoArgs EXCEPT !.name = p, !.mode = ModeOf(s.kind), !.fid = s.fid,
                               !.offset = s.next_offset, !.data = s.write_buf,
                               !.count = STREAM_READ_CHUNK]
    IN  /\ MayRun(p) /\ todo[p] # <<>> /\ rpc[p].stage = "idle"
        /\ \/ task = "open"   /\ Call(p, os_virtio9p_open, args)
           \/ task = "create" /\ Call(p, os_virtio9p_create, args)
           \/ task \in {"read", "scan"} /\ Call(p, os_virtio9p_read_chunk, args)
           \/ task = "write"  /\ Call(p, os_virtio9p_write_chunk, args)
           \/ task = "clunk"  /\ Call(p, os_virtio9p_close, args)
        /\ UNCHANGED <<P9Rest, beyond, stream, op, todo, fat, answer, ops>>

Then(p, tasks) == /\ todo' = [todo EXCEPT ![p] = tasks]
                  /\ op' = [op EXCEPT ![p] = IF tasks = <<>> THEN None ELSE @]

(* os_stream_open_9p_file, _write and _io: open, or create what cannot be  *)
(* opened for writing.                                                     *)
EndOpen(p) ==
    LET ok == rpc[p].ok
        s == stream[p]
    IN  \/ /\ ok
           /\ SetStream(p, [s EXCEPT !.fid = rpc[p].args.fid, !.closed = FALSE])
           /\ Then(p, Tail(todo[p])) /\ UNCHANGED answer
        \/ /\ ~ok /\ Head(todo[p]) = "open" /\ s.kind # "9p read"
           /\ Then(p, <<"create">>) /\ UNCHANGED <<stream, answer>>
        \/ /\ ~ok /\ (Head(todo[p]) = "create" \/ s.kind = "9p read")
           /\ SetStream(p, NoStream) /\ Then(p, <<>>)
           /\ Tell(p, IF op[p] = "probe" THEN <<"probe", FALSE>> ELSE <<"error">>)

(* flush_write_buf_9p, in any operation; a read stops when it failed.      *)
EndWrite(p) ==
    LET s == stream[p]
        stop == ~rpc[p].ok /\ op[p] \in {"read", "preview"}
    IN  /\ SetStream(p, IF rpc[p].ok
                        THEN [s EXCEPT !.next_offset = @ + rpc[p].count, !.write_buf = <<>>]
                        ELSE [s EXCEPT !.error = TRUE, !.write_buf = <<>>])
        /\ Then(p, IF stop THEN <<>> ELSE Tail(todo[p]))
        /\ IF stop THEN Tell(p, <<"eos">>) ELSE UNCHANGED answer

EndRead(p) ==
    LET got == rpc[p].data
        s == [stream[p] EXCEPT !.buf = got, !.next_offset = @ + Len(got), !.buf_pos = 0]
    IN  /\ SetStream(p, IF ~rpc[p].ok THEN [stream[p] EXCEPT !.error = TRUE]
                        ELSE IF got = <<>> THEN [s EXCEPT !.eof = TRUE]
                        ELSE Took([s EXCEPT !.buf_pos = 1], op[p] = "preview", got[1]))
        /\ Tell(p, IF got = <<>> THEN <<"eos">> ELSE <<"char", got[1]>>)
        /\ Then(p, <<>>)

(* One turn of the loop of cc_file_length for each chunk; it ends at the   *)
(* end of the file, and also at an error.                                  *)
EndScan(p) ==
    /\ SetStream(p, [stream[p] EXCEPT !.next_offset = @ + Len(rpc[p].data)])
    /\ Then(p, IF rpc[p].data = <<>> THEN Tail(todo[p]) ELSE todo[p])
    /\ UNCHANGED answer

EndClunk(p) ==
    /\ Then(p, <<>>)
    /\ SetStream(p, IF op[p] = "close" THEN [stream[p] EXCEPT !.closed = TRUE] ELSE NoStream)
    /\ IF op[p] = "close" THEN UNCHANGED answer
       ELSE Tell(p, IF op[p] = "length" THEN <<"length", stream[p].next_offset>> ELSE <<"probe", TRUE>>)

End(p) ==
    LET task == Head(todo[p]) IN
    /\ MayRun(p) /\ rpc[p].stage = "done"
    /\ \/ task \in {"open", "create"} /\ EndOpen(p)
       \/ task = "write" /\ EndWrite(p)
       \/ task = "read"  /\ EndRead(p)
       \/ task = "scan"  /\ EndScan(p)
       \/ task = "clunk" /\ EndClunk(p)
    /\ Unhandled(When(task = "scan" /\ ~rpc[p].ok, "length cut short")
                 \cup When(task = "write" /\ ~rpc[p].ok /\ op[p] \notin {"read", "preview"},
                           "unreported loss"))
    /\ EndCall(p)
    /\ UNCHANGED <<vq, taken, server, g_session_ready, g_next_fid, cli, fat, ops>>

-----------------------------------------------------------------------------
(* A process's file exists on the host and on the FAT volume, or on        *)
(* neither: a stream is of one of the two.                                 *)
Init ==
    /\ P9Init
    /\ fat \in [Procs -> {Absent, Contents(Text)}]
    /\ server = [files |-> fat, fids |-> <<>>, refusals |-> 0]
    /\ stream = [p \in Procs |-> NoStream]
    /\ op = [p \in Procs |-> None] /\ todo = [p \in Procs |-> <<>>]
    /\ answer = [p \in Procs |-> <<"none">>] /\ ops = 0

Operation(p) ==
    \/ OpenString(p) \/ OpenFile(p) \/ OpenFatInput(p)
    \/ \E keep \in BOOLEAN : \/ ReadNothing(p, keep) \/ ReadLookahead(p, keep)
                             \/ ReadBuffered(p, keep) \/ ReadFat(p, keep) \/ ReadRemote(p, keep)
    \/ WriteString(p, NewByte) \/ WriteRemote(p, NewByte) \/ WriteFat(p, NewByte)
    \/ \E name \in {"finish", "close"} : FinishOrClose(p, name)
    \/ cc_file_position(p) \/ cc_set_file_position(p) \/ cc_get_output_stream_string(p)
    \/ LengthOrProbe9p(p) \/ LengthOrProbeFat(p)

Client(p) == P9Step(p) /\ UNCHANGED <<stream, op, todo, fat, answer, ops>>
Host == Device /\ UNCHANGED <<stream, op, todo, fat, answer, ops>>
Continue(p) == Client(p) \/ Begin(p) \/ End(p) \/ os_mount_fat_resolve_file_node(p)

Next == Host \/ \E p \in Procs : Operation(p) \/ Continue(p)

(* A process that is in an operation is scheduled again, and the host      *)
(* answers; programs need not call anything.                               *)
Spec == Init /\ [][Next]_vars /\ WF_vars(Host) /\ \A p \in Procs : WF_vars(Continue(p))

-----------------------------------------------------------------------------
TypeOK ==
    /\ cli \in Procs \cup {None}
    /\ g_session_ready \in BOOLEAN
    /\ \A p \in Procs :
         /\ stream[p].buf_pos <= Len(stream[p].buf) /\ Len(stream[p].buf) <= STREAM_READ_CHUNK
         /\ Len(stream[p].write_buf) <= WRITE_BUF
         /\ stream[p].str_pos <= Len(stream[p].str_buf)
         /\ stream[p].kind = "string out" => Len(stream[p].str_buf) <= STREAM_STRING_OUTPUT_CAP
         /\ (op[p] = None) = (todo[p] = <<>>)
         /\ rpc[p].stage # "idle" => todo[p] # <<>>

(* Every reply that is parsed answers the request its process has just     *)
(* sent (virtio9p.c p9_rpc over the shared buffers and virtqueue), unless  *)
(* a poll has given up or two processes have been in calls at a time.      *)
AnswerIsOwn ==
    beyond \cap {"late", "overlap"} = {} =>
        \A p \in Procs : rpc[p].stage = "parse" => g_p9_rx_buf.to = rpc[p].msg

(* The fids the host keeps for the guest are those of the open streams and *)
(* at most two for each refused request: os_virtio9p_open and _create      *)
(* return without clunking a fid they have walked.                         *)
FidsAccounted ==
    LET open == {stream[p].fid : p \in {q \in Procs : Is9p(stream[q]) /\ ~stream[q].closed}}
        kept == DOMAIN server.fids \ {0}
    IN  beyond \cap {"late", "overlap"} = {} /\ (\A p \in Procs : op[p] = None) =>
            open \subseteq kept /\ Cardinality(kept \ open) <= 2 * server.refusals

(* The stream as a cursor: the bytes held are those of the file with the   *)
(* write buffer laid over them, the position is what next_offset would be  *)
(* without read-ahead, look-ahead and write buffer.                        *)
CursorAt(p) ==
    LET s == stream[p] IN
    IF op[p] = "open" THEN "opening"
    ELSE IF s.closed \/ op[p] \in {"length", "probe"} THEN None
    ELSE IF s.error THEN "failed"
    ELSE IF Is9p(s) THEN "9p" ELSE IF is_fat_write_kind(s) THEN "fat" ELSE "string"

CursorPos(p) ==
    LET s == stream[p] IN
    CASE CursorAt(p) \in {"9p", "fat"} ->
            s.next_offset + Len(s.write_buf) - Unread(s) - Len(s.lookahead)
      [] CursorAt(p) = "string" /\ s.kind = "string in" -> s.str_pos - Len(s.lookahead)
      [] CursorAt(p) = "string" /\ s.kind = "string out" -> Len(s.str_buf)
      [] OTHER -> 0

FilesHeld == [p \in Procs |->
    [w \in {"9p", "fat", "string"} |->
        IF CursorAt(p) = w THEN Contents(Held(p))
        ELSE CASE w = "9p" -> server.files[p] [] w = "fat" -> fat[p] [] w = "string" -> Absent]]

Cursors == [p \in Procs |-> [at |-> CursorAt(p), pos |-> CursorPos(p)]]

F == INSTANCE FileCursor WITH files <- FilesHeld, cursor <- Cursors

(* Streams with their buffers behave as cursors in files (stream.c,        *)
(* stream_lisp.c): nothing is lost, repeated or reordered by refilling,    *)
(* flushing, previewing and positioning, until something happens that the  *)
(* code makes no provision for.                                            *)
ImplementsCursor == [][F!Next \/ beyond' # {}]_<<FilesHeld, Cursors, answer>>

(* Every operation ends, also after polls that gave up.                    *)
OperationsEnd == \A p \in Procs : (op[p] # None) ~> (op[p] = None)
=============================================================================
