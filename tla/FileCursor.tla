----------------------------- MODULE FileCursor -----------------------------
(***************************************************************************)
(* What streams promise, without buffers, requests and replies: each       *)
(* process has at most one open stream, which is a position in a sequence  *)
(* of bytes; a character is read from and written to that position.        *)
(*                                                                         *)
(* files[p][w] is what process p's file holds in place w (a file of the    *)
(* host, of a FAT volume, or a string in memory).  A stream that failed    *)
(* promises nothing about its file and delivers no more characters.        *)
(***************************************************************************)
EXTENDS Naturals, Sequences

CONSTANTS Procs, Bytes, Text
VARIABLES files, cursor, answer
vars == <<files, cursor, answer>>

None == "none"
NoCursor == [at |-> None, pos |-> 0]
Pos(p) == cursor[p].pos
At(p) == cursor[p].at
Open(p) == At(p) \in {"9p", "fat", "string"}
Data(p) == files[p][At(p)][2]

Put(bytes, pos, b) == IF pos < Len(bytes) THEN [bytes EXCEPT ![pos + 1] = b]
                                          ELSE Append(bytes, b)

(* An operation without an answer; an earlier answer is kept or forgotten. *)
Silent(p) == answer' \in {answer, [answer EXCEPT ![p] = <<"none">>]}
Forget(p) == Silent(p) /\ UNCHANGED <<files, cursor>>

(* An open either fails, or sets the stream to the first byte.  Until it   *)
(* ends, the file may be truncated or created; afterwards nothing but a    *)
(* write changes it.                                                       *)
BeginOpen(p) ==
    /\ ~Open(p)
    /\ cursor' = [cursor EXCEPT ![p] = [at |-> "opening", pos |-> 0]]
    /\ UNCHANGED files /\ Silent(p)

Prepare(p) ==
    /\ At(p) = "opening"
    /\ \E w \in {"9p", "fat"} : files' = [files EXCEPT ![p][w] = <<"file", <<>>>>]
    /\ UNCHANGED cursor /\ Silent(p)

EndOpen(p) ==
    /\ At(p) = "opening"
    /\ \E w \in {"9p", "fat"} :
          /\ files[p][w] # <<"absent">>
          /\ cursor' = [cursor EXCEPT ![p] = [at |-> w, pos |-> 0]]
    /\ UNCHANGED files /\ Silent(p)

OpenFails(p) ==
    /\ ~Open(p)
    /\ cursor' = [cursor EXCEPT ![p] = NoCursor]
    /\ \E a \in {<<"error">>, <<"transfer">>} : answer' = [answer EXCEPT ![p] = a]
    /\ UNCHANGED files

(* A string stream holds nothing, the program's text, or all of a FAT file. *)
OpenString(p) ==
    /\ ~Open(p)
    /\ \E c \in {<<"file", <<>>>>, <<"file", Text>>, files[p]["fat"]} :
          files' = [files EXCEPT ![p]["string"] = c]
    /\ cursor' = [cursor EXCEPT ![p] = [at |-> "string", pos |-> 0]]
    /\ Silent(p)

Read(p) ==
    /\ Open(p) /\ Pos(p) < Len(Data(p))
    /\ answer' = [answer EXCEPT ![p] = <<"char", Data(p)[Pos(p) + 1]>>]
    /\ cursor' = [cursor EXCEPT ![p].pos = @ + 1]
    /\ UNCHANGED files

Preview(p) ==
    /\ Open(p) /\ Pos(p) < Len(Data(p))
    /\ answer' = [answer EXCEPT ![p] = <<"char", Data(p)[Pos(p) + 1]>>]
    /\ UNCHANGED <<files, cursor>>

EndOfStream(p) ==
    /\ Open(p) => Pos(p) >= Len(Data(p))
    /\ answer' = [answer EXCEPT ![p] = <<"eos">>]
    /\ UNCHANGED <<files, cursor>>

Write(p, b) ==
    /\ Open(p)
    /\ files' = [files EXCEPT ![p][At(p)][2] = Put(@, Pos(p), b)]
    /\ cursor' = [cursor EXCEPT ![p].pos = @ + 1]
    /\ Silent(p)

Position(p) ==
    /\ Open(p)
    /\ answer' = [answer EXCEPT ![p] = <<"position", Pos(p)>>]
    /\ UNCHANGED <<files, cursor>>

(* The position is set to one inside the file; in a string that is being   *)
(* written, what follows it is gone.                                       *)
SetPosition(p) ==
    /\ Open(p)
    /\ \E n \in 0 .. Len(Data(p)) :
          /\ cursor' = [cursor EXCEPT ![p].pos = n]
          /\ files' = files \/ (/\ At(p) = "string"
                                /\ files' = [files EXCEPT ![p]["string"][2] = SubSeq(@, 1, n)])
    /\ Silent(p)

(* The string of an output stream is what was written since the last call. *)
TakeString(p) ==
    /\ At(p) = "string"
    /\ answer' = [answer EXCEPT ![p] = <<"string", Data(p)>>]
    /\ files' = [files EXCEPT ![p]["string"][2] = <<>>]
    /\ cursor' = [cursor EXCEPT ![p].pos = 0]

Close(p) ==
    /\ At(p) # None
    /\ cursor' = [cursor EXCEPT ![p] = NoCursor]
    /\ files' = [files EXCEPT ![p]["string"] = <<"absent">>]
    /\ Silent(p)

Length(p) ==
    /\ ~Open(p)
    /\ \E w \in {"9p", "fat"} :
          \/ /\ files[p][w] # <<"absent">>
             /\ answer' = [answer EXCEPT ![p] = <<"length", Len(files[p][w][2])>>]
          \/ answer' = [answer EXCEPT ![p] = <<"error">>]
    /\ cursor' = [cursor EXCEPT ![p] = NoCursor]
    /\ UNCHANGED files

Probe(p) ==
    /\ ~Open(p)
    /\ \E w \in {"9p", "fat"}, r \in BOOLEAN :
          /\ r => files[p][w] # <<"absent">>
          /\ answer' = [answer EXCEPT ![p] = <<"probe", r>>]
    /\ cursor' = [cursor EXCEPT ![p] = NoCursor]
    /\ UNCHANGED files

(* An operation of the stream failed: bytes that were written may be lost, *)
(* and the answer says so.                                                 *)
OnlyFile(p) ==
    \E w \in {"9p", "fat"} : \A q \in Procs, v \in {"9p", "fat", "string"} :
        <<q, v>> # <<p, w>> => files'[q][v] = files[q][v]

Fail(p) ==
    /\ Open(p)
    /\ \E at \in {"failed", None} : cursor' = [cursor EXCEPT ![p] = [at |-> at, pos |-> 0]]
    /\ OnlyFile(p)
    /\ \E a \in {<<"transfer">>, <<"eos">>} : answer' = [answer EXCEPT ![p] = a]

(* A stream that failed may still change its file, until it is closed.     *)
Failed(p) ==
    /\ At(p) = "failed"
    /\ OnlyFile(p)
    /\ cursor' \in {cursor, [cursor EXCEPT ![p] = NoCursor]}
    /\ Silent(p) \/ answer' = [answer EXCEPT ![p] = <<"transfer">>]

Next == \E p \in Procs :
    \/ Forget(p) \/ BeginOpen(p) \/ Prepare(p) \/ EndOpen(p) \/ OpenFails(p)
    \/ Read(p) \/ Preview(p) \/ EndOfStream(p) \/ Position(p)
    \/ \E b \in Bytes : Write(p, b)
    \/ OpenString(p) \/ SetPosition(p) \/ TakeString(p) \/ Close(p) \/ Length(p) \/ Probe(p) \/ Fail(p) \/ Failed(p)
=============================================================================
