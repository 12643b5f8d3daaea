------------------------------ MODULE P9Client ------------------------------
(***************************************************************************)
(* The 9P client (virtio9p.c, p9.c) over its virtqueue                     *)
(* (transport_virtio9p.c, drivers/virtqueue.c).                            *)
(*                                                                         *)
(* Every process uses the same request buffer, the same reply buffer and   *)
(* the same two descriptors.  A request is built with interrupts on, sent  *)
(* and awaited with interrupts off (transport_send executes cli,           *)
(* transport_recv sti), and its reply is parsed with interrupts on again.  *)
(* A poll gives up after VIRTQ_POLL_SPIN_LIMIT turns.                      *)
(*                                                                         *)
(* A message is a record of the fields the code writes and reads; len is   *)
(* its length in bytes, which the parsers compare with the length found in *)
(* the used ring.  The host side (device and file server) is external.     *)
(***************************************************************************)
EXTENDS Naturals, Sequences, FiniteSets, SequencesExt

CONSTANTS
    Procs,        \* processes that use files of the host
    Files,        \* names of files
    IDX,          \* number of values of a ring index (2^16 in the code)
    QSIZE,        \* entries of the rings
    MaxRefusals,  \* bound: requests the server refuses, in a behaviour
    MaxTimeouts   \* bound: polls that give up, in a behaviour

ASSUME P9Assumption ==
    /\ IDX \in Nat \ {0} /\ QSIZE \in Nat \ {0}
    /\ IDX % QSIZE = 0
    /\ MaxRefusals \in Nat /\ MaxTimeouts \in Nat

VARIABLES
    g_p9_tx_buf,      \* the message built last
    g_p9_rx_buf,      \* the reply the device wrote last
    vq,               \* descriptor length, ring indices and ring of lengths
    taken,            \* requests the device has read and not answered
    server,           \* files and fids of the host
    g_session_ready, g_next_fid,
    cli,              \* the process that runs with interrupts off, or None
    rpc,              \* rpc[p]: the call process p is in
    beyond            \* what has happened that the code has no provision for

p9vars == <<g_p9_tx_buf, g_p9_rx_buf, vq, taken, server, g_session_ready,
            g_next_fid, cli, rpc, beyond>>

None == "none"
Absent == <<"absent">>
Contents(bytes) == <<"file", bytes>>

-----------------------------------------------------------------------------
(* The messages: os_p9_build_* and os_p9_parse_*.                          *)
P9_HEADER_SIZE == 7
P9_QID_SIZE == 13

NoMessage == [type |-> None, fid |-> 0, len |-> 0]
Message(type, fid, len) == [type |-> type, fid |-> fid, len |-> P9_HEADER_SIZE + len]

os_p9_build_tversion == Message("Tversion", 0, 4 + 2 + 8)
os_p9_build_tattach  == Message("Tattach", 0, 4 + 4 + 6 + 2 + 4)
os_p9_build_tclunk(fid) == Message("Tclunk", fid, 4)
os_p9_build_topen(fid, mode) == Message("Topen", fid, 4 + 1) @@ [mode |-> mode]
os_p9_build_tcreate(fid, name, mode) ==
    Message("Tcreate", fid, 4 + 2 + 1 + 4 + 1 + 2) @@ [name |-> name, mode |-> mode]
os_p9_build_tread(fid, offset, count) ==
    Message("Tread", fid, 4 + 8 + 4) @@ [offset |-> offset, count |-> count]
os_p9_build_twrite(fid, offset, data) ==
    Message("Twrite", fid, 4 + 8 + 4 + Len(data)) @@ [offset |-> offset, data |-> data]

(* A file is one component below the root; the walk to the directory in    *)
(* which a file is to be created has one component less.                   *)
os_p9_build_twalk(newfid, name, nwname) ==
    Message("Twalk", 0, 4 + 4 + 2 + 3 * nwname)
        @@ [newfid |-> newfid, name |-> name, nwname |-> nwname]

(* The shortest reply each parser accepts.                                 *)
MinLen(type) ==
    P9_HEADER_SIZE +
    CASE type = "Rversion" -> 6
      [] type = "Rattach"  -> P9_QID_SIZE
      [] type = "Rwalk"    -> 2
      [] type \in {"Ropen", "Rcreate"} -> P9_QID_SIZE + 4
      [] type \in {"Rread", "Rwrite"}  -> 4
      [] type = "Rclunk"   -> 0
      [] type = "Rerror"   -> 2

os_p9_check_error(reply, len) == reply.type = "Rerror" /\ len >= MinLen("Rerror")

Parses(type, reply, len) ==
    /\ len >= MinLen(type)
    /\ reply.type = type
    /\ type = "Rread" => len >= MinLen(type) + Len(reply.data)

ReplyTo == [Tversion |-> "Rversion", Tattach |-> "Rattach", Twalk |-> "Rwalk",
            Topen |-> "Ropen", Tcreate |-> "Rcreate", Tread |-> "Rread",
            Twrite |-> "Rwrite", Tclunk |-> "Rclunk"]

-----------------------------------------------------------------------------
(* The file server of the host.  Answers(m) is the set of outcomes of      *)
(* request m: the server afterwards and the reply.  A request may be       *)
(* refused, a read and a write may stop short.                             *)
Reply(type, len, m) == [type |-> type, len |-> P9_HEADER_SIZE + len, to |-> m]
Rerror(m) == Reply("Rerror", 2, m)

Overwrite(bytes, offset, data) ==
    [i \in 1 .. (IF offset + Len(data) > Len(bytes) THEN offset + Len(data)
                                                     ELSE Len(bytes)) |->
        IF i > offset /\ i <= offset + Len(data) THEN data[i - offset]
        ELSE IF i <= Len(bytes) THEN bytes[i] ELSE 0]

Chunk(bytes, offset, count) ==
    SubSeq(bytes, offset + 1, IF offset + count < Len(bytes) THEN offset + count ELSE Len(bytes))

Fid(m) == server.fids[m.fid]
Known(m) == m.fid \in DOMAIN server.fids
OpenAs(m, modes) == Known(m) /\ Fid(m).mode \in modes
BytesOf(name) == server.files[name][2]

SetFid(fid, name, mode) ==
    [server EXCEPT !.fids = (fid :> [name |-> name, mode |-> mode]) @@ @]

Accepted(m) ==
    CASE m.type = "Tversion" ->
            {<<[server EXCEPT !.fids = <<>>], Reply("Rversion", 14, m)>>}
      [] m.type = "Tattach" -> {<<SetFid(0, None, None), Reply("Rattach", P9_QID_SIZE, m)>>}
      [] m.type = "Twalk" /\ Known(m) /\ m.nwname = 0 ->
            {<<SetFid(m.newfid, None, None), Reply("Rwalk", 2, m) @@ [nwqid |-> 0]>>}
      [] m.type = "Twalk" /\ Known(m) /\ m.nwname = 1 /\ server.files[m.name] # Absent ->
            {<<SetFid(m.newfid, m.name, None),
               Reply("Rwalk", 2 + P9_QID_SIZE, m) @@ [nwqid |-> 1]>>}
      [] m.type = "Twalk" /\ Known(m) /\ m.nwname = 1 ->
            {<<server, Reply("Rwalk", 2, m) @@ [nwqid |-> 0]>>}
      [] m.type = "Topen" /\ Known(m) /\ Fid(m).name # None ->
            {<<[SetFid(m.fid, Fid(m).name, m.mode) EXCEPT
                  !.files[Fid(m).name] = IF m.mode = "r" THEN @ ELSE Contents(<<>>)],
               Reply("Ropen", P9_QID_SIZE + 4, m)>>}
      [] m.type = "Tcreate" /\ Known(m) /\ server.files[m.name] = Absent ->
            {<<[SetFid(m.fid, m.name, m.mode) EXCEPT !.files[m.name] = Contents(<<>>)],
               Reply("Rcreate", P9_QID_SIZE + 4, m)>>}
      [] m.type = "Tread" /\ OpenAs(m, {"r", "rw"}) ->
            LET rest == Chunk(BytesOf(Fid(m).name), m.offset, m.count)
            IN  {<<server, Reply("Rread", 4 + n, m) @@ [data |-> SubSeq(rest, 1, n)]>> :
                    n \in {k \in 0 .. Len(rest) : k > 0 \/ rest = <<>>}}
      [] m.type = "Twrite" /\ OpenAs(m, {"w", "rw"}) ->
            {<<[server EXCEPT !.files[Fid(m).name] =
                    Contents(Overwrite(@[2], m.offset, SubSeq(m.data, 1, n)))],
               Reply("Rwrite", 4, m) @@ [count |-> n]>> : n \in 1 .. Len(m.data)}
      [] m.type = "Tclunk" /\ Known(m) ->
            {<<[server EXCEPT !.fids = Restrict(@, DOMAIN @ \ {m.fid})],
               Reply("Rclunk", 0, m)>>}
      [] OTHER -> {}

Answers(m) ==
    Accepted(m)
    \cup (IF Accepted(m) = {} THEN {<<server, Rerror(m)>>}
          ELSE IF server.refusals < MaxRefusals
          THEN {<<[server EXCEPT !.refusals = @ + 1], Rerror(m)>>} ELSE {})

-----------------------------------------------------------------------------
(* The calls: os_virtio9p_open, _create, _read_chunk, _write_chunk and     *)
(* _close are sequences of requests, each of which has to be answered as   *)
(* expected before the next one is built.                                  *)
NoArgs == [name |-> None, mode |-> None, fid |-> 0, offset |-> 0, data |-> <<>>, count |-> 0]
Idle == [stage |-> "idle", plan |-> <<>>, args |-> NoArgs, msg |-> NoMessage,
         got |-> 0, ok |-> FALSE, count |-> 0, data |-> <<>>]

os_virtio9p_ensure_session == IF g_session_ready THEN <<>> ELSE <<"Tversion", "Tattach">>
os_virtio9p_open   == os_virtio9p_ensure_session \o <<"Twalk", "Topen">>
os_virtio9p_create == os_virtio9p_ensure_session \o <<"Tparent", "Tcreate">>
os_virtio9p_read_chunk  == <<"Tread">>
os_virtio9p_write_chunk == <<"Twrite">>
os_virtio9p_close  == <<"Tclunk">>

Request(step, a) ==
    CASE step = "Tversion" -> os_p9_build_tversion
      [] step = "Tattach"  -> os_p9_build_tattach
      [] step = "Twalk"    -> os_p9_build_twalk(a.fid, a.name, 1)
      [] step = "Tparent"  -> os_p9_build_twalk(a.fid, a.name, 0)
      [] step = "Topen"    -> os_p9_build_topen(a.fid, a.mode)
      [] step = "Tcreate"  -> os_p9_build_tcreate(a.fid, a.name, a.mode)
      [] step = "Tread"    -> os_p9_build_tread(a.fid, a.offset, a.count)
      [] step = "Twrite"   -> os_p9_build_twrite(a.fid, a.offset, a.data)
      [] step = "Tclunk"   -> os_p9_build_tclunk(a.fid)

InCall(q) == rpc[q].stage \notin {"idle", "done"}
MayRun(p) == cli \in {None, p}

(* The request is written to the shared buffer.  A new fid is taken when   *)
(* the walk of an open or a create is built.                               *)
Build(p) ==
    LET step == Head(rpc[p].plan)
        args == IF step \in {"Twalk", "Tparent"}
                THEN [rpc[p].args EXCEPT !.fid = g_next_fid] ELSE rpc[p].args
        msg  == Request(step, args)
    IN  /\ MayRun(p) /\ rpc[p].stage = "build"
        /\ g_p9_tx_buf' = msg
        /\ g_next_fid' = IF step \in {"Twalk", "Tparent"} THEN g_next_fid + 1 ELSE g_next_fid
        /\ rpc' = [rpc EXCEPT ![p] = [@ EXCEPT !.stage = "send", !.args = args, !.msg = msg]]
        /\ beyond' = beyond \cup (IF \E q \in Procs \ {p} : InCall(q) THEN {"overlap"} ELSE {})
        /\ UNCHANGED <<g_p9_rx_buf, vq, taken, server, g_session_ready, cli>>

(* Mutant: the entry is not published.                                     *)
SendUnpublished(p) ==
    /\ MayRun(p) /\ rpc[p].stage = "send"
    /\ cli' = p
    /\ vq' = [vq EXCEPT !.desc_len = rpc[p].msg.len]
    /\ rpc' = [rpc EXCEPT ![p].stage = "recv"]
    /\ UNCHANGED <<g_p9_tx_buf, g_p9_rx_buf, taken, server, g_session_ready,
                   g_next_fid, beyond>>

(* transport_send: interrupts go off, the descriptors are filled in, the   *)
(* entry is published and the device notified.                             *)
transport_send(p) ==
    /\ MayRun(p) /\ rpc[p].stage = "send"
    /\ cli' = p
    /\ vq' = [vq EXCEPT !.desc_len = rpc[p].msg.len, !.avail_idx = (@ + 1) % IDX]
    /\ rpc' = [rpc EXCEPT ![p].stage = "recv"]
    /\ UNCHANGED <<g_p9_tx_buf, g_p9_rx_buf, taken, server, g_session_ready,
                   g_next_fid, beyond>>

(* Mutant: the entry found is found again by the next poll.                *)
RecvKeepsIndex(p) ==
    /\ rpc[p].stage = "recv" /\ vq.used_idx # vq.last_used_idx
    /\ cli' = None
    /\ rpc' = [rpc EXCEPT ![p].stage = "parse",
                          ![p].got = vq.used_ring[vq.last_used_idx % QSIZE]]
    /\ UNCHANGED <<g_p9_tx_buf, g_p9_rx_buf, vq, taken, server, g_session_ready,
                   g_next_fid, beyond>>

(* os_virtqueue_poll finds a used entry; interrupts go on.  The length in  *)
(* the ring is not read again, and the model drops it.                     *)
transport_recv(p) ==
    /\ rpc[p].stage = "recv" /\ vq.used_idx # vq.last_used_idx
    /\ cli' = None
    /\ vq' = [vq EXCEPT !.last_used_idx = (@ + 1) % IDX,
                        !.used_ring[vq.last_used_idx % QSIZE] = 0]
    /\ rpc' = [rpc EXCEPT ![p].stage = "parse",
                          ![p].got = vq.used_ring[vq.last_used_idx % QSIZE]]
    /\ UNCHANGED <<g_p9_tx_buf, g_p9_rx_buf, taken, server, g_session_ready,
                   g_next_fid, beyond>>

(* os_virtqueue_poll gives up.  last_used_idx stays: the entry the device  *)
(* still owes will be found by a later poll.                               *)
PollTimeout(p) ==
    /\ rpc[p].stage = "recv" /\ vq.used_idx = vq.last_used_idx
    /\ vq.timeouts < MaxTimeouts
    /\ cli' = None
    /\ vq' = [vq EXCEPT !.timeouts = @ + 1]
    /\ rpc' = [rpc EXCEPT ![p] = [Idle EXCEPT !.stage = "done"]]
    /\ beyond' = beyond \cup {"late"}
    /\ UNCHANGED <<g_p9_tx_buf, g_p9_rx_buf, taken, server, g_session_ready, g_next_fid>>

(* p9_rpc's error check and the parser of the expected reply.  The last    *)
(* reply of a call is its result; the session is ready after Rattach.      *)
Parse(p) ==
    LET r == g_p9_rx_buf
        c == rpc[p]
        good == /\ ~os_p9_check_error(r, c.got)
                /\ Parses(ReplyTo[c.msg.type], r, c.got)
                /\ r.type = "Rwalk" => r.nwqid = c.msg.nwname
        next == [c EXCEPT !.stage = IF Len(c.plan) = 1 THEN "done" ELSE "build",
                          !.plan = Tail(c.plan), !.ok = Len(c.plan) = 1,
                          !.count = IF r.type = "Rwrite" THEN r.count ELSE 0,
                          !.data = IF r.type = "Rread" THEN r.data ELSE <<>>]
    IN  /\ MayRun(p) /\ c.stage = "parse"
        /\ rpc' = [rpc EXCEPT ![p] = IF good THEN next ELSE [Idle EXCEPT !.stage = "done"]]
        /\ g_session_ready' = (g_session_ready \/ (good /\ r.type = "Rattach"))
        /\ UNCHANGED <<g_p9_tx_buf, g_p9_rx_buf, vq, taken, server, g_next_fid, cli, beyond>>

(* The device takes the request that is in the buffer when it gets to it.  *)
DeviceTakes ==
    /\ vq.taken_idx # vq.avail_idx
    /\ vq' = [vq EXCEPT !.taken_idx = (@ + 1) % IDX]
    /\ taken' = Append(taken, <<g_p9_tx_buf, vq.desc_len>>)
    /\ UNCHANGED <<g_p9_tx_buf, g_p9_rx_buf, server, g_session_ready, g_next_fid, cli, rpc, beyond>>

(* The server executes a request, the device writes the reply to the       *)
(* buffer and its length to the used ring.                                 *)
DeviceAnswers ==
    /\ taken # <<>>
    /\ \E a \in IF Head(taken)[1].len = Head(taken)[2] THEN Answers(Head(taken)[1])
                ELSE {<<server, Rerror(Head(taken)[1])>>} :
          /\ server' = a[1]
          /\ g_p9_rx_buf' = a[2]
          /\ vq' = [vq EXCEPT !.used_ring[vq.used_idx % QSIZE] = a[2].len,
                              !.used_idx = (@ + 1) % IDX]
          /\ beyond' = beyond \cup
                (IF a[2].type = "Rwrite" /\ a[2].count < Len(a[2].to.data)
                 THEN {"short write"} ELSE {})
    /\ taken' = Tail(taken)
    /\ UNCHANGED <<g_p9_tx_buf, g_session_ready, g_next_fid, cli, rpc>>

P9Init ==
    /\ g_p9_tx_buf = NoMessage /\ g_p9_rx_buf = NoMessage
    /\ vq = [desc_len |-> 0, avail_idx |-> 0, used_idx |-> 0, last_used_idx |-> 0,
             taken_idx |-> 0, used_ring |-> [i \in 0 .. QSIZE - 1 |-> 0], timeouts |-> 0]
    /\ taken = <<>>
    /\ g_session_ready = FALSE /\ g_next_fid = 1 /\ cli = None
    /\ rpc = [p \in Procs |-> Idle]
    /\ beyond = {}

P9Step(p) == Build(p) \/ transport_send(p) \/ transport_recv(p) \/ PollTimeout(p) \/ Parse(p)
Device == DeviceTakes \/ DeviceAnswers

(* Streams starts a call, and ends it when it has used the result.         *)
Call(p, plan, args) == rpc' = [rpc EXCEPT ![p] = [Idle EXCEPT !.stage = "build",
                                                            !.plan = plan, !.args = args]]

(* What is left in the buffers is dropped when nothing can read it before  *)
(* it is overwritten.                                                      *)
Outstanding == vq.taken_idx # vq.avail_idx \/ taken # <<>>
EndCall(p) ==
    LET dead == ~Outstanding /\ \A q \in Procs \ {p} : ~InCall(q) IN
    /\ rpc' = [rpc EXCEPT ![p] = Idle]
    /\ g_p9_tx_buf' = IF dead THEN NoMessage ELSE g_p9_tx_buf
    /\ g_p9_rx_buf' = IF dead THEN NoMessage ELSE g_p9_rx_buf
=============================================================================
