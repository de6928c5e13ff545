----------------------------- MODULE PushBatch ------------------------------
(***************************************************************************)
(* A batch push: the CLI streams the files of a manifest back to back over *)
(* one connection, and rsdbd cuts the stream into files again by the sizes *)
(* the manifest announced.  A frame carries no file name, so nothing but   *)
(* the two counters, remaining on one side and file_bytes on the other,    *)
(* keeps one file's bytes out of the next file.                            *)
(*                                                                         *)
(* The local files may change between the building of the manifest and the *)
(* reading of the file, so a file has some length of its own when opened.  *)
(***************************************************************************)
EXTENDS Manifest, Integers

CONSTANTS
    MaxReal,   \* bound: the longest a local file may turn out to be
    MaxChunk,  \* DEFAULT_STREAM_CHUNK_SIZE
    Header     \* HEADER_LEN

ASSUME BoundAssumption == MaxReal \in Nat /\ MaxChunk \in Nat \ {0} /\ Header \in Nat \ {0}

(* A data frame holds bytes from .. from + len - 1 of the source of file. *)
Chunk == [type : {"data"}, file : Entry, from : Nat \ {0}, len : Nat \ {0}]
Frame == Chunk \cup {[type |-> "eof"]}

Response == [type : {"ready", "error"}] \cup [type : {"complete"}, bytes : Nat]

Payload(m) == [k \in 1 .. m.len |-> <<m.file, m.from + k - 1>>]
-----------------------------------------------------------------------------
VARIABLES
    cpc,        \* where the client is
    cidx,       \* the entry whose file the client streams
    real,       \* the length of that file as it is being read
    fileBytes,  \* bytes of it streamed so far (file_bytes)
    sent,       \* bytes streamed so far (total_bytes)
    up,         \* frames written by the client and not read by the daemon
    flushed,    \* how many of them have left the client's BufWriter
    fill,       \* bytes in the BufWriter
    down,       \* responses on their way to the client
    linkUp,     \* the connection carries data in both directions
    dpc,        \* where the daemon's handler is
    didx,       \* the entry it is at
    remaining,  \* bytes it still expects for that entry
    written,    \* bytes_written
    disk        \* disk[i]: the bytes of entry i's file on the device

clientVars == <<cpc, cidx, real, fileBytes, sent, fill>>
daemonVars == <<dpc, didx, remaining, written, disk>>
wireVars   == <<up, flushed, down, linkUp>>
vars == <<clientVars, wireVars, daemonVars>>

ClientEnds == {"ok", "remote_error", "failed"}
DaemonEnds == {"complete", "failed"}

Init ==
    /\ cpc = "await_ready" /\ cidx = 1 /\ real = 0 /\ fileBytes = 0 /\ sent = 0 /\ fill = 0
    /\ up = << >> /\ flushed = 0 /\ down = << >> /\ linkUp = TRUE
    /\ dpc = "resolve" /\ didx = 1 /\ remaining = 0 /\ written = 0
    /\ disk = [i \in Entry |-> << >>]
-----------------------------------------------------------------------------
(* The client.                                                              *)

(* execute_push_manifest returns.  Its stream is dropped, and with it what  *)
(* the BufWriter still holds; what has been flushed is delivered before the *)
(* connection closes.                                                       *)
ClientEnd(outcome) ==
    /\ cpc' = outcome
    /\ up' = SubSeq(up, 1, flushed) /\ fill' = 0
    /\ UNCHANGED <<cidx, real, fileBytes, sent, flushed>>

ClientGoto(l) == cpc' = l /\ UNCHANGED <<cidx, real, fileBytes, sent, fill, up, flushed>>

(* read_response: the answer to the request. *)
RecvReady ==
    /\ cpc = "await_ready" /\ down # << >>
    /\ down' = Tail(down)
    /\ IF Head(down).type = "ready" THEN ClientGoto("next_file") ELSE ClientEnd("remote_error")
    /\ UNCHANGED <<linkUp, daemonVars>>

(* stream_local_batch_files walks manifest.files, which has no directories. *)
SkipDir ==
    /\ cpc = "next_file" /\ cidx <= N /\ Kind[cidx] = "dir"
    /\ cidx' = cidx + 1
    /\ UNCHANGED <<cpc, real, fileBytes, sent, fill, wireVars, daemonVars>>

(* The next file is opened. *)
OpenFile ==
    /\ cpc = "next_file" /\ cidx <= N /\ Kind[cidx] = "file"
    /\ \/ /\ \E r \in 0 .. MaxReal : real' = r
          /\ fileBytes' = 0 /\ cpc' = "stream"
          /\ UNCHANGED <<cidx, sent, fill, up, flushed>>
       \/ ClientEnd("failed")
    /\ UNCHANGED <<down, linkUp, daemonVars>>

(* One read of the file and the frame that carries it.  The BufWriter holds *)
(* one full frame: it is flushed when a header or a payload does not fit,   *)
(* and a frame whose payload is still held cannot be read by the daemon.    *)
SendChunk ==
    /\ cpc = "stream" /\ fileBytes < real /\ linkUp
    /\ \E n \in 1 .. MaxChunk :
         LET early == fill + Header > Header + MaxChunk
             late  == fill + Header + n > Header + MaxChunk
         IN  /\ fileBytes + n <= real
             /\ up' = Append(up, [type |-> "data", file |-> cidx, from |-> fileBytes + 1, len |-> n])
             /\ flushed' = IF early \/ late THEN Len(up) ELSE flushed
             /\ fill' = IF early THEN Header + n ELSE IF late THEN n ELSE fill + Header + n
             /\ fileBytes' = fileBytes + n
             /\ sent' = sent + n
    /\ UNCHANGED <<cpc, cidx, real, down, linkUp, daemonVars>>

(* Mutant: the size check after the last read is dropped. *)
FinishFileUnchecked ==
    /\ cpc = "stream" /\ fileBytes = real
    /\ cpc' = "next_file" /\ cidx' = cidx + 1
    /\ UNCHANGED <<real, fileBytes, sent, fill, wireVars, daemonVars>>

(* End of file: "local file changed during push" unless the length is the   *)
(* one the manifest announced.                                              *)
FinishFile ==
    /\ cpc = "stream" /\ fileBytes = real
    /\ IF fileBytes = Size[cidx]
       THEN cpc' = "next_file" /\ cidx' = cidx + 1
            /\ UNCHANGED <<real, fileBytes, sent, fill, up, flushed>>
       ELSE ClientEnd("failed")
    /\ UNCHANGED <<down, linkUp, daemonVars>>

(* All files streamed: flush, compare the total, and write the EOF frame to *)
(* the connection itself.                                                   *)
SendEof ==
    /\ cpc = "next_file" /\ cidx = N + 1 /\ linkUp
    /\ IF sent = TotalBytes
       THEN /\ cpc' = "await_complete" /\ fill' = 0
            /\ up' = Append(up, [type |-> "eof"]) /\ flushed' = Len(up) + 1
            /\ UNCHANGED <<cidx, real, fileBytes, sent>>
       ELSE ClientEnd("failed")
    /\ UNCHANGED <<down, linkUp, daemonVars>>

(* read_response: the final answer, whose byte count must be ours. *)
RecvComplete ==
    /\ cpc = "await_complete" /\ down # << >>
    /\ down' = Tail(down)
    /\ ClientEnd(CASE Head(down).type = "error" -> "remote_error"
                   [] Head(down).type = "complete" /\ Head(down).bytes = sent -> "ok"
                   [] OTHER -> "failed")
    /\ UNCHANGED <<linkUp, daemonVars>>

(* A read or a write on the connection fails: the daemon is gone, or the    *)
(* network is.  A daemon that closes with unread data resets the            *)
(* connection, and a response already sent may be lost with it.             *)
ClientIoError ==
    /\ cpc \notin ClientEnds
    /\ ~linkUp \/ dpc \in DaemonEnds
    /\ \/ cpc \in {"next_file", "stream"}
       \/ cpc \in {"await_ready", "await_complete"} /\ (down = << >> \/ up # << >> \/ ~linkUp)
    /\ ClientEnd("failed")
    /\ UNCHANGED <<down, linkUp, daemonVars>>
-----------------------------------------------------------------------------
(* The daemon.                                                              *)

Respond(r) == down' = IF linkUp THEN Append(down, r) ELSE down

(* handle_push_batch returns an error and handle_request sends it. *)
DaemonFail ==
    /\ dpc' = "failed"
    /\ Respond([type |-> "error"])
    /\ UNCHANGED <<didx, remaining, written, disk>>

(* resolve_batch_destination_roots, then PushBatchReady. *)
Resolve ==
    /\ dpc = "resolve"
    /\ \/ /\ dpc' = "entry" /\ Respond([type |-> "ready"])
          /\ UNCHANGED <<didx, remaining, written, disk>>
       \/ DaemonFail
    /\ UNCHANGED <<clientVars, up, flushed, linkUp>>

(* The next entry: a directory is created, a file opened and truncated;     *)
(* either can fail.                                                         *)
StartEntry ==
    /\ dpc = "entry" /\ didx <= N
    /\ \/ /\ Kind[didx] = "dir"
          /\ didx' = didx + 1
          /\ UNCHANGED <<dpc, remaining, written, disk, down>>
       \/ /\ Kind[didx] = "file"
          /\ disk' = [disk EXCEPT ![didx] = << >>]
          /\ remaining' = Size[didx] /\ dpc' = "write"
          /\ UNCHANGED <<didx, written, down>>
       \/ DaemonFail
    /\ UNCHANGED <<clientVars, up, flushed, linkUp>>

(* Mutant: a chunk longer than what is expected is accepted. *)
RecvChunkNoOverflowCheck ==
    /\ dpc = "write" /\ remaining > 0 /\ flushed > 0
    /\ up' = Tail(up) /\ flushed' = flushed - 1
    /\ \/ LET m == Head(up) IN
          /\ m.type = "data"
          /\ disk' = [disk EXCEPT ![didx] = @ \o Payload(m)]
          /\ remaining' = IF m.len > remaining THEN 0 ELSE remaining - m.len
          /\ written' = written + m.len
          /\ UNCHANGED <<dpc, didx, down>>
       \/ DaemonFail
    /\ UNCHANGED <<clientVars, linkUp>>

(* The while loop of handle_push_batch: read_file_stream_chunk_into, the    *)
(* two checks on the chunk, write_all.  A chunk that ends the stream or is  *)
(* too long fails the push, and so can the write.                           *)
RecvChunk ==
    /\ dpc = "write" /\ remaining > 0 /\ flushed > 0
    /\ up' = Tail(up) /\ flushed' = flushed - 1
    /\ \/ LET m == Head(up) IN
          /\ m.type = "data" /\ m.len <= remaining
          /\ disk' = [disk EXCEPT ![didx] = @ \o Payload(m)]
          /\ remaining' = remaining - m.len
          /\ written' = written + m.len
          /\ UNCHANGED <<dpc, didx, down>>
       \/ DaemonFail
    /\ UNCHANGED <<clientVars, linkUp>>

(* The file is complete: flush and set_permissions, then the next entry. *)
FinishEntry ==
    /\ dpc = "write" /\ remaining = 0
    /\ \/ /\ dpc' = "entry" /\ didx' = didx + 1
          /\ UNCHANGED <<remaining, written, disk, down>>
       \/ DaemonFail
    /\ UNCHANGED <<clientVars, up, flushed, linkUp>>

(* expect_file_stream_eof, then PushBatchComplete. *)
ExpectEof ==
    /\ dpc = "entry" /\ didx = N + 1 /\ flushed > 0
    /\ up' = Tail(up) /\ flushed' = flushed - 1
    /\ IF Head(up).type = "eof"
       THEN /\ dpc' = "complete"
            /\ Respond([type |-> "complete", bytes |-> written])
            /\ UNCHANGED <<didx, remaining, written, disk>>
       ELSE DaemonFail
    /\ UNCHANGED <<clientVars, linkUp>>

(* Mutant: the handler tries to read on after the client has gone. *)
DaemonIoErrorRetried ==
    /\ dpc \notin DaemonEnds
    /\ ~linkUp \/ (cpc \in ClientEnds /\ up = << >> /\ dpc # "resolve")
    /\ UNCHANGED vars

(* A read meets the end of the connection: the client is gone. *)
DaemonIoError ==
    /\ dpc \notin DaemonEnds
    /\ \/ ~linkUp
       \/ /\ cpc \in ClientEnds /\ up = << >>
          /\ (dpc = "write" /\ remaining > 0) \/ (dpc = "entry" /\ didx = N + 1)
    /\ DaemonFail
    /\ UNCHANGED <<clientVars, up, flushed, linkUp>>
-----------------------------------------------------------------------------
(* The network drops the connection, and with it what is in flight from     *)
(* some frame on.                                                           *)
LoseLink ==
    /\ linkUp /\ linkUp' = FALSE
    /\ \E k \in 0 .. flushed : up' = SubSeq(up, 1, k) /\ flushed' = k
    /\ \E k \in 0 .. Len(down) : down' = SubSeq(down, 1, k)
    /\ UNCHANGED <<clientVars, daemonVars>>

Client == \/ RecvReady \/ SkipDir \/ OpenFile \/ SendChunk \/ FinishFile \/ SendEof
          \/ RecvComplete \/ ClientIoError
Daemon == Resolve \/ StartEntry \/ RecvChunk \/ FinishEntry \/ ExpectEof \/ DaemonIoError

Terminated == cpc \in ClientEnds /\ dpc \in DaemonEnds /\ UNCHANGED vars

Next == Client \/ Daemon \/ LoseLink \/ Terminated

(* Both processes keep running.  Nothing is assumed of a lost connection:   *)
(* neither side has a timeout for a peer that vanishes without closing.     *)
Spec == Init /\ [][Next]_vars /\ WF_vars(linkUp /\ Client) /\ WF_vars(linkUp /\ Daemon)
-----------------------------------------------------------------------------
(* Type correctness of both ends and of the connection. *)
TypeOK ==
    /\ cpc \in {"await_ready", "next_file", "stream", "await_complete"} \cup ClientEnds
    /\ cidx \in 1 .. N + 1
    /\ real \in 0 .. MaxReal /\ fileBytes \in 0 .. MaxReal /\ sent \in Nat
    /\ fill \in 0 .. Header + MaxChunk
    /\ up \in Seq(Frame) /\ flushed \in 0 .. Len(up)
    /\ down \in Seq(Response) /\ linkUp \in BOOLEAN
    /\ dpc \in {"resolve", "entry", "write"} \cup DaemonEnds
    /\ didx \in 1 .. N + 1
    /\ remaining \in Nat /\ written \in Nat
    /\ disk \in [Entry -> Seq(SourceByte)]

(* The daemon's place in the stream is its place in the manifest: what it   *)
(* has written is as long as the entries before plus its part of this one.  *)
(* So PushBatchComplete is only sent when every file on the device holds    *)
(* exactly the bytes of its own local file, however they were cut into      *)
(* frames and whatever became of the local files.                           *)
PositionsAgree ==
    /\ TypeOK
    /\ dpc = "write" => written + remaining = Base[didx] + Size[didx]
    /\ dpc \in {"entry", "complete"} => written = Base[didx]
    /\ dpc \notin DaemonEnds /\ didx \in Entry =>
          Len(disk[didx]) = IF dpc = "write" THEN Size[didx] - remaining ELSE 0
    /\ dpc = "complete" => \A i \in Entry : Kind[i] = "file" => disk[i] = Announced(i)

(* Neither side waits for ever on the other: as long as the connection      *)
(* holds, both end, whichever step of either failed.                        *)
BothEnd == []linkUp => <>(cpc \in ClientEnds /\ dpc \in DaemonEnds)

(* The push keeps the promise of Delivery. *)
Promise == INSTANCE Delivery WITH
    outcome <- IF cpc = "ok" THEN "ok" ELSE IF cpc \in ClientEnds THEN "failed" ELSE "running",
    dest <- disk

(* execute_push_manifest with handle_push_batch: success means that every   *)
(* file arrived whole and in its own place, and is final; a failed push may *)
(* still write for a while, never past a file's announced size.             *)
Delivers == Promise!Spec
=============================================================================
