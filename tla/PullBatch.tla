----------------------------- MODULE PullBatch ------------------------------
(***************************************************************************)
(* A batch pull: rsdbd sends the manifest, streams the files back to back  *)
(* through a BufWriter, and the CLI cuts the stream into files again.      *)
(*                                                                         *)
(* Unlike a push, the sender goes on talking after it has failed: the      *)
(* BufWriter is dropped with what it holds and an error response follows   *)
(* on the same connection, possibly after a header whose payload never     *)
(* came.  The connection is therefore modelled as a sequence of units: a   *)
(* header is one unit, a payload byte is one unit, and a reader takes      *)
(* whatever units come next.                                               *)
(***************************************************************************)
EXTENDS Manifest, Integers

CONSTANTS
    MaxReal,   \* bound: the longest a remote file may turn out to be
    MaxChunk,  \* DEFAULT_STREAM_CHUNK_SIZE
    JsonLen    \* length of a response's payload

ASSUME BoundAssumption == MaxReal \in Nat /\ MaxChunk \in Nat \ {0} /\ JsonLen \in Nat \ {0}

(* A byte that comes from no file. *)
Junk == <<0, 0>>

(* bytes is the count a response carries; in a stream frame it is history,  *)
(* the number of bytes streamed before it, which no reader looks at.        *)
HeaderUnit == [unit : {"header"}, kind : {"data", "eof", "metadata", "error", "complete"},
               len : Nat, bytes : Nat]
ByteUnit   == [unit : {"byte"}, byte : SourceByte \cup {Junk}]

Header(kind, len, bytes) == [unit |-> "header", kind |-> kind, len |-> len, bytes |-> bytes]
Data(f, from, n) == [k \in 1 .. n |-> [unit |-> "byte", byte |-> <<f, from + k - 1>>]]

(* write_json_frame on the connection itself. *)
Json(kind, bytes) ==
    <<Header(kind, JsonLen, bytes)>> \o [k \in 1 .. JsonLen |-> [unit |-> "byte", byte |-> Junk]]
-----------------------------------------------------------------------------
VARIABLES
    dpc,        \* where the daemon's handler is
    didx,       \* the entry whose file it streams
    real,       \* the length of that file as it is being read
    fileBytes,  \* bytes of it streamed so far (file_bytes)
    sent,       \* bytes streamed so far (total_bytes)
    held,       \* units in the BufWriter
    wire,       \* units on their way to the client
    linkUp,     \* the connection carries data
    cpc,        \* where the client is
    cidx,       \* the entry it is at
    remaining,  \* bytes it still expects for that entry
    received,   \* bytes_received
    disk        \* disk[i]: the bytes of entry i's local file

daemonVars == <<dpc, didx, real, fileBytes, sent, held>>
clientVars == <<cpc, cidx, remaining, received, disk>>
vars == <<daemonVars, wire, linkUp, clientVars>>

DaemonEnds == {"complete", "failed"}
ClientEnds == {"ok", "remote_error", "bad_stream", "failed"}

Init ==
    /\ dpc = "manifest" /\ didx = 1 /\ real = 0 /\ fileBytes = 0 /\ sent = 0 /\ held = << >>
    /\ wire = << >> /\ linkUp = TRUE
    /\ cpc = "await_metadata" /\ cidx = 1 /\ remaining = 0 /\ received = 0
    /\ disk = [i \in Entry |-> << >>]
-----------------------------------------------------------------------------
(* The daemon.                                                              *)

ToWire(units) == wire' = IF linkUp THEN wire \o units ELSE wire

(* handle_pull_batch returns an error: the BufWriter, if there is one, is   *)
(* dropped unflushed, and handle_request sends the error.                   *)
DaemonFail ==
    /\ dpc' = "failed" /\ held' = << >>
    /\ ToWire(Json("error", 0))
    /\ UNCHANGED <<didx, real, fileBytes, sent>>

(* build_batch_manifest_from_sources, then PullBatchMetadata. *)
SendMetadata ==
    /\ dpc = "manifest"
    /\ \/ /\ dpc' = "next_file" /\ ToWire(Json("metadata", TotalBytes))
          /\ UNCHANGED <<didx, real, fileBytes, sent, held>>
       \/ DaemonFail
    /\ UNCHANGED <<linkUp, clientVars>>

(* manifest.files has no directories. *)
SkipDir ==
    /\ dpc = "next_file" /\ didx <= N /\ Kind[didx] = "dir"
    /\ didx' = didx + 1
    /\ UNCHANGED <<dpc, real, fileBytes, sent, held, wire, linkUp, clientVars>>

OpenFile ==
    /\ dpc = "next_file" /\ didx <= N /\ Kind[didx] = "file"
    /\ \/ /\ \E r \in 0 .. MaxReal : real' = r
          /\ fileBytes' = 0 /\ dpc' = "stream"
          /\ UNCHANGED <<didx, sent, held, wire>>
       \/ DaemonFail
    /\ UNCHANGED <<linkUp, clientVars>>

(* BufWriter::write_all: what it holds goes out first when the new units do *)
(* not fit; its capacity is a header and a full chunk.                      *)
Buffered(b, units) ==
    IF Len(b.held) + Len(units) > 1 + MaxChunk
    THEN [out |-> b.out \o b.held, held |-> units]
    ELSE [b EXCEPT !.held = @ \o units]

(* One read of the file, and write_stream_frame: header, then payload. *)
SendChunk ==
    /\ dpc = "stream" /\ fileBytes < real /\ linkUp
    /\ \E n \in 1 .. MaxChunk :
         LET start == [out |-> << >>, held |-> held]
             b == Buffered(Buffered(start, <<Header("data", n, sent)>>), Data(didx, fileBytes + 1, n))
         IN  /\ fileBytes + n <= real
             /\ wire' = wire \o b.out /\ held' = b.held
             /\ fileBytes' = fileBytes + n
             /\ sent' = sent + n
    /\ UNCHANGED <<dpc, didx, real, linkUp, clientVars>>

(* Mutant: the size check after the last read is dropped. *)
FinishFileUnchecked ==
    /\ dpc = "stream" /\ fileBytes = real
    /\ dpc' = "next_file" /\ didx' = didx + 1
    /\ UNCHANGED <<real, fileBytes, sent, held, wire, linkUp, clientVars>>

(* End of file: "remote file changed during pull" unless the length is the  *)
(* one the manifest announced.                                              *)
FinishFile ==
    /\ dpc = "stream" /\ fileBytes = real
    /\ IF fileBytes = Size[didx]
       THEN dpc' = "next_file" /\ didx' = didx + 1 /\ UNCHANGED <<real, fileBytes, sent, held, wire>>
       ELSE DaemonFail
    /\ UNCHANGED <<linkUp, clientVars>>

(* Mutant: the writer is dropped without a flush. *)
SendEndUnflushed ==
    /\ dpc = "next_file" /\ didx = N + 1
    /\ IF sent = TotalBytes
       THEN /\ dpc' = "complete" /\ held' = << >>
            /\ ToWire(<<Header("eof", 0, sent)>> \o Json("complete", sent))
            /\ UNCHANGED <<didx, real, fileBytes, sent>>
       ELSE DaemonFail
    /\ UNCHANGED <<linkUp, clientVars>>

(* All files streamed: flush, compare the total, the EOF frame and          *)
(* PullBatchComplete on the connection itself.                              *)
SendEnd ==
    /\ dpc = "next_file" /\ didx = N + 1
    /\ IF sent = TotalBytes
       THEN /\ dpc' = "complete" /\ held' = << >>
            /\ ToWire(held \o <<Header("eof", 0, sent)>> \o Json("complete", sent))
            /\ UNCHANGED <<didx, real, fileBytes, sent>>
       ELSE DaemonFail
    /\ UNCHANGED <<linkUp, clientVars>>

(* A read of a file fails, or a write on the connection because the client  *)
(* is gone.                                                                 *)
DaemonIoError ==
    /\ \/ dpc = "stream"
       \/ dpc \notin DaemonEnds /\ (~linkUp \/ cpc \in ClientEnds)
    /\ DaemonFail
    /\ UNCHANGED <<linkUp, clientVars>>
-----------------------------------------------------------------------------
(* The client.                                                              *)

(* read_frame_into: a header must come next, and its payload must follow. *)
AtHeader   == wire # << >> /\ Head(wire).unit = "header"
FrameReady == AtHeader /\ Len(wire) > Head(wire).len
Skip(h)    == wire' = SubSeq(wire, h.len + 2, Len(wire))

(* The payload as the reader sees it: a header is as good as any bytes. *)
Payload(h) == [k \in 1 .. h.len |-> IF wire[k + 1].unit = "byte" THEN wire[k + 1].byte ELSE Junk]

ClientEnd(outcome) == cpc' = outcome /\ UNCHANGED <<cidx, remaining, received, disk>>

(* read_response: PullBatchMetadata, then resolve_local_batch_roots. *)
RecvMetadata ==
    /\ cpc = "await_metadata" /\ FrameReady
    /\ Skip(Head(wire))
    /\ \/ /\ Head(wire).kind = "metadata"
          /\ cpc' = "entry" /\ UNCHANGED <<cidx, remaining, received, disk>>
       \/ Head(wire).kind = "metadata" /\ ClientEnd("failed")
       \/ Head(wire).kind = "error" /\ ClientEnd("remote_error")
    /\ UNCHANGED <<linkUp, daemonVars>>

(* receive_local_batch: a directory is created, a file opened and truncated. *)
StartEntry ==
    /\ cpc = "entry" /\ cidx <= N
    /\ \/ /\ Kind[cidx] = "dir"
          /\ cidx' = cidx + 1
          /\ UNCHANGED <<cpc, remaining, received, disk>>
       \/ /\ Kind[cidx] = "file"
          /\ disk' = [disk EXCEPT ![cidx] = << >>]
          /\ remaining' = Size[cidx] /\ cpc' = "write"
          /\ UNCHANGED <<cidx, received>>
       \/ ClientEnd("failed")
    /\ UNCHANGED <<wire, linkUp, daemonVars>>

(* Mutant: a chunk longer than what is expected is accepted. *)
RecvChunkNoOverflowCheck ==
    /\ cpc = "write" /\ remaining > 0 /\ FrameReady
    /\ LET h == Head(wire) IN
         /\ Skip(h)
         /\ \/ /\ h.kind = "data"
               /\ disk' = [disk EXCEPT ![cidx] = @ \o Payload(h)]
               /\ remaining' = IF h.len > remaining THEN 0 ELSE remaining - h.len
               /\ received' = received + h.len
               /\ UNCHANGED <<cpc, cidx>>
            \/ h.kind # "data" /\ ClientEnd("bad_stream")
            \/ h.kind = "data" /\ ClientEnd("failed")
    /\ UNCHANGED <<linkUp, daemonVars>>

(* The while loop of receive_local_batch: read_file_stream_chunk_into, the  *)
(* two checks on the chunk, write_all.  A response where a chunk is         *)
(* expected is an error of the stream, whatever it says.                    *)
RecvChunk ==
    /\ cpc = "write" /\ remaining > 0 /\ FrameReady
    /\ LET h == Head(wire) IN
         /\ Skip(h)
         /\ \/ /\ h.kind = "data" /\ h.len <= remaining
               /\ disk' = [disk EXCEPT ![cidx] = @ \o Payload(h)]
               /\ remaining' = remaining - h.len
               /\ received' = received + h.len
               /\ UNCHANGED <<cpc, cidx>>
            \/ (h.kind # "data" \/ h.len > remaining) /\ ClientEnd("bad_stream")
            \/ h.kind = "data" /\ h.len <= remaining /\ ClientEnd("failed")
    /\ UNCHANGED <<linkUp, daemonVars>>

(* The file is complete: flush and set_permissions. *)
FinishEntry ==
    /\ cpc = "write" /\ remaining = 0
    /\ \/ /\ cpc' = "entry" /\ cidx' = cidx + 1
          /\ UNCHANGED <<remaining, received, disk>>
       \/ ClientEnd("failed")
    /\ UNCHANGED <<wire, linkUp, daemonVars>>

(* expect_file_stream_eof. *)
ExpectEof ==
    /\ cpc = "entry" /\ cidx = N + 1 /\ FrameReady
    /\ Skip(Head(wire))
    /\ ClientEnd(IF Head(wire).kind = "eof" THEN "await_complete" ELSE "bad_stream")
    /\ UNCHANGED <<linkUp, daemonVars>>

(* read_response: PullBatchComplete, whose byte count must be ours. *)
RecvComplete ==
    /\ cpc = "await_complete" /\ FrameReady
    /\ Skip(Head(wire))
    /\ ClientEnd(CASE Head(wire).kind = "complete" /\ Head(wire).bytes = received -> "ok"
                   [] Head(wire).kind = "error" -> "remote_error"
                   [] OTHER -> "bad_stream")
    /\ UNCHANGED <<linkUp, daemonVars>>

Reading == \/ cpc \in {"await_metadata", "await_complete"}
           \/ cpc = "write" /\ remaining > 0
           \/ cpc = "entry" /\ cidx = N + 1

(* Mutant: a frame that cannot be read is waited for. *)
ClientReadErrorRetried ==
    /\ Reading
    /\ \/ wire # << >> /\ ~AtHeader
       \/ ~FrameReady /\ (dpc \in DaemonEnds \/ ~linkUp)
    /\ UNCHANGED vars

(* A frame that cannot be read: what comes next is no header, or the        *)
(* connection ends before the frame does.                                   *)
ClientReadError ==
    /\ Reading
    /\ \/ wire # << >> /\ ~AtHeader
       \/ ~FrameReady /\ (dpc \in DaemonEnds \/ ~linkUp)
    /\ ClientEnd("bad_stream")
    /\ UNCHANGED <<wire, linkUp, daemonVars>>
-----------------------------------------------------------------------------
(* The network drops the connection, and what is in flight from some unit on. *)
LoseLink ==
    /\ linkUp /\ linkUp' = FALSE
    /\ \E k \in 0 .. Len(wire) : wire' = SubSeq(wire, 1, k)
    /\ UNCHANGED <<daemonVars, clientVars>>

Daemon == SendMetadata \/ SkipDir \/ OpenFile \/ SendChunk \/ FinishFile \/ SendEnd \/ DaemonIoError
Client == \/ RecvMetadata \/ StartEntry \/ RecvChunk \/ FinishEntry \/ ExpectEof
          \/ RecvComplete \/ ClientReadError

Terminated == cpc \in ClientEnds /\ dpc \in DaemonEnds /\ UNCHANGED vars

Next == Client \/ Daemon \/ LoseLink \/ Terminated

(* Both processes keep running; nothing is assumed of a lost connection.    *)
Spec == Init /\ [][Next]_vars /\ WF_vars(linkUp /\ Client) /\ WF_vars(linkUp /\ Daemon)
-----------------------------------------------------------------------------
(* Type correctness of both ends and of the connection. *)
TypeOK ==
    /\ dpc \in {"manifest", "next_file", "stream"} \cup DaemonEnds
    /\ didx \in 1 .. N + 1
    /\ real \in 0 .. MaxReal /\ fileBytes \in 0 .. MaxReal /\ sent \in Nat
    /\ held \in Seq(HeaderUnit \cup ByteUnit) /\ Len(held) <= 1 + MaxChunk
    /\ wire \in Seq(HeaderUnit \cup ByteUnit) /\ linkUp \in BOOLEAN
    /\ cpc \in {"await_metadata", "entry", "write", "await_complete"} \cup ClientEnds
    /\ cidx \in 1 .. N + 1
    /\ remaining \in Nat /\ received \in Nat
    /\ disk \in [Entry -> Seq(SourceByte \cup {Junk})]

(* The client's place in the stream is its place in the manifest. *)
PositionsAgree ==
    /\ TypeOK
    /\ cpc = "write" => received + remaining = Base[cidx] + Size[cidx]
    /\ cpc \in {"entry", "await_complete", "ok"} => received = Base[cidx]

(* The framing never misleads a client: the stream becomes unreadable, or   *)
(* too long for its file, only when the daemon has failed or is streaming a *)
(* file that changed, or when the connection broke; and bytes of a response *)
(* end up in a file only when the daemon has failed.                        *)
StreamErrorsHaveACause ==
    /\ cpc = "bad_stream" => \/ dpc = "failed" \/ ~linkUp
                             \/ dpc = "stream" /\ real # Size[didx]
    /\ (\E i \in Entry : \E k \in 1 .. Len(disk[i]) : disk[i][k] = Junk) => dpc = "failed"

(* Neither side waits for ever on the other as long as the connection       *)
(* holds.                                                                   *)
BothEnd == []linkUp => <>(cpc \in ClientEnds /\ dpc \in DaemonEnds)

(* The pull keeps the promise of Delivery. *)
Promise == INSTANCE Delivery WITH
    outcome <- IF cpc = "ok" THEN "ok" ELSE IF cpc \in ClientEnds THEN "failed" ELSE "running",
    dest <- disk

(* execute_pull_with_progress with handle_pull_batch: success means that    *)
(* every local file holds exactly the bytes of its own remote file, even    *)
(* though a file may change, or the daemon fail, in the middle of it.       *)
Delivers == Promise!Spec
=============================================================================
