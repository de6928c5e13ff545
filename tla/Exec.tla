-------------------------------- MODULE Exec --------------------------------
(***************************************************************************)
(* One exec request: the command on the device, the daemon's handler and   *)
(* the client.  With stream the handler selects over the command's stdout, *)
(* its stderr and its exit, and sends a frame for everything it reads;     *)
(* without, it collects everything and answers once.  A timeout drops the  *)
(* whole of this, in the middle of a frame if need be, kills the command   *)
(* and answers on the same connection.                                     *)
(*                                                                         *)
(* The connection is a sequence of units of bounded length: a header is    *)
(* one unit, a payload byte is one unit.  Descendants of the command may   *)
(* keep its pipes open after it has exited.                                *)
(***************************************************************************)
EXTENDS Naturals, Sequences

CONSTANTS
    MaxOut,     \* bound: bytes the command writes to each of its pipes
    PipeCap,    \* capacity of a pipe
    MaxChunk,   \* DEFAULT_STREAM_CHUNK_SIZE
    SocketCap,  \* units the connection holds
    JsonLen,    \* length of a response without output
    MaxPayload  \* MAX_PAYLOAD_LEN

ASSUME ExecAssumption ==
    /\ MaxOut \in Nat /\ PipeCap \in Nat \ {0} /\ MaxChunk \in Nat \ {0}
    /\ SocketCap \in Nat \ {0} /\ JsonLen \in Nat \ {0}
    /\ MaxPayload \in Nat /\ MaxPayload >= JsonLen /\ MaxPayload >= MaxChunk

Channel  == {"stdout", "stderr"}
Response == {"result", "timeout", "failed"}

(* <<s, k>>: the k-th byte the command wrote to s, or of a response s. *)
Byte     == (Channel \cup Response) \X (Nat \ {0})
Output   == [Channel -> Seq(Byte)]
NoOutput == [ch \in Channel |-> << >>]

(* A "cut" unit is a part of a header. *)
Unit == [unit : {"header"}, kind : Channel \cup Response, len : 0 .. MaxPayload, out : Output]
        \cup [unit : {"byte"}, byte : Byte] \cup [unit : {"cut"}]

Frame(kind, bytes, out) ==
    <<[unit |-> "header", kind |-> kind, len |-> Len(bytes), out |-> out]>>
        \o [k \in 1 .. Len(bytes) |-> [unit |-> "byte", byte |-> bytes[k]]]

(* write_json_frame; out is the output that the JSON text contains. *)
JsonSize(out) == JsonLen + Len(out["stdout"]) + Len(out["stderr"])
Json(kind, out) == Frame(kind, [k \in 1 .. JsonSize(out) |-> <<kind, k>>], out)
-----------------------------------------------------------------------------
VARIABLES
    mode,      \* "stream" or "collect"
    child,     \* the command's process
    heirs,     \* descendants of it hold the pipes
    produced,  \* produced[ch]: bytes written to ch so far
    pipe,      \* pipe[ch]: bytes written and not read
    dpc,       \* where the handler is
    open,      \* open[ch]: stdout_open, stderr_open
    waited,    \* exit_status is known
    output,    \* output[ch]: what has been collected
    pending,   \* what is left of the frame being written
    fired,     \* history: the timeout fired
    cut,       \* history: ... in the middle of a frame
    wire,      \* units on their way to the client
    rx,        \* units of the frame the client is reading
    cpc,       \* where the client is
    emitted    \* emitted[ch]: what the client has shown of ch

childVars  == <<child, heirs, produced, pipe>>
daemonVars == <<mode, dpc, open, waited, output, pending, fired, cut>>
clientVars == <<rx, cpc, emitted>>
vars == <<childVars, daemonVars, wire, clientVars>>

DaemonEnds == {"done", "gone"}
ClientEnds == {"completed", "timeout", "failed", "bad_frame", "disconnected", "quit"}

Init ==
    /\ mode \in {"stream", "collect"}
    /\ child = "none" /\ heirs = FALSE
    /\ produced = [ch \in Channel |-> 0] /\ pipe = NoOutput
    /\ dpc = "spawn" /\ open = [ch \in Channel |-> TRUE] /\ waited = FALSE
    /\ output = NoOutput /\ pending = << >> /\ fired = FALSE /\ cut = FALSE
    /\ wire = << >> /\ rx = << >> /\ cpc = "read" /\ emitted = NoOutput
-----------------------------------------------------------------------------
(* The command.                                                             *)

Attached == dpc \in {"select", "write", "result"}

(* Somebody can still write to the pipes. *)
Writable == child = "running" \/ heirs

ChildWrite(ch) ==
    /\ Attached /\ Writable
    /\ produced[ch] < MaxOut /\ Len(pipe[ch]) < PipeCap
    /\ produced' = [produced EXCEPT ![ch] = @ + 1]
    /\ pipe' = [pipe EXCEPT ![ch] = Append(@, <<ch, produced[ch] + 1>>)]
    /\ UNCHANGED <<child, heirs, daemonVars, wire, clientVars>>

ChildExit ==
    /\ child = "running"
    /\ child' = "exited" /\ heirs' \in BOOLEAN
    /\ UNCHANGED <<produced, pipe, daemonVars, wire, clientVars>>

HeirsExit ==
    /\ heirs /\ heirs' = FALSE
    /\ UNCHANGED <<child, produced, pipe, daemonVars, wire, clientVars>>
-----------------------------------------------------------------------------
(* The handler.                                                             *)

(* kill_on_drop. *)
Kill == child' = (IF child = "running" THEN "killed" ELSE child)

(* A response outside the timeout. *)
Answer(frame) == dpc' = "answer" /\ pending' = frame

Spawn ==
    /\ dpc = "spawn"
    /\ \/ dpc' = "select" /\ child' = "running" /\ UNCHANGED pending
       \/ Answer(Json("failed", NoOutput)) /\ UNCHANGED child
    /\ UNCHANGED <<heirs, produced, pipe, mode, open, waited, output, fired, cut, wire, clientVars>>

(* A frame for what was read, or the read is collected. *)
Pass(ch, bytes) ==
    IF mode = "stream"
    THEN dpc' = "write" /\ pending' = Frame(ch, bytes, NoOutput) /\ UNCHANGED output
    ELSE output' = [output EXCEPT ![ch] = @ \o bytes] /\ UNCHANGED <<dpc, pending>>

Least(m, n) == IF m < n THEN m ELSE n

(* Mutant: everything is sent as stdout. *)
ReadChunkAsStdout(ch) ==
    /\ dpc = "select" /\ open[ch] /\ pipe[ch] # << >>
    /\ LET n == Least(MaxChunk, Len(pipe[ch])) IN
         /\ Pass("stdout", SubSeq(pipe[ch], 1, n))
         /\ pipe' = [pipe EXCEPT ![ch] = SubSeq(@, n + 1, Len(@))]
    /\ UNCHANGED <<child, heirs, produced, mode, open, waited, fired, cut, wire, clientVars>>

(* A branch of the select: a read returns what is there. *)
ReadChunk(ch) ==
    /\ dpc = "select" /\ open[ch] /\ pipe[ch] # << >>
    /\ LET n == Least(MaxChunk, Len(pipe[ch])) IN
         /\ Pass(ch, SubSeq(pipe[ch], 1, n))
         /\ pipe' = [pipe EXCEPT ![ch] = SubSeq(@, n + 1, Len(@))]
    /\ UNCHANGED <<child, heirs, produced, mode, open, waited, fired, cut, wire, clientVars>>

(* The read returns 0: an EOF frame, which carries no bytes. *)
ReadEof(ch) ==
    /\ dpc = "select" /\ open[ch] /\ pipe[ch] = << >> /\ ~Writable
    /\ open' = [open EXCEPT ![ch] = FALSE]
    /\ Pass(ch, << >>)
    /\ UNCHANGED <<childVars, mode, waited, fired, cut, wire, clientVars>>

(* The wait returns. *)
ChildWaited ==
    /\ dpc = "select" /\ ~waited /\ child # "running"
    /\ waited' = TRUE
    /\ UNCHANGED <<childVars, mode, dpc, open, output, pending, fired, cut, wire, clientVars>>

(* A read or the wait fails: the command is dropped. *)
ReadFails ==
    /\ dpc = "select" /\ (waited => \E ch \in Channel : open[ch])
    /\ Kill /\ Answer(Json("failed", NoOutput))
    /\ UNCHANGED <<heirs, produced, pipe, mode, open, waited, output, fired, cut, wire, clientVars>>

(* The result: as a last frame under the timeout, or as the whole answer,   *)
(* which is not sent at all when it is too long for a frame.                *)
Result ==
    \/ mode = "stream" /\ dpc' = "result" /\ pending' = Json("result", NoOutput)
    \/ mode = "collect" /\ JsonSize(output) <= MaxPayload /\ Answer(Json("result", output))
    \/ mode = "collect" /\ JsonSize(output) > MaxPayload /\ dpc' = "gone" /\ UNCHANGED pending

(* Mutant: the exit of the command ends the loop. *)
LoopDoneAtExit ==
    /\ dpc = "select" /\ waited
    /\ Result
    /\ UNCHANGED <<childVars, mode, open, waited, output, fired, cut, wire, clientVars>>

(* Both pipes at their end and the command waited for. *)
LoopDone ==
    /\ dpc = "select" /\ waited /\ \A ch \in Channel : ~open[ch]
    /\ Result
    /\ UNCHANGED <<childVars, mode, open, waited, output, fired, cut, wire, clientVars>>

(* write_all and flush, as far as the connection takes it. *)
WriteUnit ==
    /\ pending # << >> /\ Len(wire) < SocketCap /\ cpc \notin ClientEnds
    /\ wire' = Append(wire, Head(pending)) /\ pending' = Tail(pending)
    /\ UNCHANGED <<childVars, mode, dpc, open, waited, output, fired, cut, clientVars>>

FrameWritten ==
    /\ pending = << >>
    /\ \/ dpc = "write" /\ dpc' = "select"
       \/ dpc \in {"result", "answer"} /\ dpc' = "done"
    /\ UNCHANGED <<childVars, mode, open, waited, output, pending, fired, cut, wire, clientVars>>

(* The client is gone; so the write of the error that follows fails too. *)
WriteFails ==
    /\ pending # << >> /\ cpc \in ClientEnds
    /\ Kill /\ dpc' = "gone" /\ pending' = << >>
    /\ UNCHANGED <<heirs, produced, pipe, mode, open, waited, output, fired, cut, wire, clientVars>>

Whole(frame) == frame = << >> \/ (frame[1].unit = "header" /\ Len(frame) = frame[1].len + 1)

(* What dropping the frame in flight has left on the connection: what was   *)
(* written of it, or, if its header did not quite fit, a part of that.      *)
DropPending ==
    \/ UNCHANGED wire /\ cut' = ~Whole(pending)
    \/ /\ pending # << >> /\ Whole(pending)
       /\ wire' = Append(wire, [unit |-> "cut"]) /\ cut' = TRUE

(* The handler waits: in the select, or for room on the connection. *)
TimedOut == \/ dpc = "select"
            \/ dpc \in {"write", "result"} /\ pending # << >> /\ Len(wire) >= SocketCap

(* Mutant: the timeout only covers the command, not its pipes ... *)
TimeoutOfWait ==
    /\ TimedOut /\ ~waited
    /\ fired' = TRUE
    /\ DropPending /\ Kill /\ Answer(Json("timeout", NoOutput))
    /\ UNCHANGED <<heirs, produced, pipe, mode, open, waited, output, clientVars>>

(* ... or leaves the command running ... *)
TimeoutNoKill ==
    /\ TimedOut
    /\ fired' = TRUE
    /\ DropPending /\ Answer(Json("timeout", NoOutput))
    /\ UNCHANGED <<childVars, mode, open, waited, output, clientVars>>

(* ... or is not reported. *)
TimeoutSilent ==
    /\ TimedOut
    /\ fired' = TRUE
    /\ DropPending /\ Kill /\ Answer(<< >>)
    /\ UNCHANGED <<heirs, produced, pipe, mode, open, waited, output, clientVars>>

(* exec_timeout elapses: the future is dropped with its BufWriter and with  *)
(* the command, and the answer goes to the connection itself.               *)
Timeout ==
    /\ TimedOut
    /\ fired' = TRUE
    /\ DropPending /\ Kill /\ Answer(Json("timeout", NoOutput))
    /\ UNCHANGED <<heirs, produced, pipe, mode, open, waited, output, clientVars>>
-----------------------------------------------------------------------------
(* The client.                                                              *)

FrameRead == rx # << >> /\ rx[1].unit = "header" /\ Len(rx) = rx[1].len + 1

(* read_frame_into: a header and its payload, whatever units come. *)
RecvUnit ==
    /\ cpc = "read" /\ wire # << >> /\ ~FrameRead
    /\ rx' = Append(rx, Head(wire)) /\ wire' = Tail(wire)
    /\ UNCHANGED <<childVars, daemonVars, cpc, emitted>>

(* A stream frame: its bytes are shown, whatever they are. *)
HandleStream ==
    /\ cpc = "read" /\ FrameRead /\ rx[1].kind \in Channel
    /\ LET bytes == [k \in 1 .. rx[1].len |->
                        IF rx[k + 1].unit = "byte" THEN rx[k + 1].byte ELSE <<"failed", 1>>]
       IN  emitted' = [emitted EXCEPT ![rx[1].kind] = @ \o bytes]
    /\ rx' = << >>
    /\ UNCHANGED <<childVars, daemonVars, wire, cpc>>

(* A response frame: an ExecResult with its output or an error, if its      *)
(* payload is the JSON text it was.                                         *)
HandleResponse ==
    /\ cpc = "read" /\ FrameRead /\ rx[1].kind \in Response
    /\ IF \A k \in 2 .. Len(rx) : rx[k].unit = "byte" /\ rx[k].byte[1] = rx[1].kind
       THEN /\ cpc' = IF rx[1].kind = "result" THEN "completed" ELSE rx[1].kind
            /\ emitted' = [ch \in Channel |-> emitted[ch] \o rx[1].out[ch]]
       ELSE cpc' = "bad_frame" /\ UNCHANGED emitted
    /\ rx' = << >>
    /\ UNCHANGED <<childVars, daemonVars, wire>>

(* A frame that does not begin with a header, or that the end of the        *)
(* connection cuts short.                                                   *)
ReadFailsAtClient ==
    /\ cpc = "read"
    /\ \/ rx # << >> /\ rx[1].unit # "header" /\ cpc' = "bad_frame"
       \/ dpc \in DaemonEnds /\ wire = << >> /\ ~FrameRead /\ cpc' = "disconnected"
    /\ UNCHANGED <<childVars, daemonVars, wire, rx, emitted>>

(* The client is interrupted. *)
ClientQuit ==
    /\ cpc = "read" /\ cpc' = "quit"
    /\ UNCHANGED <<childVars, daemonVars, wire, rx, emitted>>

Command == ChildExit \/ HeirsExit \/ \E ch \in Channel : ChildWrite(ch)
Daemon == \/ Spawn \/ ChildWaited \/ LoopDone
          \/ WriteUnit \/ FrameWritten \/ WriteFails
          \/ \E ch \in Channel : ReadChunk(ch) \/ ReadEof(ch)
Client == RecvUnit \/ HandleStream \/ HandleResponse \/ ReadFailsAtClient

Terminated == cpc \in ClientEnds /\ dpc \in DaemonEnds /\ UNCHANGED vars

Next == Command \/ Daemon \/ ReadFails \/ Timeout \/ Client \/ ClientQuit \/ Terminated

(* Daemon and client keep running and the timer goes off.  Nothing is       *)
(* assumed of the command and its descendants.                              *)
Spec == Init /\ [][Next]_vars /\ WF_vars(Daemon) /\ WF_vars(Timeout) /\ WF_vars(Client)
-----------------------------------------------------------------------------
(* Type correctness. *)
TypeOK ==
    /\ mode \in {"stream", "collect"}
    /\ child \in {"none", "running", "exited", "killed"} /\ heirs \in BOOLEAN
    /\ produced \in [Channel -> 0 .. MaxOut]
    /\ pipe \in Output /\ output \in Output /\ emitted \in Output
    /\ dpc \in {"spawn", "select", "write", "result", "answer"} \cup DaemonEnds
    /\ open \in [Channel -> BOOLEAN] /\ waited \in BOOLEAN
    /\ fired \in BOOLEAN /\ cut \in BOOLEAN
    /\ pending \in Seq(Unit) /\ wire \in Seq(Unit) /\ rx \in Seq(Unit)
    /\ Len(pending) <= 1 + MaxPayload /\ Len(wire) <= SocketCap + 1
    /\ dpc = "write" => Len(pending) <= 1 + MaxChunk
    /\ cpc \in {"read"} \cup ClientEnds

(* stream_command_output with run_agent_exec_stream: what is shown of each  *)
(* pipe is what the command wrote there, in its order and without gaps,     *)
(* unless the timeout dropped a frame half-way.                             *)
OutputInOrder ==
    /\ TypeOK
    /\ ~cut => \A ch \in Channel : \A k \in DOMAIN emitted[ch] : emitted[ch][k] = <<ch, k>>

(* A completed exec has shown everything that was ever written to the       *)
(* pipes, descendants included, and did not time out.                       *)
CompletedIsAll ==
    cpc = "completed" =>
        /\ ~fired /\ ~Writable
        /\ \A ch \in Channel : emitted[ch] = [k \in 1 .. produced[ch] |-> <<ch, k>>]

(* A timeout between two frames reaches the client as such. *)
TimeoutIsReported == fired /\ ~cut /\ cpc \in ClientEnds => cpc \in {"timeout", "quit"}

(* kill_on_drop: whatever way a request ends, its command does not go on. *)
NoCommandLeft == dpc \in DaemonEnds \cup {"answer"} => child # "running"

(* Every exec ends on both sides, also when the command, or a descendant    *)
(* that holds its pipes, never does.                                        *)
BothEnd == <>(cpc \in ClientEnds /\ dpc \in DaemonEnds)

(* What the regression script expects of exec with --timeout-secs: a        *)
(* timeout is reported as exec.timeout, in whatever state it was met.       *)
TimeoutAlwaysReported == fired /\ cpc \in ClientEnds => cpc \in {"timeout", "quit"}
=============================================================================
