-------------------------------- MODULE Shell -------------------------------
(***************************************************************************)
(* One shell session.  The client (rsdb shell) forwards what its user      *)
(* types and prints what comes back; the daemon runs the command behind    *)
(* pipes when one was given, and a login shell behind a PTY otherwise.     *)
(*                                                                         *)
(* Everything is a chain of tasks and threads with bounded queues between  *)
(* them.  In the client: the thread that reads the keyboard, the main      *)
(* loop, the task that reads frames.  In the daemon: the handler's loop,   *)
(* the task that reads stdin frames and, for a PTY, a thread that writes   *)
(* to it and a thread that reads from it.  The halves of the daemon's      *)
(* connection belong to the loop and to the stdin task, so the connection  *)
(* closes when both have ended.                                            *)
(*                                                                         *)
(* Output and input are numbered chunks.                                   *)
(***************************************************************************)
EXTENDS Naturals, Sequences

CONSTANTS
    MaxOut,   \* bound: chunks the command writes to each output
    MaxIn,    \* bound: chunks the user types
    PipeCap,  \* chunks a pipe or the PTY holds, in either direction
    NetCap,   \* frames the connection holds, in either direction
    PumpCap   \* capacity of the channels between threads and tasks

ASSUME ShellAssumption ==
    /\ MaxOut \in Nat /\ MaxIn \in Nat
    /\ PipeCap \in Nat \ {0} /\ NetCap \in Nat \ {0} /\ PumpCap \in Nat \ {0}

Channel  == {"stdout", "stderr"}
Response == {"started", "exit", "error"}
Eof      == 0     \* StdinChunk::Eof, PtyInput::Close, PtyOutput::Eof, an eof frame

(* A frame to the client: a response, or chunk n of ch (Eof at its end). *)
Resp(k)      == [kind |-> k, ch |-> "none", n |-> Eof]
Chunk(ch, n) == [kind |-> "stream", ch |-> ch, n |-> n]
DownFrame    == [kind : Response \cup {"stream"}, ch : Channel \cup {"none"}, n : 0 .. MaxOut]
NoFrame      == Resp("error")
-----------------------------------------------------------------------------
VARIABLES
    mode,     \* "pipe" or "pty", which is to say not interactive or interactive
    child,    \* the command's process
    heirs,    \* it has exited and descendants hold its pipes or its terminal
    made,     \* made[ch]: chunks written to ch so far
    pipe,     \* pipe[ch]: those not read yet
    stdin,    \* input chunks the command has not read
    taken,    \* those it has read
    dpc,      \* where the handler's loop is
    open,     \* open[ch]: stdout_open, stderr_open
    waited,   \* exit_status is known
    pending,  \* the frame being written
    spc,      \* where the stdin task is
    hold,     \* the input chunk it has read
    serr,     \* it has reported an error
    pin,      \* PtyInput on its way to the PTY
    ipump,    \* the thread behind it
    pout,     \* PtyOutput on its way from the PTY
    opump,    \* the thread behind it
    up, down, \* the connection
    cpc,      \* where the client's main loop is
    typed,    \* chunks the user has typed
    kbd,      \* those the main loop has not seen, and Eof
    keys,     \* the keyboard thread: "run" or "done"
    key,      \* the chunk the main loop is forwarding
    rpc,      \* the task that reads frames
    frames,   \* responses it has passed on; "broken" for an error
    shown,    \* shown[ch]: chunks printed
    fault,    \* history: the client was killed, or something of the system failed
    aborted,  \* history: what failed was a read or a wait of the handler's loop
    late      \* history: input was on its way when the command exited, or sent later

childVars  == <<child, heirs, made, pipe>>
inputVars  == <<stdin, taken>>
loopVars   == <<dpc, open, waited, pending>>
stdinVars  == <<spc, hold, serr>>
ptyVars    == <<pin, ipump, pout, opump>>
userVars   == <<typed, kbd, keys>>
clientVars == <<cpc, key, rpc, frames, shown>>
faultVars  == <<fault, aborted>>
vars == <<mode, childVars, inputVars, loopVars, stdinVars, ptyVars, up, down,
          userVars, clientVars, faultVars, late>>

ClientClosed == cpc \in {"ok", "failed"}
DaemonClosed == dpc = "done" /\ spc \in {"off", "done"}

Init ==
    /\ mode \in {"pipe", "pty"}
    /\ child = "none" /\ heirs = FALSE
    /\ made = [ch \in Channel |-> 0] /\ pipe = [ch \in Channel |-> << >>]
    /\ stdin = << >> /\ taken = << >>
    /\ dpc = "spawn" /\ waited = FALSE /\ pending = NoFrame
    /\ open = [ch \in Channel |-> ch = "stdout" \/ mode = "pipe"]
    /\ spc = "off" /\ hold = Eof /\ serr = FALSE
    /\ pin = << >> /\ ipump = "off" /\ pout = << >> /\ opump = "off"
    /\ up = << >> /\ down = << >>
    /\ cpc = "await" /\ typed = 0 /\ kbd = << >> /\ keys = "run" /\ key = Eof
    /\ rpc = "off" /\ frames = << >> /\ shown = [ch \in Channel |-> << >>]
    /\ fault = FALSE /\ aborted = FALSE /\ late = FALSE
-----------------------------------------------------------------------------
(* The command.                                                             *)

Writable == child = "running" \/ heirs

(* Somebody in the daemon still holds the other end. *)
Attached == IF mode = "pipe" THEN dpc # "done" ELSE opump = "run"

ChildWrite(ch) ==
    /\ Writable /\ Attached
    /\ mode = "pipe" \/ ch = "stdout"
    /\ made[ch] < MaxOut /\ Len(pipe[ch]) < PipeCap
    /\ made' = [made EXCEPT ![ch] = @ + 1]
    /\ pipe' = [pipe EXCEPT ![ch] = Append(@, made[ch] + 1)]
    /\ UNCHANGED <<mode, child, heirs, inputVars, loopVars, stdinVars, ptyVars, up, down,
                   userVars, clientVars, faultVars, late>>

ChildRead ==
    /\ Writable /\ stdin # << >>
    /\ taken' = Append(taken, Head(stdin)) /\ stdin' = Tail(stdin)
    /\ UNCHANGED <<mode, childVars, loopVars, stdinVars, ptyVars, up, down,
                   userVars, clientVars, faultVars, late>>

(* Background jobs may live on.  They keep the pipes, or the terminal: the  *)
(* exit of its session leader signals the foreground jobs of a PTY and does *)
(* not hang it up.                                                          *)
ChildExit ==
    /\ child = "running"
    /\ child' = "exited" /\ heirs' \in BOOLEAN
    /\ late' = (late \/ up # << >>)
    /\ UNCHANGED <<mode, made, pipe, inputVars, loopVars, stdinVars, ptyVars, up, down,
                   userVars, clientVars, faultVars>>

HeirsExit ==
    /\ heirs /\ heirs' = FALSE
    /\ UNCHANGED <<mode, child, made, pipe, inputVars, loopVars, stdinVars, ptyVars, up, down,
                   userVars, clientVars, faultVars, late>>
-----------------------------------------------------------------------------
(* The handler's loop.                                                      *)

Send(f) == dpc' = "write" /\ pending' = f

(* spawn_pipe_shell, spawn_pty_shell.  An error closes the connection       *)
(* without a response.                                                      *)
Spawn ==
    /\ dpc = "spawn"
    /\ \/ child' = "running" /\ Send(Resp("started")) /\ UNCHANGED fault
       \/ dpc' = "done" /\ fault' = TRUE /\ UNCHANGED <<child, pending>>
    /\ UNCHANGED <<mode, heirs, made, pipe, inputVars, open, waited, stdinVars, ptyVars, up, down,
                   userVars, clientVars, aborted, late>>

(* After ShellStarted: the stdin task and the threads of the PTY start. *)
Start ==
    /\ dpc' = "select" /\ spc' = "read"
    /\ IF mode = "pty" THEN ipump' = "run" /\ opump' = "run" ELSE UNCHANGED <<ipump, opump>>

(* write_stream_frame or write_json_frame, and flush.  A frame for a client *)
(* that has gone is lost or found undeliverable.                            *)
WriteFrame ==
    /\ dpc = "write"
    /\ \/ /\ ~ClientClosed /\ Len(down) < NetCap
          /\ down' = Append(down, pending)
       \/ ClientClosed /\ UNCHANGED down
    /\ IF pending.kind = "started" THEN Start
       ELSE /\ dpc' = IF pending.kind = "stream" THEN "select" ELSE "done"
            /\ UNCHANGED <<spc, ipump, opump>>
    /\ UNCHANGED <<mode, childVars, inputVars, open, waited, pending, hold, serr, pin, pout, up,
                   userVars, clientVars, faultVars, late>>

WriteFails ==
    /\ dpc = "write" /\ ClientClosed
    /\ dpc' = "done"
    /\ UNCHANGED <<mode, childVars, inputVars, open, waited, pending, stdinVars, ptyVars, up, down,
                   userVars, clientVars, faultVars, late>>

(* select: an error of the stdin task.  Behind pipes it is answered. *)
StdinFailed ==
    /\ dpc = "select" /\ serr
    /\ serr' = FALSE
    /\ IF mode = "pipe" THEN Send(Resp("error")) ELSE dpc' = "done" /\ UNCHANGED pending
    /\ UNCHANGED <<mode, childVars, inputVars, open, waited, spc, hold, ptyVars, up, down,
                   userVars, clientVars, faultVars, late>>

(* select: a read from one of the pipes; at its end an eof frame. *)
ReadPipe(ch) ==
    /\ dpc = "select" /\ mode = "pipe" /\ open[ch]
    /\ \/ /\ pipe[ch] # << >> /\ Send(Chunk(ch, Head(pipe[ch])))
          /\ pipe' = [pipe EXCEPT ![ch] = Tail(@)] /\ UNCHANGED open
       \/ /\ pipe[ch] = << >> /\ ~Writable /\ Send(Chunk(ch, Eof))
          /\ open' = [open EXCEPT ![ch] = FALSE] /\ UNCHANGED pipe
    /\ UNCHANGED <<mode, child, heirs, made, inputVars, waited, stdinVars, ptyVars, up, down,
                   userVars, clientVars, faultVars, late>>

(* select: something from the PTY's reading thread. *)
ReadPty ==
    /\ dpc = "select" /\ mode = "pty" /\ open["stdout"] /\ pout # << >>
    /\ Send(Chunk("stdout", Head(pout))) /\ pout' = Tail(pout)
    /\ open' = [open EXCEPT !["stdout"] = Head(pout) # Eof]
    /\ UNCHANGED <<mode, childVars, inputVars, waited, stdinVars, pin, ipump, opump, up, down,
                   userVars, clientVars, faultVars, late>>

(* select: the command's exit. *)
ChildWaited ==
    /\ dpc = "select" /\ ~waited /\ child = "exited"
    /\ waited' = TRUE
    /\ UNCHANGED <<mode, childVars, inputVars, dpc, open, pending, stdinVars, ptyVars, up, down,
                   userVars, clientVars, faultVars, late>>

(* select: a read of an output, or the wait, fails.  The loop returns       *)
(* without a response.  A PTY's output is read by a thread, which then has  *)
(* ended (PtyOutput::Error).                                                *)
LoopFails ==
    /\ dpc = "select"
    /\ dpc' = "done" /\ fault' = TRUE /\ aborted' = TRUE
    /\ opump' \in (IF mode = "pty" THEN {opump, "done"} ELSE {opump})
    /\ UNCHANGED <<mode, childVars, inputVars, open, waited, pending, stdinVars, pin, ipump, pout,
                   up, down, userVars, clientVars, late>>

(* Mutant: the exit of the command ends the loop. *)
LoopDoneAtExit ==
    /\ dpc = "select" /\ waited
    /\ Send(Resp("exit"))
    /\ UNCHANGED <<mode, childVars, inputVars, open, waited, stdinVars, ptyVars, up, down,
                   userVars, clientVars, faultVars, late>>

(* Mutant: the stdin task is awaited before ShellExit is sent. *)
LoopDoneJoins ==
    /\ dpc = "select" /\ waited /\ \A ch \in Channel : ~open[ch]
    /\ spc = "done"
    /\ Send(Resp("exit"))
    /\ UNCHANGED <<mode, childVars, inputVars, open, waited, stdinVars, ptyVars, up, down,
                   userVars, clientVars, faultVars, late>>

(* All output read and the exit known: ShellExit. *)
LoopDone ==
    /\ dpc = "select" /\ waited /\ \A ch \in Channel : ~open[ch]
    /\ Send(Resp("exit"))
    /\ UNCHANGED <<mode, childVars, inputVars, open, waited, stdinVars, ptyVars, up, down,
                   userVars, clientVars, faultVars, late>>
-----------------------------------------------------------------------------
(* The stdin task, which runs on when the loop has ended.                   *)

(* read_stream_frame_into returns a frame. *)
StdinRead ==
    /\ spc = "read" /\ up # << >>
    /\ hold' = Head(up) /\ up' = Tail(up) /\ spc' = "pass"
    /\ UNCHANGED <<mode, childVars, inputVars, loopVars, serr, ptyVars, down,
                   userVars, clientVars, faultVars, late>>

(* The connection ends: taken for the end of the input, or an error when    *)
(* the client died with frames unread.  PtyInput::Close is sent either way. *)
StdinLost ==
    /\ spc = "read" /\ up = << >> /\ ClientClosed
    /\ hold' = Eof
    /\ spc' \in (IF down = << >> THEN {"pass"} ELSE {"pass", "pass_error"})
    /\ UNCHANGED <<mode, childVars, inputVars, loopVars, serr, ptyVars, up, down,
                   userVars, clientVars, faultVars, late>>

(* Mutant: the result of shutdown is an error like any other. *)
StdinShutdownFails ==
    /\ spc \in {"pass", "pass_error"} /\ mode = "pipe"
    /\ spc' = "done" /\ serr' = (spc = "pass_error" \/ child = "exited")
    /\ UNCHANGED <<mode, childVars, inputVars, loopVars, hold, ptyVars, up, down,
                   userVars, clientVars, faultVars, late>>

(* Behind pipes the client sends no input, only its end: child_stdin is     *)
(* shut down.                                                               *)
StdinShutdown ==
    /\ spc \in {"pass", "pass_error"} /\ mode = "pipe"
    /\ spc' = "done" /\ serr' = (spc = "pass_error")
    /\ UNCHANGED <<mode, childVars, inputVars, loopVars, hold, ptyVars, up, down,
                   userVars, clientVars, faultVars, late>>

(* Mutant: the end of the input is reported like a lost connection. *)
StdinPassEofFails ==
    /\ spc \in {"pass", "pass_error"} /\ mode = "pty"
    /\ serr' = (hold = Eof)
    /\ \/ /\ ipump = "run" /\ Len(pin) < PumpCap
          /\ pin' = Append(pin, hold) /\ spc' = IF hold = Eof THEN "done" ELSE "read"
       \/ ipump = "done" /\ spc' = "done" /\ UNCHANGED pin
    /\ UNCHANGED <<mode, childVars, inputVars, loopVars, hold, ipump, pout, opump, up, down,
                   userVars, clientVars, faultVars, late>>

(* pty_input_tx.send: fails when the thread behind it has ended. *)
StdinPass ==
    /\ spc \in {"pass", "pass_error"} /\ mode = "pty"
    /\ serr' = (spc = "pass_error")
    /\ \/ /\ ipump = "run" /\ Len(pin) < PumpCap
          /\ pin' = Append(pin, hold) /\ spc' = IF hold = Eof THEN "done" ELSE "read"
       \/ ipump = "done" /\ spc' = "done" /\ UNCHANGED pin
    /\ UNCHANGED <<mode, childVars, inputVars, loopVars, hold, ipump, pout, opump, up, down,
                   userVars, clientVars, faultVars, late>>

(* Mutant: a full PTY is not waited for. *)
InputPumpDrops ==
    /\ ipump = "run" /\ pin # << >>
    /\ \/ Head(pin) = Eof /\ ipump' = "done" /\ UNCHANGED stdin
       \/ /\ Head(pin) # Eof /\ Writable
          /\ stdin' = (IF Len(stdin) < PipeCap THEN Append(stdin, Head(pin)) ELSE stdin)
          /\ UNCHANGED ipump
       \/ Head(pin) # Eof /\ ~Writable /\ ipump' = "done" /\ UNCHANGED stdin
    /\ pin' = Tail(pin)
    /\ UNCHANGED <<mode, childVars, taken, loopVars, stdinVars, pout, opump, up, down,
                   userVars, clientVars, faultVars, late>>

(* start_pty_input_pump: writes what it receives to the PTY; the write      *)
(* fails when nobody holds its other side.  PtyInput::Close only ends the   *)
(* thread.                                                                  *)
InputPump ==
    /\ ipump = "run" /\ pin # << >>
    /\ \/ Head(pin) = Eof /\ ipump' = "done" /\ UNCHANGED stdin
       \/ /\ Head(pin) # Eof /\ Writable /\ Len(stdin) < PipeCap
          /\ stdin' = Append(stdin, Head(pin)) /\ UNCHANGED ipump
       \/ Head(pin) # Eof /\ ~Writable /\ ipump' = "done" /\ UNCHANGED stdin
    /\ pin' = Tail(pin)
    /\ UNCHANGED <<mode, childVars, taken, loopVars, stdinVars, pout, opump, up, down,
                   userVars, clientVars, faultVars, late>>

(* start_pty_output_pump: passes on what it reads, and Eof when all is read *)
(* and the shell and its descendants have closed the other side.            *)
OutputPump ==
    /\ opump = "run" /\ dpc # "done" /\ Len(pout) < PumpCap
    /\ \/ /\ pipe["stdout"] # << >>
          /\ pout' = Append(pout, Head(pipe["stdout"]))
          /\ pipe' = [pipe EXCEPT !["stdout"] = Tail(@)] /\ UNCHANGED opump
       \/ /\ pipe["stdout"] = << >> /\ ~Writable
          /\ pout' = Append(pout, Eof) /\ opump' = "done" /\ UNCHANGED pipe
    /\ UNCHANGED <<mode, child, heirs, made, inputVars, loopVars, stdinVars, pin, ipump, up, down,
                   userVars, clientVars, faultVars, late>>

(* Its channel is closed: it ends with the next thing it reads. *)
OutputPumpEnds ==
    /\ opump = "run" /\ dpc = "done"
    /\ pipe["stdout"] # << >> \/ ~Writable
    /\ opump' = "done"
    /\ UNCHANGED <<mode, childVars, inputVars, loopVars, stdinVars, pin, ipump, pout, up, down,
                   userVars, clientVars, faultVars, late>>
-----------------------------------------------------------------------------
(* The client.                                                              *)

(* ShellStarted arrives.  Without a PTY the end of the input is sent at     *)
(* once.                                                                    *)
Started ==
    /\ cpc = "await" /\ down # << >>
    /\ down' = Tail(down) /\ rpc' = "run"
    /\ IF mode = "pty" THEN cpc' = "run" ELSE cpc' = "forward"
    /\ UNCHANGED <<mode, childVars, inputVars, loopVars, stdinVars, ptyVars, up,
                   userVars, key, frames, shown, faultVars, late>>

NotStarted ==
    /\ cpc = "await" /\ down = << >> /\ DaemonClosed
    /\ cpc' = "failed"
    /\ UNCHANGED <<mode, childVars, inputVars, loopVars, stdinVars, ptyVars, up, down,
                   userVars, key, rpc, frames, shown, faultVars, late>>

(* start_stdin_pump: the user types, or closes the input. *)
Type ==
    /\ mode = "pty" /\ rpc # "off" /\ ~ClientClosed
    /\ keys = "run" /\ Len(kbd) < PumpCap
    /\ \/ /\ typed < MaxIn /\ typed' = typed + 1
          /\ kbd' = Append(kbd, typed + 1) /\ UNCHANGED keys
       \/ keys' = "done" /\ kbd' = Append(kbd, Eof) /\ UNCHANGED typed
    /\ UNCHANGED <<mode, childVars, inputVars, loopVars, stdinVars, ptyVars, up, down,
                   clientVars, faultVars, late>>

(* select: a chunk from the keyboard.  The write that follows is awaited    *)
(* here, and no response is looked at meanwhile.                            *)
TakeKey ==
    /\ cpc = "run" /\ kbd # << >>
    /\ key' = Head(kbd) /\ kbd' = Tail(kbd) /\ cpc' = "forward"
    /\ UNCHANGED <<mode, childVars, inputVars, loopVars, stdinVars, ptyVars, up, down,
                   typed, keys, rpc, frames, shown, faultVars, late>>

Forward ==
    /\ cpc = "forward"
    /\ ~DaemonClosed /\ Len(up) < NetCap
    /\ up' = Append(up, key) /\ cpc' = "run"
    /\ late' = (late \/ child = "exited")
    /\ UNCHANGED <<mode, childVars, inputVars, loopVars, stdinVars, ptyVars, down,
                   userVars, key, rpc, frames, shown, faultVars>>

(* The daemon has closed the connection: the write goes nowhere or fails,   *)
(* and may be answered by a reset, which takes what was on its way.         *)
ForwardLost ==
    /\ cpc = "forward" /\ DaemonClosed
    /\ cpc' \in {"run", "failed"} /\ late' = TRUE
    /\ down' \in {down, << >>}
    /\ UNCHANGED <<mode, childVars, inputVars, loopVars, stdinVars, ptyVars, up,
                   userVars, key, rpc, frames, shown, faultVars>>

(* The task that reads frames: output is printed, a response passed on. *)
ReadFrame ==
    /\ rpc = "run" /\ ~ClientClosed /\ down # << >>
    /\ LET f == Head(down) IN
         /\ shown' = IF f.kind = "stream" /\ f.n # Eof
                     THEN [shown EXCEPT ![f.ch] = Append(@, f.n)] ELSE shown
         /\ frames' = IF f.kind = "stream" THEN frames ELSE Append(frames, f.kind)
    /\ down' = Tail(down)
    /\ UNCHANGED <<mode, childVars, inputVars, loopVars, stdinVars, ptyVars, up,
                   userVars, cpc, key, rpc, faultVars, late>>

(* The connection is closed, or the client's own output is. *)
ReadFails ==
    /\ rpc = "run" /\ ~ClientClosed
    /\ \/ down = << >> /\ DaemonClosed /\ UNCHANGED fault
       \/ down # << >> /\ Head(down).kind = "stream" /\ Head(down).n # Eof /\ fault' = TRUE
    /\ rpc' = "done" /\ frames' = Append(frames, "broken")
    /\ UNCHANGED <<mode, childVars, inputVars, loopVars, stdinVars, ptyVars, up, down,
                   userVars, cpc, key, shown, aborted, late>>

(* select: a response, or the error of the reading task. *)
HandleFrame ==
    /\ cpc = "run" /\ frames # << >>
    /\ cpc' = IF Head(frames) = "exit" THEN "ok" ELSE "failed"
    /\ frames' = Tail(frames)
    /\ UNCHANGED <<mode, childVars, inputVars, loopVars, stdinVars, ptyVars, up, down,
                   userVars, key, rpc, shown, faultVars, late>>

(* The client is killed, or cannot read its keyboard. *)
ClientQuit ==
    /\ ~ClientClosed
    /\ cpc' = "failed" /\ fault' = TRUE
    /\ UNCHANGED <<mode, childVars, inputVars, loopVars, stdinVars, ptyVars, up, down,
                   userVars, key, rpc, frames, shown, aborted, late>>

(* The daemon closed its end with input unread: what was on its way to the  *)
(* client is lost.                                                          *)
Reset ==
    /\ DaemonClosed /\ up # << >> /\ down # << >>
    /\ down' = << >>
    /\ UNCHANGED <<mode, childVars, inputVars, loopVars, stdinVars, ptyVars, up,
                   userVars, clientVars, faultVars, late>>
-----------------------------------------------------------------------------
Command == ChildRead \/ ChildExit \/ HeirsExit \/ \E ch \in Channel : ChildWrite(ch)
Loop    == \/ Spawn \/ WriteFrame \/ WriteFails \/ StdinFailed \/ ReadPty \/ ChildWaited \/ LoopDone
           \/ \E ch \in Channel : ReadPipe(ch)
Stdin   == StdinRead \/ StdinLost \/ StdinShutdown \/ StdinPass
Output  == OutputPump \/ OutputPumpEnds
Main    == Started \/ NotStarted \/ TakeKey \/ Forward \/ ForwardLost \/ HandleFrame
Reader  == ReadFrame \/ ReadFails

Over == child # "running" /\ ~heirs

AllEnded ==
    /\ ClientClosed /\ DaemonClosed
    /\ ipump # "run" /\ opump # "run"

Terminated == AllEnded /\ UNCHANGED vars

Next == Command \/ Loop \/ Stdin \/ InputPump \/ Output \/ Main \/ Reader \/ Type \/ ClientQuit
        \/ LoopFails \/ Reset \/ Terminated

(* Tasks and threads keep running; nothing is asked of command and user. *)
Fairness == /\ WF_vars(Loop) /\ WF_vars(Stdin) /\ WF_vars(InputPump) /\ WF_vars(Output)
            /\ WF_vars(Main) /\ WF_vars(Reader)

Spec == Init /\ [][Next]_vars /\ Fairness
-----------------------------------------------------------------------------
(* Type correctness of the session's state. *)
TypeOK ==
    /\ mode \in {"pipe", "pty"}
    /\ child \in {"none", "running", "exited"} /\ heirs \in BOOLEAN
    /\ made \in [Channel -> 0 .. MaxOut]
    /\ pipe \in [Channel -> Seq(1 .. MaxOut)]
    /\ stdin \in Seq(1 .. MaxIn) /\ taken \in Seq(1 .. MaxIn)
    /\ dpc \in {"spawn", "write", "select", "done"}
    /\ open \in [Channel -> BOOLEAN] /\ waited \in BOOLEAN /\ pending \in DownFrame
    /\ spc \in {"off", "read", "pass", "pass_error", "done"}
    /\ hold \in 0 .. MaxIn /\ serr \in BOOLEAN
    /\ pin \in Seq(0 .. MaxIn) /\ pout \in Seq(0 .. MaxOut)
    /\ ipump \in {"off", "run", "done"} /\ opump \in {"off", "run", "done"}
    /\ up \in Seq(0 .. MaxIn) /\ down \in Seq(DownFrame)
    /\ cpc \in {"await", "run", "forward", "ok", "failed"}
    /\ typed \in 0 .. MaxIn /\ kbd \in Seq(0 .. MaxIn) /\ keys \in {"run", "done"}
    /\ key \in 0 .. MaxIn
    /\ rpc \in {"off", "run", "done"} /\ frames \in Seq(Response \cup {"broken"})
    /\ shown \in [Channel -> Seq(1 .. MaxOut)]
    /\ fault \in BOOLEAN /\ aborted \in BOOLEAN /\ late \in BOOLEAN
    /\ Len(up) <= NetCap /\ Len(down) <= NetCap
    /\ Len(pin) <= PumpCap /\ Len(pout) <= PumpCap /\ Len(kbd) <= PumpCap

Count(k) == [i \in 1 .. k |-> i]

(* run_shell_session returns the exit status only when everything that the  *)
(* command and its descendants wrote has been printed, in order.            *)
ExitMeansAllOutput ==
    cpc = "ok" => Over /\ \A ch \in Channel : shown[ch] = Count(made[ch])

(* Forwarding through two processes, a channel and a thread: the shell      *)
(* reads what the user typed in the order it was typed, nothing left out.   *)
InputInOrder == TypeOK /\ \E k \in 0 .. typed : taken \o stdin = Count(k)

(* A session whose client was not killed and could print ends with the      *)
(* status of the command.  The one exception is a terminal whose user types *)
(* while the shell exits, or later while background jobs hold it: the       *)
(* daemon closes the connection with that input unread, and the ShellExit   *)
(* on its way is lost.  A session behind pipes never fails so, although its *)
(* end of input may arrive after the exit.                                  *)
FailureHasACause == cpc = "failed" => fault \/ (mode = "pty" /\ late)

(* The handlers start their command without kill_on_drop: it is left to     *)
(* itself only when the client has gone first or a call of the loop failed, *)
(* never because the user's input ended.                                    *)
CommandLeftNeedsFault == dpc = "done" /\ child = "running" => fault

(* The client's printing has failed, and its main loop cannot find out: it  *)
(* is writing to a connection that is full.                                 *)
Deaf == rpc = "done" /\ cpc = "forward" /\ Len(up) = NetCap

(* handle_pipe_shell and handle_pty_shell: once the command and those who   *)
(* hold its output have ended, everything ends: the client, the loop, the   *)
(* stdin task and both threads, whoever was waiting for whom.  There are    *)
(* two exceptions: a client that cannot print and still forwards input, and *)
(* a PTY session whose loop failed, where the stdin task keeps the          *)
(* connection open and the client is not told.                              *)
SessionEnds == Over /\ dpc # "spawn" ~> AllEnded \/ Deaf \/ (mode = "pty" /\ aborted)
=============================================================================
