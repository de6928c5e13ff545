# rsdb: TLA+ models, checks and proofs

rsdb is a host-side command line (`crates/rsdb-cli`), a daemon on the device
(`device/rsdbd`) and the protocol crate both share (`crates/rsdb-proto`). This
directory holds TLA+ modules that model the parts of it that keep state or run
concurrently, the TLC configurations that check them on small instances, and
proofs, checked by TLAPS, of the properties that matter most. `PROJECT.json`
maps every definition to the lines it models and lists the runs, the mutants,
the hazards and the findings.

To check everything: `tlc -config <cfg> <module>` for each run of
`PROJECT.json`, and `tlapm <module>` for each of the eight `*Proofs` modules.

## 1. Inventory

| Component | State it keeps | Operations | What makes it hard | What makes it correct |
|---|---|---|---|---|
| fs handlers (`rsdbd`, `handle_fs_*`) | the device's filesystem; per connection: the file it has open, its temporary name, what it has checked | `fs.stat`, `fs.list`, `fs.read`, `fs.write` (direct, atomic, guarded), `fs.mkdir`, `fs.rm`, `fs.move` | every connection is a task of its own and nothing locks a path: checks and commits of two handlers interleave; a write can fail or the process die between any two calls | an atomic write is all or nothing and commits its own content; a guard excludes what it says; no temporary file stays |
| batch push (`execute_push_manifest`, `handle_push_batch`) | manifest, position in it on both sides, frames in flight, the sender's `BufWriter` | request, ready, file frames, EOF, complete | the frames carry no file name: both sides cut the stream by sizes announced earlier, while local files change and either side fails | completion means that every file arrived whole, in its own place; both sides end |
| batch pull (`handle_pull_batch`, `receive_local_batch`) | the same with the roles exchanged | request, metadata, file frames, EOF, complete | the daemon sends an error response on a stream that may be in the middle of a frame | the client never takes a broken stream for a good one; success means delivery |
| agent `transfer.push` | position in the list of roots, staged copies on the device | push to a staged path, `fs.move`, cleanup, comparison, verification | several requests on several connections; handlers of lost connections run on; the destination is removed before the rename | the destination is never a half-written version; success means delivery; nothing is lost or left behind unless a call fails or an interruption comes |
| agent `transfer.pull`, verification | local files, the manifest, remote hashes | resolve sources, pull, stat, compare | the remote file changes between the manifest, the stream and the comparison; the local destination changes through the pull itself | verified means equal; a mismatch has a cause |
| `exec` | the child, its two pipes, the timeout | run, stream output, time out | three sources in one `select!`, a timeout that drops a half-written frame | all output before the result, exactly one outcome |
| shell sessions | PTY or pipes, two threads, two tasks, the exit status; in the client a thread, the main loop and a reading task | stdin, output, end of input, exit | a chain of bounded queues in both directions that runs concurrently with the end of the shell; the halves of the connection have two owners | all output before the exit status; input in order; everything ends with the command |
| target registry (`targets.json`) | saved targets and the current one | connect, disconnect, devices, resolve | several CLI processes load, change and rewrite one file without a lock | a command alone has its effect, the file stays readable, the current target is the one last chosen |
| discovery | UDP sockets, the channel to the collector, targets seen | probe, reply, collect | loss, duplication, delay, reordering, ports used again, restarts, deadlines | each name and address is reported once, none that did not answer, none that did is lost |
| single-file push/pull | one file | push, pull | as the batch transfers | as the batch transfers |
| `edit` | a local copy of a remote file, the hash it had | stat, read or pull, editor, compare, write or push | the remote file changes while the editor runs, or while it is read or saved; the connection is lost during the save | an edit never overwrites a newer version unseen, and its text is never lost |
| frame codec | none | encode, decode | lengths and kinds | a frame is read as it was written |

Components interact through one TCP connection per request (control frames and,
for transfers, exec and shells, stream frames), through the device's filesystem
(all handlers, and the commands of the host through them), through UDP packets
(discovery), and through the registry file (all CLI processes).

## 2. Modules

| Module | Models | State ↔ code |
|---|---|---|
| `DeviceFs` | the filesystem as the handlers use it (external) | `tree`: path to node, `data`: file to content; removal, rename and lookup as functions on trees |
| `AgentFs` | `handle_fs_stat/read/write/mkdir/rm/move`, `write_direct_file`, `write_atomic_file`, `atomic_temp_path` | one actor per connection; `pc` is the place in the handler between two filesystem calls, `seen` what its `symlink_metadata` returned, `nonce` its clock reading, `fd` its open file |
| `Manifest` | `TransferEntry`, the list both ends agree on | constants `N`, `Kind`, `Size`, `Base` |
| `Delivery` | what a batch transfer promises, abstractly | `outcome`, `dest` |
| `PushBatch` | `execute_push_manifest`, `stream_local_batch_files`, `handle_push_batch` | `fileBytes`, `sent`, `remaining`, `written` are the code's counters; `up`/`flushed`/`fill` the connection and the `BufWriter`; `disk` the files on the device |
| `PullBatch` | `handle_pull_batch`, `stream_batch_files`, `receive_local_batch`, `execute_pull_with_progress` | the same, with `held` for the daemon's `BufWriter` and a connection of header and byte units |
| `AgentPush` | `run_agent_transfer_push`, `cleanup_remote_path`, and the handlers it calls | `pc`/`ridx` of each client, `hs` of each handler it started (a handler may outlive its connection), `final` and `staged` paths |
| `Registry` | `load_registry`, `save_registry`, `normalize_registry`, `connect/disconnect/devices_command`, `resolve_target` | `file` is `targets.json`, `reg` each process's copy |
| `Exec` | `handle_exec_request`, `execute_command`, `stream_command_output`, `run_agent_exec`, `run_agent_exec_stream` | the command (`child`, `heirs`, `pipe`), the `select!` loop (`open`, `waited`), the frame being written (`pending`), the client (`rx`, `emitted`) |
| `Shell` | `run_shell_session` and its stdin pump, `handle_pipe_shell`, `handle_pty_shell`, the PTY pumps | `dpc`/`open`/`waited`/`pending`: the handler's loop; `spc`/`hold`: the stdin task; `pin`, `pout`: the channels of the PTY threads; `cpc`, `kbd`, `frames`: the client; `up`, `down`: the connection |
| `Discovery` | `discover_targets_at_with_callback`, `discover_targets_once`, `discover_target_at`, `handle_discovery` | `tpc`/`port`/`seen` of each task, `chan`, the collector's `found` and `printed`; `net` is every packet sent that may still arrive |
| `RemoteFile` | one file on the device (external) | `link`: the inode at the path, `ino`: its content in two parts |
| `AgentPull` | `run_agent_transfer_pull`, `resolve_local_batch_roots`, `transfer_states_match`, and the handlers it calls | `base`/`vbase`: the root's local path as the pull and as the verification resolve it; `local`: the local files |
| `Edit` | `edit_command`, `remote_fs_stat/read/write`, and the handlers it calls | `hashed`: what the remembered hash stands for; `tmp`: the local copy |
| `Clients` | composition of `AgentPull` and `Edit` on one `RemoteFile` with a third party | |
| `AgentFsProofs`, `PushBatchProofs`, `PullBatchProofs`, `AgentPushProofs`, `ExecProofs`, `ShellProofs`, `ClientsProofs`, `TargetsProofs` | inductive invariants of, and theorems about, the module each is named after; `TargetsProofs` is about `Discovery` and `Registry`, the two ways to a target (section 5) | |
| `MC*` | instances for TLC | |

`PushBatch` and `PullBatch` compose client, connection and daemon and are both
shown to implement `Delivery` (`Delivers`, an `INSTANCE` with `outcome` and
`dest` mapped). `AgentPush` composes the client's sequence with handlers that
are coarser versions of the ones in `AgentFs` and `PushBatch`: a push writes a
part and then the whole of a root, or fails; `remove_dir_all` has a beginning, from
which on what is left of the directory (`Rest`) can be seen, and an end, which may
find it changed by others or fail. `Clients` composes the two commands
that read a remote file and compare it later: the edit's save disturbs the pull,
and a third party, which writes in place or removes the file, disturbs both.

What is kept and what is abstracted:

- Every handler is split at the calls between which another actor can act (a
  filesystem call, an await). Error returns are alternatives of the action that
  contains the failing call.
- A file's content is a value; `Empty` and `Torn` stand for the states in
  between. A file of a transfer is a sequence of bytes that remember which
  source file and position they come from, so that a byte in the wrong file is
  visible.
- Names of temporary files are the target's name with a clock reading, which
  `OpenTemp` picks freely: nothing in `atomic_temp_path` makes it unique. What needs
  it has `NoncesDistinct` (no two atomic writes took the same reading) as a premise.
  Without it `create_new` still keeps the second writer out of the first one's file,
  but its cleanup (line 1469 of the daemon) removes that file, so the first write
  fails, and a third writer of the same nanosecond could take the name. That a
  temporary file does not outlive its writer (`TempsHaveAWriter`) holds either way.
- `remove_dir_all` is one step in `AgentFs` and two in `AgentPush`. Since Rust 1.85
  (the crates are of edition 2024) an entry that somebody else has removed meanwhile
  is no error for it. What a removal leaves is one value, `Rest`, however much it is.
- Descendants of a command may keep its pipes, and behind a PTY its terminal: the
  exit of a session leader signals the foreground group and closes nothing, so the
  output thread reads on until the last holder has gone.
- A reader takes two reads; with `max_bytes` it may end with the first. `fs.read` may
  find bytes that are no UTF-8, `fs.stat` hashes when asked to.
- Frames are abstracted to kind, length and payload units; JSON texts to a
  length.
- In `Shell`, input and output are numbered chunks, so that one that is dropped or
  overtaken is visible; every pipe, channel and direction of the connection is a
  bounded queue.
- A UDP packet that was sent stays in `net`: it may arrive later, more than once
  or never. The nonce is the number of the discovery: nonces of different
  discoveries differ, those of one discovery's tasks may not.
- In `RemoteFile` a content is a head, a tail and a size; an atomic write changes
  the inode at the path, a push changes the inode part by part. When the client of
  an `edit` loses its connection, `fs.write`'s handler does not notice, and a push
  handler goes on with what was already on its way.
- `targets.json` is abstracted to the registry it parses to, or to unreadable.

History variables (marked `history` where they are declared, such as `overlap`,
`replaced`, `base` of `Registry`, `fired`, `cut`, `fault`, `late`, `touched`,
`raced`, `ioFailed`, and the `bytes` of a stream frame's header in `PullBatch`, the number of
bytes streamed before it) record what properties and proofs talk about and never
guard an action.

## 3. Runs

| Run | Instance | States | Shows |
|---|---|---|---|
| `fs_all` | 2 connections, 22 requests, 6 initial trees, 1 crash | 311,471 | `NoTornTarget`, `ReadersSeeOneVersion`, `AtomicCommitIsOwn`, `GuardsHoldWithoutOverlap`, `TempsHaveAWriter`, and the inductive invariant `IInv` |
| `push_batch` | 4 entries (a file, a directory, an empty file, a file), files of any length up to 4, chunks of up to 2 | 9,871 | `PositionsAgree`, `BothEnd`, `Delivers` |
| `pull_batch` | the same manifest, an error response as long as a chunk | 24,265 | `StreamErrorsHaveACause`, `PositionsAgree`, `BothEnd`, `Delivers` |
| `agent_push` | 2 clients, `--atomic` with `--if-changed`, or `--atomic --verify sha256` with a direct push; a file and a directory, calls that fail, 1 lost connection, 1 crash | 176,253 | `DestinationIsWhole`, `SuccessIsDelivered`, `LossNeedsInterruption`, `EveryPushEnds` |
| `registry` | 2 processes, 6 commands, 9 initial files (among them duplicates, a current target that is not listed, a torn file and a target named like another's address), 1 kill | 128,974 | `CommandsTakeEffect`, `RewriteKeepsPrimary`, `SavedIsNormal`, `UnreadableHasACause` |
| `exec` | 3 bytes per pipe, chunks of 2, a connection of 2 units | 375,674 | `CompletedIsAll`, `OutputInOrder`, `TimeoutIsReported`, `NoCommandLeft`, `BothEnd` |
| `shell` | 2 chunks of each output, 3 of input, every queue of length 1 | 850,960 | `ExitMeansAllOutput`, `InputInOrder`, `FailureHasACause`, `CommandLeftNeedsFault`, `SessionEnds` |
| `discovery` | 2 discoveries, 2 destinations that lead to one daemon, 2 ports, 1 restart, 1 stale packet | 231,524 | `NoGhosts`, `NothingLost`, `PrintedOnce`, `DiscoverEnds` |
| `clients` | 10 pull requests, an edit, 2 steps of the third party, sizes 0 to 2 with 1 as the limit for an inline edit | 2,975,732 | `PullIsExact`, `MismatchHasACause`, `AtomicSaveNeverTears`, `EditIsKept`, `UpdateLostNeedsRace` |

Type correctness is a conjunct of one invariant of every module.

What the less obvious properties say:

- `PullIsExact`: a pull that succeeds is exact if nobody changed the file
  meanwhile, and with `--verify sha256` even if somebody did, although size and
  hash are two looks at the path and the hash is computed in parts.
- `UpdateLostNeedsRace`: an edit replaces something its user never saw only if the
  file changed after the last comparison, or between the hash that is remembered
  and the read of what is edited. `AtomicSaveNeverTears`: the save of a
  small edit never leaves a concurrent pull with a mixture; the save of a large
  one, which is pushed in place, can.
- `FailureHasACause` (`Shell`): a session fails only through a fault, or, behind a
  PTY, when input was on its way while the shell exited, or was typed while background
  jobs kept the session open after that: the daemon then closes the connection with
  input unread, and the kernel's reset discards `ShellExit`.
- `CommandLeftNeedsFault`: shells are started without `kill_on_drop`, so the command
  survives when the client is gone or the loop fails, and only then.
- `SessionEnds`: once the command and its descendants are over, all tasks, both
  threads and the client end, except for a client that can no longer print while
  its loop waits to write, and for a PTY session whose loop failed, where the
  detached stdin task keeps the connection open and no response is sent.
- `GuardsHoldWithoutOverlap`: a precondition of `fs.write` or `fs.move` holds at the
  commit unless another connection changed the target after the check. That two
  guarded requests can both succeed is a behaviour of the model.
- `CommandsTakeEffect` (`Registry`): a command that met no other has exactly its
  effect: `connect` saves its target and makes it current, `disconnect` removes the
  selected target, `devices` gives the current one the name it answered with, and
  the other targets keep their names. The proof brought out one detail of
  `disconnect`: the current target is compared with the address and with the *name*
  of what was removed, hence removing a target whose name is the address of the
  current one moves the current target to the most recent of the rest. The property
  states it, and the instance has such a name.
- `DestinationIsWhole`: with staged pushes a destination never holds a half-written
  version. A remainder of the old directory can be seen while `fs.move` removes it,
  and stays only after a failed removal, a lost connection or a crash. After a lost
  connection such a remainder may also be a new version's: the `fs.move` that runs on
  can rename a staged directory that the client's cleanup is removing.
- `LossNeedsInterruption`: `fs.move --overwrite` removes the destination before it
  renames, and the client ignores how its cleanup ended. Without a lost connection or
  a crash, a destination is missing at the end only if a `rename` failed on its own,
  half removed only if a `remove_dir_all` failed, and a staged copy remains only if its
  `fs.rm` failed. `ioFailed` records those three failures and no others: a failed
  push, a failed stat or a race of two commands loses nothing.
- `ReadersSeeOneVersion`: as long as every write is atomic, `fs.read` and the hash of
  `fs.stat` have seen one version.
- `ExitMeansAllOutput` (`Shell`): the status follows everything the command *and its
  descendants* wrote, background jobs that hold the terminal included; the session
  stays open as long as they do.
- `PrintedOnce`: each name and address is printed once; a daemon that answers from
  two addresses is printed once for each.

Why the bounds are enough: a race of the fs handlers or of the registry needs two
actors (the proofs cover any number; a third writer of one temporary name is
outside the premise `NoncesDistinct`). The manifest has what the cutting of the stream can
get wrong: a boundary between files, an entry without bytes, a file that grew
over its boundary (`MaxReal` is larger than every announced size) and frames
shorter than a file. In `exec` the output is longer than a chunk and every frame
longer than what is left of the connection, so the timeout meets every part of a
frame. In `shell` every queue holds one chunk and three are typed, so that each
queue on the way is full while the next chunk waits behind it. In `discovery` one
daemon answers from two addresses, and one packet of the earlier discovery is
enough to reach a port that is used again. In `clients` the third party can
change the head and the tail between two looks, and the sizes put an edit on
either side of the inline limit and across it.

Three runs expect a violation. They are real disagreements between the code and
what a test or the interface says, each quoted in `PROJECT.json`:

- `fs_self_move`: `fs.move --overwrite` of a path to itself removes it and fails.
- `exec_timeout`: a timeout while a frame waits for room on the connection
  leaves a part of the frame before the answer. What does hold is
  `TimeoutIsReported` (between frames) and `CompletedIsAll` (never taken for
  success).
- `agent_pull_verify`: a directory is pulled to a path where nothing was, and the
  verification resolves the destination again. It is a directory now, so the
  source's name is appended, nothing is found there, and a faithful copy is
  reported as a mismatch. What does hold is `MismatchHasACause`.

## 4. Fairness

Liveness is checked under weak fairness of what the runtime schedules: a
spawned task, a thread, a CLI process, a timer. Error alternatives are never
forced where the code may wait instead (`ReadFails` of `Exec` and `LoopFails` of
`Shell` are outside the fair actions). In `Shell` each of the loop, the stdin task,
the PTY threads, the client's main loop and its reading task is fair by itself;
in `Discovery` the collector, the sending of each probe and each deadline. Nothing
is assumed of commands and their descendants, of users, of the network, of a lost
connection (`BothEnd` of the transfers says `[]linkUp => ...`: neither side has a
timeout for a peer that vanishes silently), or of crashes. `AgentFs`, `Registry` and
`Clients` are checked for safety only and state no fairness.

## 5. Proofs

Every `*Proofs` module states an inductive invariant `IInv` (in `TargetsProofs`,
`IInv` for `Discovery` and `RegistryInv` for `Registry`), proves that it holds
initially and is kept by every step (`Invariance`; `InvariantHolds` in `AgentFs`,
`RegistryInvariance` in `Registry`), and derives from it the properties that the runs check on an instance. The
theorems hold for every value of the constants that meets the named assumptions of
the modules: numbers of connections, clients, tasks and files, sizes, chunkings,
capacities of queues, bounds on crashes and retries. TLC has checked each `IInv` on
the instance of the module's run; `fs_all` checks the one of `AgentFs` as a part of
the project, because it is stated in `AgentFs` itself.

| Module | Theorem | States |
|---|---|---|
| `AgentFsProofs` | `TypeCorrect`, `InvariantHolds` | `[]TypeOK`, `[]IInv` |
| | `AtomicWritesNeverTear` | `[]NoTornTarget` |
| | `AtomicWritesCommitTheirOwn` | `AtomicCommitIsOwn` (an action property) |
| | `ReadersAreConsistent` | `[]ReadersSeeOneVersion` |
| | `PreconditionsHold` | `[]GuardsHoldWithoutOverlap` |
| | `TemporaryFilesAreOwned` | `[]TempsHaveAWriter` |
| `PushBatchProofs` | `PositionsAlwaysAgree` | `[]PositionsAgree` |
| | `PushDelivers` | `Delivers`: the push implements `Delivery` |
| | `NobodyWaitsInVain`, `EveryStepAdvances` | `[]NoMutualWait`, `[][StepAdvances]_vars`: what `BothEnd` rests on |
| `PullBatchProofs` | `PositionsAlwaysAgree` | `[]PositionsAgree` |
| | `StreamErrorsAreCaused` | `[]StreamErrorsHaveACause` |
| | `PullDelivers` | `Delivers`: the pull implements `Delivery` |
| | `FirstAnswerIsUnderstood`, `EveryStepAdvances` | `[]AnswerIsExpected`, `[][StepAdvances]_vars` |
| `AgentPushProofs` | `DestinationStaysWhole` | `[]DestinationIsWhole` |
| | `SuccessMeansDelivered` | `[]SuccessIsDelivered` |
| | `OnlyInterruptionLoses` | `[]LossNeedsInterruption` |
| `ExecProofs` | `OutputStaysInOrder`, `CompletedMeansAll` | `[]OutputInOrder`, `[]CompletedIsAll` |
| | `TimeoutsAreReported`, `NoCommandIsLeft` | `[]TimeoutIsReported`, `[]NoCommandLeft` |
| `ShellProofs` | `ExitFollowsAllOutput`, `InputStaysInOrder` | `[]ExitMeansAllOutput`, `[]InputInOrder` |
| | `FailuresHaveACause`, `CommandsLeftNeedAFault` | `[]FailureHasACause`, `[]CommandLeftNeedsFault` |
| `ClientsProofs` | `TypesAreKept`, `PullsAreExact`, `MismatchesHaveACause` | `[]TypeOK`, `[]PullIsExact`, `[]MismatchHasACause` |
| | `AtomicSavesNeverTear` | `[]AtomicSaveNeverTears` |
| | `EditsAreKept`, `LostUpdatesNeedARace` | `[]EditIsKept`, `[]UpdateLostNeedsRace` |
| `TargetsProofs` | `ListedHaveAnswered`, `AnswersAreReturned` | `[]NoGhosts`, `[]NothingLost` |
| | `DevicesArePrintedOnce` | `[]PrintedOnce` |
| | `NormalizeIs` | what `normalize_registry` makes of a registry of any length |
| | `FilesAreNormal`, `BrokenFilesHaveACause` | `[]SavedIsNormal`, `[]UnreadableHasACause` |
| | `RewritesKeepThePrimary`, `CommandsHaveTheirEffect` | `RewriteKeepsPrimary`, `CommandsTakeEffect` (action properties) |

The arguments, and why the properties need a stronger invariant:

- `AgentFs`. `NoTornTarget` is not inductive: a rename shows whatever is in the
  temporary file, and a writer writes to whatever file it has open. `IInv` adds who
  can still write to what: handlers are at steps of their own operation (`Phases`);
  the file at a temporary path was created by a writer with that nonce (`TempLinks`);
  and, as long as nonces in use differ (`NoncesDistinct`), a file at an ordinary path that a
  handler created is beyond an atomic writer's reach (`UserLinks`); an atomic writer
  has its own, still empty, file open (`OpenFiles`); once written, its file holds its
  content until the rename (`WrittenTemps`); and every visible file is whole
  (`WholeFiles`). Three more invariants rest on it: a reader between two reads has a
  file open that nobody can write any more (`Readers`); what a guarded handler has
  checked is still so on every step up to its commit, or another connection has
  changed the target (`Guards`); a temporary path names a file of an atomic write
  that is between creation and rename (`Owners`). Lemmas say what each kind of tree
  update does to temporary and ordinary paths.
- `PushBatch`. Frames carry no file name, so `IInv` gives every byte its place in
  the stream: the frames in flight lie end to end from where the daemon is to where
  the client is (`EndToEnd`), and a byte on the device is where its place puts it,
  in the right file or not (`DiskOK`). A file that changed while it was streamed
  shifts everything behind it; but then the client never sends the EOF frame, and if
  it does, announced sizes cut the stream in one way only (`PlacesAreUnique`).
  For `NoMutualWait` the last frame of a client that waits is EOF and has left the
  `BufWriter`, and a daemon that reads EOF is done, whether it expected it or not
  (`WaitOK`). `StepAdvances` measures what is left by stage, entries, file to open
  and bytes, in lexicographic order.
- `PullBatch`. As long as the daemon has not failed, what it has sent and what its
  `BufWriter` holds is a sequence of whole frames, each beginning where the last
  ended (`FlowOK`, whatever the `BufWriter` passed on early); as long as no file has
  outgrown its size, every data frame is a piece of one file (`PlacedOK`). The first
  frame is the one the client expects, hence a bad stream has a cause (`CauseOK`).
  After a failure nothing is known of the stream except that it holds no
  `PullBatchComplete` (`CompleteOK`), and that is enough: the client cannot succeed.
  The client's measure counts the units still to be read in the place of bytes, so
  that it decreases even on a stream that means nothing any more.
- `AgentPush`. Handlers outlive their connections, so `IInv` relates each handler to
  the position of the client that started it (`HandlersOK`), says when a staged copy is
  complete (`StagedOK`), what of the destination a client has already done
  (`ProgressOK`), and, while no connection was lost and nothing crashed, that a
  missing destination is one that somebody is about to fill, a half-removed one is
  being removed, and a staged copy has a client that will move or remove it, unless
  the call that does so has failed (`CalmInv`).
- `Exec`. What the client has read of a frame, what is on the connection and what
  the handler has yet to write is one stream of frames whose bytes are numbered per
  channel without gaps, with a response last (`StreamOK`); a timeout inside a frame
  leaves a result that cannot be parsed (`BrokenOK`), so it is never taken for a
  completed command.
- `Shell`. Output is numbered without gaps in every queue it passes (`PipesOK`,
  `PoutOK`, `HandOK`, `ShownOK`), and so is input (`TypedOK`, `InputOK`); `ShellExit`
  exists only when both outputs are at their ends (`DrainedOK`), and an output is at its
  end only when the command has exited and no descendant holds it (`OpenOK`); who has ended, and
  why, is `EndOK`.
- `Discovery`. An answer with this discovery's nonce was given in this discovery
  (`NetOK`), and every answer accepted is in the channel or in the result
  (`AccountOK`), which is keyed by device, as is what was printed (`PrintOK`).
- `Registry`. What `Deduped` makes of a list (the loop of `normalize_registry` that
  drops duplicates) is described without the loop: every address once, in the order
  of its last occurrence, with the target of that occurrence (`Tracks`, kept by each
  push; `DedupedTracks` by induction over the loop). From that follow the primary
  target, and the effect of each command on a normal registry (`ConnectEffect`,
  `DisconnectEffect`, `DevicesEffect`). The properties need to know what a process
  holds besides the file: every copy is normal, and so is a file that a command has
  written (`CopiesOK`); a process between truncating and writing finds the file empty
  unless another one interfered (`WindowOK`); its copy is what it read, normalized,
  until its command is applied, and then has the effect of the command (`StageOK`).
- `Clients`. A file that nobody touched since a step is the one that step saw
  (`UntouchedOK`, `VerifiedOK`, `CheckOK`); without writes in place an inode that is
  being read does not change (`WholeOK`); resolving a destination again gives the same
  path, or for a new directory a path with nothing in it (`LocalAt`).

Assumptions are named in the modules that declare the constants, and TLC evaluates
them on every run: paths are non-empty and closed under taking the parent, the
temporary paths of a requested write and the targets of a requested move are paths,
and the first tree holds no temporary file (`DeviceFs`, `AgentFs`); the manifest's
totals are the sums of its sizes (`BaseAssumption`); chunks, responses, pipes and
queues have room for at least one unit; destinations are finite and there is a port
for each (`Discovery`); the token for no current target is no address or name, and
those for a missing, an empty and a torn file differ and are no registries
(`Registry`).

Two facts are inductions over data: the totals of a manifest grow from entry to
entry (`BaseSums`), and the loop of `normalize_registry`. The provers cannot use an
induction theorem that takes an operator, so both go by the smallest counterexample:
`<` is well-founded on the naturals, hence a nonempty set of counterexamples has a
least element (`LeastExists`), and the step rules it out.

Only model-checked:

- liveness (`BothEnd` of the transfers and of `Exec`, `EveryPushEnds`, `SessionEnds`,
  `DiscoverEnds`): fairness and `ENABLED` are out of the prover's reach. Of the two
  transfers what can be said without them is proved: no step can be repeated for
  ever, and in a push no side waits in vain;
- the three expected violations of section 3, which are counterexamples.

## 6. Not modelled

- Single-file push and pull: the daemon has handlers for `Push` and `Pull`, but no
  client of this repository sends them.
- `fs.list` and the path completion of `edit` (reads only), symbolic links,
  permissions beyond "the call may fail", fsync and power loss; the single removals
  of `remove_dir_all`; three atomic writes of one file in one nanosecond.
- The JSON codec, the command line, the agent schema, output formatting and
  logging, packaging and scripts: no state of their own.
- Terminal resizing (the protocol has no message for it) and raw mode.

See `PROJECT.json` for the component list and for hazards without a property.

## 7. Plan

1. Done: the models `AgentFs`, `PushBatch`, `PullBatch`, `Delivery`, `AgentPush`,
   `Registry`, `Exec`, `Shell`, `Discovery`, `AgentPull`, `Edit`, `Clients`; proofs of
   every safety property that a run checks, of both refinements of `Delivery`, and of
   the measures behind the termination of the two transfers.
2. Next:
   - the handlers of `AgentPush` as a refinement of those of `AgentFs`;
   - measures and waiting conditions for `Exec` and `Shell`, as for the transfers.
