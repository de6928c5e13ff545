----------------------------- MODULE AgentPull ------------------------------
(***************************************************************************)
(* rsdb agent transfer.pull of one source, the file or the directory it is *)
(* in, and the verification of what was pulled.  The wire is in PullBatch; *)
(* here a pull reads the remote file in its two parts.                     *)
(*                                                                         *)
(* Local paths: D is the destination, src the source's name, f the name of *)
(* the file in a source that is a directory.                               *)
(***************************************************************************)
EXTENDS RemoteFile

CONSTANTS PullRequests   \* requests that are made

LocalPath == {"D", "D/src", "D/f", "D/src/f"}

VARIABLES
    req,       \* the request, and what is at the destination before it
    ppc,       \* where the command is
    base,      \* the root's local path, as receive_local_batch resolves it
    vbase,     \* the same, as the verification resolves it
    announced, \* the manifest's entry for the file
    pfd,       \* the remote inode being read
    phead,     \* what was read of it
    vsize,     \* size that fs.stat or fs.list gave
    local,     \* the local file system
    touched,   \* history: the remote file changed since the command started
    vtouched   \* history: it changed since its verification started

pullVars == <<req, ppc, base, vbase, announced, pfd, phead, vsize, local, touched, vtouched>>
history  == <<touched, vtouched>>

Init ==
    /\ req \in PullRequests
    /\ ppc = "sources" /\ base = "D" /\ vbase = "D" /\ announced = Absent
    /\ pfd = 0 /\ phead = 0 /\ vsize = 0
    /\ local = [p \in LocalPath |-> IF p = "D" THEN req.dest ELSE Absent]
    /\ touched = FALSE /\ vtouched = FALSE

Ends == {"ok", "failed", "mismatch"}

(* Where the file is when the root is at b. *)
FilePath(b) == IF req.kind = "file" THEN b ELSE IF b = "D" THEN "D/f" ELSE "D/src/f"
-----------------------------------------------------------------------------
(* resolve_sha256_pull_sources: a source is asked for, and a wildcard is    *)
(* refused, only if hashes are to be compared.                              *)
ResolveSources ==
    /\ ppc = "sources"
    /\ ppc' = IF req.verify = "sha256" /\ req.wildcard THEN "failed" ELSE "manifest"
    /\ UNCHANGED <<remote, req, base, vbase, announced, pfd, phead, vsize, local, history>>

(* build_batch_manifest_from_sources on the device. *)
Manifest ==
    /\ ppc = "manifest"
    /\ ppc' = IF req.kind = "file" /\ File = Absent THEN "failed" ELSE "resolve"
    /\ announced' = IF File = Absent THEN Absent ELSE Content(0, 0, File.size)
    /\ UNCHANGED <<remote, req, base, vbase, pfd, phead, vsize, local, history>>

(* resolve_local_batch_roots with one root. *)
Resolves == ~(req.slash /\ local["D"].kind = "file")
Resolved == IF req.slash \/ local["D"].kind = "dir" THEN "D/src" ELSE "D"

(* create_dir_all of a root, or of the directory it is in. *)
Prepared(b) ==
    [local EXCEPT !["D"] = IF b = "D" /\ req.kind = "file" THEN @ ELSE Dir,
                  !["D/src"] = IF b = "D/src" /\ req.kind = "dir" THEN Dir ELSE @]

(* receive_local_batch up to the first chunk: directories are made and the  *)
(* local file is truncated, unless something of another kind is there.      *)
Receive ==
    /\ ppc = "resolve"
    /\ LET b    == Resolved
           made == Prepared(b)
           p    == FilePath(b)
           fits == /\ Resolves
                   /\ local["D"].kind = "file" => b = "D" /\ req.kind = "file"
                   /\ announced = Absent \/ made[p].kind # "dir"
       IN  /\ base' = b
           /\ ppc' = IF ~fits THEN "failed" ELSE IF announced = Absent THEN "received" ELSE "open"
           /\ local' = IF ~fits THEN local
                       ELSE IF announced = Absent THEN made ELSE [made EXCEPT ![p] = Empty]
    /\ UNCHANGED <<remote, req, vbase, announced, pfd, phead, vsize, history>>

(* The device opens the file and streams its first part. *)
StreamHead ==
    /\ ppc = "open"
    /\ IF link = 0 THEN ppc' = "failed" /\ UNCHANGED <<pfd, phead>>
       ELSE ppc' = "stream" /\ pfd' = link /\ phead' = ino[link].head
    /\ UNCHANGED <<remote, req, base, vbase, announced, vsize, local, history>>

(* Mutant: the local file is not flushed. *)
StreamTailUnflushed ==
    /\ ppc = "stream"
    /\ IF ino[pfd].size = announced.size
       THEN /\ ppc' = "received"
            /\ local' = [local EXCEPT ![FilePath(base)] = Content(phead, 0, ino[pfd].size)]
       ELSE ppc' = "failed" /\ UNCHANGED local
    /\ UNCHANGED <<remote, req, base, vbase, announced, pfd, phead, vsize, history>>

(* And the rest, which must have the announced length. *)
StreamTail ==
    /\ ppc = "stream"
    /\ IF ino[pfd].size = announced.size
       THEN /\ ppc' = "received"
            /\ local' = [local EXCEPT ![FilePath(base)] = Content(phead, ino[pfd].tail, ino[pfd].size)]
       ELSE ppc' = "failed" /\ UNCHANGED local
    /\ UNCHANGED <<remote, req, base, vbase, announced, pfd, phead, vsize, history>>

(* execute_pull returns.  The verification resolves the destination again.  *)
Received ==
    /\ ppc = "received"
    /\ ppc' = IF req.verify = "none" THEN "ok" ELSE req.verify
    /\ vbase' = Resolved /\ vtouched' = FALSE
    /\ UNCHANGED <<remote, req, base, announced, pfd, phead, vsize, local, touched>>

(* transfer_states_match: what is expected is there; more may be. *)
RootMatches == req.kind = "dir" => local[vbase].kind = "dir"
SizeMatches == announced = Absent \/ /\ local[FilePath(vbase)].kind = "file"
                                     /\ local[FilePath(vbase)].size = announced.size

(* verify_local_pull_against_manifest. *)
VerifySize ==
    /\ ppc = "size"
    /\ ppc' = IF RootMatches /\ SizeMatches THEN "ok" ELSE "mismatch"
    /\ UNCHANGED <<remote, req, base, vbase, announced, pfd, phead, vsize, local, history>>

(* collect_remote_transfer_state: the size by fs.stat or fs.list. *)
VerifyStat ==
    /\ ppc = "sha256"
    /\ ppc' = CASE File # Absent -> "hash"
                [] File = Absent /\ req.kind = "dir" /\ RootMatches -> "ok"
                [] OTHER -> "mismatch"
    /\ vsize' = File.size
    /\ UNCHANGED <<remote, req, base, vbase, announced, pfd, phead, local, history>>

(* The hash is taken by a second look at the path. *)
VerifyHead ==
    /\ ppc = "hash"
    /\ IF link = 0 THEN ppc' = "failed" /\ UNCHANGED <<pfd, phead>>
       ELSE ppc' = "hash_tail" /\ pfd' = link /\ phead' = ino[link].head
    /\ UNCHANGED <<remote, req, base, vbase, announced, vsize, local, history>>

(* Mutant: only sizes are compared. *)
VerifyTailSizes ==
    /\ ppc = "hash_tail"
    /\ ppc' = IF /\ RootMatches
                 /\ local[FilePath(vbase)].kind = "file" /\ local[FilePath(vbase)].size = vsize
              THEN "ok" ELSE "mismatch"
    /\ UNCHANGED <<remote, req, base, vbase, announced, pfd, phead, vsize, local, history>>

(* transfer_states_match on size and hash. *)
VerifyTail ==
    /\ ppc = "hash_tail"
    /\ ppc' = IF /\ RootMatches
                 /\ local[FilePath(vbase)] = Content(phead, ino[pfd].tail, ino[pfd].size)
                 /\ local[FilePath(vbase)].size = vsize
              THEN "ok" ELSE "mismatch"
    /\ UNCHANGED <<remote, req, base, vbase, announced, pfd, phead, vsize, local, history>>

(* A connection is lost, or the device reports an error. *)
PullFails ==
    /\ \/ ppc \in {"manifest", "open", "stream", "sha256", "hash", "hash_tail"}
       \/ ppc = "sources" /\ req.verify = "sha256"
    /\ ppc' = "failed"
    /\ UNCHANGED <<remote, req, base, vbase, announced, pfd, phead, vsize, local, history>>

Next ==
    \/ ResolveSources \/ Manifest \/ Receive \/ StreamHead \/ StreamTail \/ Received
    \/ VerifySize \/ VerifyStat \/ VerifyHead \/ VerifyTail \/ PullFails

(* What a step of somebody else means to the pull. *)
Observe ==
    /\ touched' = (touched \/ File' # File)
    /\ vtouched' = (vtouched \/ File' # File)
    /\ UNCHANGED <<req, ppc, base, vbase, announced, pfd, phead, vsize, local>>
-----------------------------------------------------------------------------
(* Type correctness of run_agent_transfer_pull's state. *)
TypeOK ==
    /\ req \in PullRequests
    /\ ppc \in {"sources", "manifest", "resolve", "open", "stream", "received", "size", "sha256",
                "hash", "hash_tail"} \cup Ends
    /\ base \in {"D", "D/src"} /\ vbase \in {"D", "D/src"} /\ announced \in Node
    /\ pfd \in Inode \cup {0} /\ phead \in Part /\ vsize \in Size
    /\ local \in [LocalPath -> Node]
    /\ touched \in BOOLEAN /\ vtouched \in BOOLEAN

(* What is where the pull put the file. *)
Pulled == local[FilePath(base)]

(* A successful pull is an exact copy if the file was left alone from the   *)
(* start or, with --verify sha256, from the start of the verification.      *)
PullIsExact ==
    ppc = "ok" /\ (~touched \/ (req.verify = "sha256" /\ ~vtouched)) => File \in {Absent, Pulled}

(* A verification fails only for a file that changed, or because the        *)
(* destination now resolves to another path.                                *)
MismatchHasACause == ppc = "mismatch" => touched \/ vbase # base

(* Without the second excuse: a copy of a file that did not change verifies. *)
FaithfulPullVerifies == ppc = "mismatch" => touched
=============================================================================
