------------------------------ MODULE AgentFs -------------------------------
(***************************************************************************)
(* The structured filesystem operations of rsdbd (fs.stat, fs.read,        *)
(* fs.write, fs.mkdir, fs.rm, fs.move) as concurrent connections run them. *)
(*                                                                         *)
(* The daemon serves one request per connection, each in a task of its own *)
(* on a multi-threaded runtime, and takes no lock: the tasks meet only in  *)
(* the filesystem.  An action is therefore one filesystem call of one      *)
(* handler together with the checks made on its result, and every          *)
(* interleaving of the handlers' calls is a behaviour.                     *)
(*                                                                         *)
(* A file's bytes are a member of Content when they are exactly what one   *)
(* request wrote, Empty just after creation or truncation, and Torn when   *)
(* they are a proper part or a mixture.  SHA-256 is taken to be injective, *)
(* so a hash is represented by the bytes it was computed from.             *)
(***************************************************************************)
EXTENDS DeviceFs

CONSTANTS
    Conn,        \* connections, each of which carries one request
    Content,     \* the byte strings requests write, none of them empty
    Size,        \* Size[c] is the length of c
    Requests,    \* the requests a client may send
    Nonce,       \* readings of the clock, used to name temporary files
    InitTrees,   \* the trees the daemon may find at start
    InitData,    \* the bytes of the files of those trees
    MaxCrashes,  \* how often the daemon's process may die
    Empty, Torn, \* bytes that are not a member of Content
    NoSha,       \* the request has no if_sha256 precondition
    Nothing      \* no request, no descriptor, nothing replaced yet

(* ControlRequest::Fs*: one record for all of them.  "mode" says whether a  *)
(* mode was given, "hash" that fs.stat was asked for one, "bad" that the    *)
(* request is refused before any filesystem call (an empty path,            *)
(* undecodable or oversized content).                                       *)
Request == [op        : {"stat", "read", "write", "mkdir", "rm", "move"},
            bad       : BOOLEAN,
            hash      : BOOLEAN,
            path      : Path,
            dest      : Path,
            content   : Content,
            atomic    : BOOLEAN,
            ifMissing : BOOLEAN,
            ifSha     : Content \cup {NoSha},
            parents   : BOOLEAN,
            mode      : BOOLEAN,
            recursive : BOOLEAN,
            force     : BOOLEAN,
            overwrite : BOOLEAN]

Data == Content \cup {Empty, Torn}

Codes == {"InvalidRequest", "FsPreconditionFailed", "FsNotFound", "FsNoSpace", "Internal"}

(* atomic_temp_path: the hidden sibling named after the clock. *)
TempPath(p, n) == [p EXCEPT ![Len(p)] = <<p[Len(p)][1], n>>]

ASSUME ConnAssumption == Conn \subseteq Inode

ASSUME SizeAssumption == Size \in [Content -> Nat]

ASSUME TokenAssumption ==
    /\ Empty \notin Content /\ Torn \notin Content /\ Empty # Torn
    /\ Absent \notin Data /\ Dir \notin Data
    /\ Nothing \notin Inode /\ Nothing \notin Request

ASSUME NonceAssumption == Nonce \subseteq Nat \ {0}

ASSUME RequestAssumption ==
    /\ Requests \subseteq Request
    /\ \A r \in Requests :
         /\ IsUserPath(r.path) /\ IsUserPath(r.dest)
         /\ r.op = "write" => \A n \in Nonce : TempPath(r.path, n) \in Path
         /\ r.op = "move" => \A q \in Path :
                Under(q, r.path) => Rebase(q, r.path, r.dest) \in Path

ASSUME InitAssumption ==
    /\ InitTrees \subseteq Tree
    /\ \A t \in InitTrees, p \in Path :
         /\ IsFile(t[p]) => t[p] \notin Conn
         /\ ~IsUserPath(p) => t[p] = Absent
    /\ InitData \in [Inode -> Data]
    /\ \A i \in Inode \ Conn : InitData[i] \in Content

ASSUME CrashAssumption == MaxCrashes \in Nat
-----------------------------------------------------------------------------
VARIABLES
    tree,      \* what is linked at every path
    data,      \* the bytes of every regular file, linked or only held open
    pc,        \* where each connection's handler is
    req,       \* the request each connection carries
    seen,      \* what symlink_metadata reported for the path the handler changes
    changed,   \* the "changed" field of the write result
    nonce,     \* the clock reading in the temporary file's name, 0 before that
    fd,        \* the file a handler holds open
    half,      \* what a reader has read before its last read call
    got,       \* the bytes a reader reports or hashes
    reply,     \* the response sent, or about to be sent after a cleanup
    crashes,   \* how often the process has died
    overlap,   \* history: the guarded path changed between check and commit
    replaced   \* history: what the commit of a write or a move replaced

fsVars   == <<tree, data>>
readVars == <<half, got>>
vars == <<tree, data, pc, req, seen, changed, nonce, fd, half, got, reply,
          crashes, overlap, replaced>>

Running(c) == pc[c] \notin {"idle", "done", "dead"}

(* What a client would find at p: nothing, a directory, or some bytes. *)
View(p) == IF IsFile(tree[p]) THEN data[tree[p]] ELSE tree[p]

(* The path a request changes, and the temporary path of an atomic write. *)
Target(c) == IF req[c].op = "move" THEN req[c].dest ELSE req[c].path
Temp(c)   == TempPath(req[c].path, nonce[c])

IsAtomic(c) == req[c].op = "write" /\ req[c].atomic
IsDirect(c) == req[c].op = "write" /\ ~req[c].atomic

Goto(c, l)  == pc' = [pc EXCEPT ![c] = l]

(* write_json_frame with the operation's result, or send_error with the     *)
(* code classify_fs_error chose: either ends the handler.                   *)
Finish(c, code) ==
    /\ Goto(c, "done")
    /\ reply' = [reply EXCEPT ![c] = code]

Continue(c, l) == Goto(c, l) /\ UNCHANGED reply

(* The error code of a path lookup that fails: NotFound when a component is *)
(* missing, and Internal for ENOTDIR, EISDIR and the like.                  *)
LookupError(p) ==
    IF \E q \in Path : (q = p \/ Under(p, q)) /\ IsFile(tree[q]) THEN "Internal" ELSE "FsNotFound"
-----------------------------------------------------------------------------
Init ==
    /\ tree \in InitTrees
    /\ data = [i \in Inode |-> IF i \in Conn THEN Empty ELSE InitData[i]]
    /\ pc = [c \in Conn |-> "idle"]
    /\ req = [c \in Conn |-> Nothing]
    /\ seen = [c \in Conn |-> Absent]
    /\ changed = [c \in Conn |-> FALSE]
    /\ nonce = [c \in Conn |-> 0]
    /\ fd = [c \in Conn |-> Nothing]
    /\ half = [c \in Conn |-> Empty]
    /\ got = [c \in Conn |-> Empty]
    /\ reply = [c \in Conn |-> "none"]
    /\ crashes = 0
    /\ overlap = [c \in Conn |-> FALSE]
    /\ replaced = [c \in Conn |-> Nothing]

(* handle_request dispatches to a handler, whose validate_fs_path and       *)
(* decode_fs_content come before any filesystem call.                       *)
FirstStep(r) ==
    CASE r.op = "write" -> IF r.parents THEN "mkparents" ELSE "stat"
      [] r.op = "move"  -> "stat_source"
      [] OTHER          -> "stat"

Receive(c) ==
    /\ pc[c] = "idle"
    /\ \E r \in Requests :
         /\ req' = [req EXCEPT ![c] = r]
         /\ IF r.bad THEN Finish(c, "InvalidRequest") ELSE Continue(c, FirstStep(r))
    /\ UNCHANGED <<fsVars, seen, changed, nonce, fd, readVars, crashes, replaced>>
-----------------------------------------------------------------------------
(* symlink_metadata(path) fails other than with NotFound: a component of    *)
(* the path is a file.                                                      *)
StatFails(p) == \E q \in Path : Under(p, q) /\ IsFile(tree[q])

(* metadata.len() == bytes.len(), undetermined for torn bytes. *)
SameLength(n, c) ==
    IF ~IsFile(n) \/ data[n] = Empty THEN {FALSE}
    ELSE IF data[n] = Torn THEN BOOLEAN ELSE {Size[data[n]] = Size[c]}

(* handle_fs_write: create_dir_all(parent) when create_parent is set. *)
WriteMkParents(c) ==
    /\ pc[c] = "mkparents"
    /\ LET p == Parent(req[c].path) IN
         IF p = << >> THEN Continue(c, "stat") /\ UNCHANGED tree
         ELSE IF CanCreateDirAll(tree, p)
              THEN Continue(c, "stat") /\ tree' = CreateDirAll(tree, p)
              ELSE Finish(c, "Internal") /\ UNCHANGED tree
    /\ UNCHANGED <<data, req, seen, changed, nonce, fd, readVars, crashes, replaced>>

(* Mutant: the if_missing check is forgotten. *)
WriteStatNoIfMissing(c) ==
    /\ pc[c] = "stat" /\ req[c].op = "write"
    /\ LET r == req[c]
           s == tree[r.path]
       IN  \/ /\ StatFails(r.path) /\ Finish(c, "Internal")
              /\ UNCHANGED <<seen, changed>>
           \/ /\ ~StatFails(r.path) /\ s = Dir /\ Finish(c, "InvalidRequest")
              /\ UNCHANGED <<seen, changed>>
           \/ /\ ~StatFails(r.path) /\ s # Dir
              /\ \E same \in SameLength(s, r.content) :
                   /\ changed' = [changed EXCEPT ![c] = ~same]
                   /\ Continue(c, IF same \/ r.ifSha # NoSha THEN "hash" ELSE "open")
              /\ seen' = [seen EXCEPT ![c] = s]
    /\ UNCHANGED <<fsVars, req, nonce, fd, readVars, crashes, replaced>>

(* handle_fs_write: symlink_metadata and the checks made on it.  The file   *)
(* is hashed next when if_sha256 asks for it or its length does not already *)
(* show that the content differs.                                           *)
WriteStat(c) ==
    /\ pc[c] = "stat" /\ req[c].op = "write"
    /\ LET r == req[c]
           s == tree[r.path]
       IN  \/ /\ StatFails(r.path) /\ Finish(c, "Internal")
              /\ UNCHANGED <<seen, changed>>
           \/ /\ ~StatFails(r.path) /\ s = Dir /\ Finish(c, "InvalidRequest")
              /\ UNCHANGED <<seen, changed>>
           \/ /\ ~StatFails(r.path) /\ s # Dir
              /\ (r.ifMissing /\ s # Absent) \/ (r.ifSha # NoSha /\ s = Absent)
              /\ Finish(c, "FsPreconditionFailed")
              /\ UNCHANGED <<seen, changed>>
           \/ /\ ~StatFails(r.path) /\ s # Dir
              /\ ~(r.ifMissing /\ s # Absent) /\ ~(r.ifSha # NoSha /\ s = Absent)
              /\ \E same \in SameLength(s, r.content) :
                   /\ changed' = [changed EXCEPT ![c] = ~same]
                   /\ Continue(c, IF same \/ r.ifSha # NoSha THEN "hash" ELSE "open")
              /\ seen' = [seen EXCEPT ![c] = s]
    /\ UNCHANGED <<fsVars, req, nonce, fd, readVars, crashes, replaced>>

(* handle_fs_read, blocking_fs_stat: symlink_metadata. *)
ReadStat(c) ==
    /\ pc[c] = "stat" /\ req[c].op \in {"read", "stat"}
    /\ LET s == tree[req[c].path] IN
         /\ seen' = [seen EXCEPT ![c] = s]
         /\ \/ StatFails(req[c].path) /\ Finish(c, "Internal")
            \/ /\ ~StatFails(req[c].path) /\ IsFile(s)
               /\ IF req[c].op = "stat" /\ ~req[c].hash THEN Finish(c, "ok") ELSE Continue(c, "hash")
            \/ /\ ~StatFails(req[c].path) /\ ~IsFile(s)
               /\ IF req[c].op = "stat" THEN Finish(c, "ok")
                  ELSE Finish(c, IF s = Dir THEN "InvalidRequest" ELSE "FsNotFound")
    /\ UNCHANGED <<fsVars, req, changed, nonce, fd, readVars, crashes, replaced>>

(* File::open and the first read of handle_fs_read and of sha256_path.  A   *)
(* directory opens but cannot be read.                                      *)
OpenForRead(c) ==
    /\ pc[c] = "hash"
    /\ LET n == tree[req[c].path] IN
         IF IsFile(n)
         THEN /\ fd' = [fd EXCEPT ![c] = n]
              /\ half' = [half EXCEPT ![c] = data[n]]
              /\ Continue(c, "read_rest")
         ELSE /\ Finish(c, IF n = Dir THEN "Internal" ELSE LookupError(req[c].path))
              /\ UNCHANGED <<fd, half>>
    /\ UNCHANGED <<fsVars, req, seen, changed, nonce, got, crashes, replaced>>

(* What a reader has in its buffer when the file held a before its first    *)
(* read and b before its last: the two reads may straddle a writer.         *)
Spliced(a, b) == IF a = b \/ a = Empty THEN {a} ELSE {a, Torn}

(* The remaining reads; with a max_bytes that the first read reaches there  *)
(* are none.  fs.read may find that the bytes are not the UTF-8 it was      *)
(* asked for.  A write goes on to compare the hash with its precondition    *)
(* and with the hash of the new content.                                    *)
ReadRest(c) ==
    /\ pc[c] = "read_rest"
    /\ \E d \in Spliced(half[c], data[fd[c]]) :
         /\ got' = [got EXCEPT ![c] = d]
         /\ \/ /\ req[c].op # "write" /\ Finish(c, "ok") /\ UNCHANGED changed
            \/ /\ req[c].op = "read" /\ Finish(c, "InvalidRequest") /\ UNCHANGED changed
            \/ /\ req[c].op = "write" /\ req[c].ifSha \notin {NoSha, d}
               /\ Finish(c, "FsPreconditionFailed") /\ UNCHANGED changed
            \/ /\ req[c].op = "write" /\ req[c].ifSha \in {NoSha, d}
               /\ changed' = [changed EXCEPT ![c] = @ \/ d # req[c].content]
               /\ Continue(c, "open")
    /\ fd' = [fd EXCEPT ![c] = Nothing]
    /\ UNCHANGED <<fsVars, req, seen, nonce, half, crashes, replaced>>
-----------------------------------------------------------------------------
(* write_direct_file: open with create and truncate.  From here on the old  *)
(* bytes are gone.                                                          *)
OpenDirect(c) ==
    /\ pc[c] = "open" /\ IsDirect(c)
    /\ LET p == req[c].path
           n == IF tree[p] = Absent THEN c ELSE tree[p]
       IN  IF tree[p] # Dir /\ HasParent(tree, p)
           THEN /\ tree' = Link(tree, p, n)
                /\ data' = [data EXCEPT ![n] = Empty]
                /\ fd' = [fd EXCEPT ![c] = n]
                /\ replaced' = [replaced EXCEPT ![c] = View(p)]
                /\ Continue(c, "write")
           ELSE /\ Finish(c, IF tree[p] = Dir THEN "Internal" ELSE LookupError(p))
                /\ UNCHANGED <<fsVars, fd, replaced>>
    /\ UNCHANGED <<req, seen, changed, nonce, readVars, crashes>>

(* Mutant: a write error is overlooked and the rename goes ahead. *)
WriteFailsUnnoticed(c, code) ==
    IF IsAtomic(c)
    THEN Goto(c, IF pc[c] = "write" THEN "rename" ELSE "done") /\ reply' = [reply EXCEPT ![c] = code]
    ELSE Finish(c, code)

(* Mutant: the error is reported and the temporary file stays. *)
WriteFailsNoCleanup(c, code) == Finish(c, code)

(* Leaving write_atomic_file or write_direct_file with an error.  The code  *)
(* of the error is recorded now and sent after the temporary file is gone.  *)
WriteFails(c, code) ==
    IF IsAtomic(c)
    THEN Goto(c, "cleanup") /\ reply' = [reply EXCEPT ![c] = code]
    ELSE Finish(c, code)

(* write_atomic_file: create_new of the temporary file, whose name is       *)
(* whatever the clock says.  When that file exists the write fails, and its *)
(* cleanup removes the other writer's file.                                 *)
OpenTemp(c) ==
    /\ pc[c] = "open" /\ IsAtomic(c)
    /\ \E n \in Nonce :
         LET t == TempPath(req[c].path, n) IN
         /\ nonce' = [nonce EXCEPT ![c] = n]
         /\ IF tree[t] = Absent /\ HasParent(tree, t)
            THEN /\ tree' = Link(tree, t, c)
                 /\ data' = [data EXCEPT ![c] = Empty]
                 /\ fd' = [fd EXCEPT ![c] = c]
                 /\ Continue(c, "write")
            ELSE /\ WriteFails(c, IF tree[t] = Absent THEN LookupError(t) ELSE "Internal")
                 /\ UNCHANGED <<fsVars, fd>>
    /\ UNCHANGED <<req, seen, changed, readVars, crashes, replaced>>

(* What write_all leaves in a file that held old: a longer tail of another  *)
(* writer survives behind the new bytes.                                    *)
Overwrite(old, new) ==
    IF old = Torn THEN {new, Torn}
    ELSE IF old = Empty \/ Size[old] <= Size[new] THEN {new} ELSE {Torn}

(* write_all and flush: all of it, or a part of it when the device is full. *)
WriteData(c) ==
    /\ pc[c] = "write"
    /\ \/ /\ \E d \in Overwrite(data[fd[c]], req[c].content) :
               data' = [data EXCEPT ![fd[c]] = d]
          /\ Continue(c, "chmod")
       \/ /\ \E d \in {data[fd[c]], Torn} : data' = [data EXCEPT ![fd[c]] = d]
          /\ WriteFails(c, "FsNoSpace")
    /\ UNCHANGED <<tree, req, seen, changed, nonce, fd, readVars, crashes, replaced>>

(* set_permissions by path, when a mode was given.  It ends a direct write. *)
WriteChmod(c) ==
    /\ pc[c] = "chmod" /\ req[c].op = "write"
    /\ LET p == IF IsAtomic(c) THEN Temp(c) ELSE req[c].path IN
         IF req[c].mode /\ tree[p] = Absent
         THEN WriteFails(c, LookupError(p))
         ELSE IF IsAtomic(c) THEN Continue(c, "rename") ELSE Finish(c, "ok")
    /\ UNCHANGED <<fsVars, req, seen, changed, nonce, fd, readVars, crashes, replaced>>

(* write_atomic_file: rename over the target, the commit of the write. *)
RenameTemp(c) ==
    /\ pc[c] = "rename"
    /\ LET p == req[c].path IN
         IF CanRename(tree, Temp(c), p)
         THEN /\ tree' = Rename(tree, Temp(c), p)
              /\ replaced' = [replaced EXCEPT ![c] = View(p)]
              /\ Finish(c, "ok")
         ELSE /\ WriteFails(c, IF tree[Temp(c)] = Absent THEN "FsNotFound" ELSE "Internal")
              /\ UNCHANGED <<tree, replaced>>
    /\ UNCHANGED <<data, req, seen, changed, nonce, fd, readVars, crashes>>

(* write_atomic_file: an error anywhere removes whatever is at the          *)
(* temporary path, then is reported.                                        *)
CleanupTemp(c) ==
    /\ pc[c] = "cleanup"
    /\ tree' = IF CanRemoveFile(tree, Temp(c)) THEN Link(tree, Temp(c), Absent) ELSE tree
    /\ Finish(c, reply[c])
    /\ UNCHANGED <<data, req, seen, changed, nonce, fd, readVars, crashes, replaced>>
-----------------------------------------------------------------------------
(* handle_fs_mkdir: symlink_metadata, then create_dir_all or create_dir,    *)
(* then the mode.                                                           *)
MkdirStat(c) ==
    /\ pc[c] = "stat" /\ req[c].op = "mkdir"
    /\ LET s == tree[req[c].path] IN
         \/ StatFails(req[c].path) /\ Finish(c, "Internal")
         \/ ~StatFails(req[c].path) /\ IsFile(s) /\ Finish(c, "FsPreconditionFailed")
         \/ ~StatFails(req[c].path) /\ s = Dir /\ Continue(c, "chmod")
         \/ ~StatFails(req[c].path) /\ s = Absent /\ Continue(c, "mkdir")
    /\ UNCHANGED <<fsVars, req, seen, changed, nonce, fd, readVars, crashes, replaced>>

MkdirCreate(c) ==
    /\ pc[c] = "mkdir"
    /\ LET p == req[c].path IN
         IF req[c].parents
         THEN IF CanCreateDirAll(tree, p)
              THEN tree' = CreateDirAll(tree, p) /\ Continue(c, "chmod")
              ELSE UNCHANGED tree /\ Finish(c, "Internal")
         ELSE IF tree[p] = Absent /\ HasParent(tree, p)
              THEN tree' = Link(tree, p, Dir) /\ Continue(c, "chmod")
              ELSE UNCHANGED tree
                   /\ Finish(c, IF tree[p] = Absent THEN LookupError(p) ELSE "Internal")
    /\ UNCHANGED <<data, req, seen, changed, nonce, fd, readVars, crashes, replaced>>

MkdirChmod(c) ==
    /\ pc[c] = "chmod" /\ req[c].op = "mkdir"
    /\ Finish(c, IF req[c].mode /\ tree[req[c].path] = Absent
                 THEN LookupError(req[c].path) ELSE "ok")
    /\ UNCHANGED <<fsVars, req, seen, changed, nonce, fd, readVars, crashes, replaced>>

(* handle_fs_rm: symlink_metadata decides which removal is called. *)
RmStat(c) ==
    /\ pc[c] = "stat" /\ req[c].op = "rm"
    /\ LET s == tree[req[c].path] IN
         /\ seen' = [seen EXCEPT ![c] = s]
         /\ \/ StatFails(req[c].path) /\ Finish(c, "Internal")
            \/ /\ ~StatFails(req[c].path) /\ s = Absent
               /\ Finish(c, IF req[c].force THEN "ok" ELSE "FsNotFound")
            \/ ~StatFails(req[c].path) /\ s # Absent /\ Continue(c, "remove")
    /\ UNCHANGED <<fsVars, req, changed, nonce, fd, readVars, crashes, replaced>>

CanRemove(p, s, recursive) ==
    IF s # Dir THEN CanRemoveFile(tree, p)
    ELSE IF recursive THEN CanRemoveTree(tree, p) ELSE CanRemoveDir(tree, p)

RmRemove(c) ==
    /\ pc[c] = "remove" /\ req[c].op = "rm"
    /\ LET p == req[c].path IN
         IF CanRemove(p, seen[c], req[c].recursive)
         THEN tree' = RemoveTree(tree, p) /\ Finish(c, "ok")
         ELSE UNCHANGED tree
              /\ Finish(c, IF tree[p] = Absent THEN LookupError(p) ELSE "Internal")
    /\ UNCHANGED <<data, req, seen, changed, nonce, fd, readVars, crashes, replaced>>

(* handle_fs_move: symlink_metadata of the source, then of the destination. *)
MoveStatSource(c) ==
    /\ pc[c] = "stat_source"
    /\ IF tree[req[c].path] = Absent
       THEN Finish(c, LookupError(req[c].path))
       ELSE Continue(c, "stat_dest")
    /\ UNCHANGED <<fsVars, req, seen, changed, nonce, fd, readVars, crashes, replaced>>

MoveStatDest(c) ==
    /\ pc[c] = "stat_dest"
    /\ LET s == tree[req[c].dest] IN
         /\ seen' = [seen EXCEPT ![c] = s]
         /\ \/ StatFails(req[c].dest) /\ Finish(c, "Internal")
            \/ /\ ~StatFails(req[c].dest) /\ s # Absent /\ ~req[c].overwrite
               /\ Finish(c, "FsPreconditionFailed")
            \/ ~StatFails(req[c].dest) /\ s # Absent /\ req[c].overwrite /\ Continue(c, "remove")
            \/ ~StatFails(req[c].dest) /\ s = Absent /\ Continue(c, "move")
    /\ UNCHANGED <<fsVars, req, changed, nonce, fd, readVars, crashes, replaced>>

(* The destination is removed before the source takes its place. *)
MoveRemove(c) ==
    /\ pc[c] = "remove" /\ req[c].op = "move"
    /\ LET p == req[c].dest IN
         IF CanRemove(p, seen[c], TRUE)
         THEN tree' = RemoveTree(tree, p) /\ Continue(c, "move")
         ELSE UNCHANGED tree
              /\ Finish(c, IF tree[p] = Absent THEN LookupError(p) ELSE "Internal")
    /\ UNCHANGED <<data, req, seen, changed, nonce, fd, readVars, crashes, replaced>>

MoveRename(c) ==
    /\ pc[c] = "move"
    /\ LET s == req[c].path
           d == req[c].dest
       IN  IF CanRename(tree, s, d)
           THEN /\ tree' = Rename(tree, s, d)
                /\ replaced' = [replaced EXCEPT ![c] = View(d)]
                /\ Finish(c, "ok")
           ELSE /\ Finish(c, IF tree[s] = Absent THEN LookupError(s)
                             ELSE IF tree[d] = Absent THEN LookupError(d) ELSE "Internal")
                /\ UNCHANGED <<tree, replaced>>
    /\ UNCHANGED <<data, req, seen, changed, nonce, fd, readVars, crashes>>
-----------------------------------------------------------------------------
(* The daemon's process dies: handlers stop where they are, no cleanup      *)
(* runs, and the filesystem keeps what the calls so far did to it.          *)
Crash ==
    /\ crashes < MaxCrashes
    /\ \E c \in Conn : Running(c)
    /\ crashes' = crashes + 1
    /\ pc' = [c \in Conn |-> IF Running(c) THEN "dead" ELSE pc[c]]
    /\ UNCHANGED <<fsVars, req, seen, changed, nonce, fd, readVars, reply, overlap, replaced>>

(* One call of one handler. *)
Step(c) ==
    \/ Receive(c)
    \/ WriteMkParents(c) \/ WriteStat(c) \/ OpenDirect(c) \/ OpenTemp(c)
    \/ WriteData(c) \/ WriteChmod(c) \/ RenameTemp(c) \/ CleanupTemp(c)
    \/ ReadStat(c) \/ OpenForRead(c) \/ ReadRest(c)
    \/ MkdirStat(c) \/ MkdirCreate(c) \/ MkdirChmod(c)
    \/ RmStat(c) \/ RmRemove(c)
    \/ MoveStatSource(c) \/ MoveStatDest(c) \/ MoveRemove(c) \/ MoveRename(c)

(* A write or a move has checked its target and has not yet committed. *)
InWindow(c) ==
    /\ Running(c)
    /\ req[c].op \in {"write", "move"}
    /\ pc[c] \notin {"mkparents", "stat", "stat_source", "stat_dest"}
    /\ replaced[c] = Nothing

(* History: a step of c changed what another handler had checked. *)
Track(c) ==
    overlap' = [d \in Conn |-> \/ overlap[d]
                               \/ d # c /\ InWindow(d) /\ View(Target(d))' # View(Target(d))]

Terminated ==
    /\ \A c \in Conn : pc[c] \in {"done", "dead"}
    /\ UNCHANGED vars

Next == (\E c \in Conn : Step(c) /\ Track(c)) \/ Crash \/ Terminated

Spec == Init /\ [][Next]_vars
-----------------------------------------------------------------------------
PC == {"idle", "mkparents", "stat", "hash", "read_rest", "open", "write", "chmod", "rename",
       "cleanup", "mkdir", "remove", "stat_source", "stat_dest", "move", "done", "dead"}

(* Type correctness of the handlers' state and of the filesystem. *)
TypeOK ==
    /\ tree \in Tree
    /\ data \in [Inode -> Data]
    /\ pc \in [Conn -> PC]
    /\ req \in [Conn -> Requests \cup {Nothing}]
    /\ \A c \in Conn : pc[c] \notin {"idle", "dead"} => req[c] # Nothing
    /\ seen \in [Conn -> Node]
    /\ changed \in [Conn -> BOOLEAN]
    /\ nonce \in [Conn -> Nonce \cup {0}]
    /\ fd \in [Conn -> Inode \cup {Nothing}]
    /\ \A c \in Conn : pc[c] \in {"read_rest", "write"} => fd[c] # Nothing
    /\ half \in [Conn -> Data]
    /\ got \in [Conn -> Data]
    /\ reply \in [Conn -> Codes \cup {"none", "ok"}]
    /\ crashes \in 0 .. MaxCrashes
    /\ overlap \in [Conn -> BOOLEAN]
    /\ replaced \in [Conn -> Data \cup {Absent, Dir, Nothing}]

Started(c) == req[c] # Nothing

(* No connection has asked for a non-atomic fs.write. *)
NoDirectWriter == \A c \in Conn : Started(c) => ~IsDirect(c)

(* No two atomic writes have read the same nanosecond off the clock.        *)
(* Nothing in atomic_temp_path sees to it, so what depends on it says so.   *)
NoncesDistinct == \A c, d \in Conn : c # d /\ nonce[c] # 0 => nonce[c] # nonce[d]

(* fs.write --atomic: as long as every write is atomic, no path a client    *)
(* can name ever shows a partly written file, whatever else is running,     *)
(* fails or dies between two calls.                                         *)
NoTornTarget ==
    NoDirectWriter /\ NoncesDistinct =>
        \A p \in Path : IsUserPath(p) /\ IsFile(tree[p]) => data[tree[p]] \in Content

(* An fs.read, or an fs.stat that was asked for the hash of a file. *)
Reports(c) == req[c].op = "read" \/ (req[c].op = "stat" /\ req[c].hash /\ IsFile(seen[c]))

(* fs.read and the hash of fs.stat: as long as every write is atomic, a     *)
(* reader that answers has seen the whole of one version of the file, even  *)
(* when the file is replaced between its open and its last read.            *)
ReadersSeeOneVersion ==
    NoDirectWriter /\ NoncesDistinct =>
        \A c \in Conn : pc[c] = "done" /\ reply[c] = "ok" /\ Reports(c) => got[c] \in Content

(* write_atomic_file: the rename that ends a successful write puts this     *)
(* request's own content at the target, never another writer's file.        *)
AtomicCommitIsOwn ==
    [][NoncesDistinct => \A c \in Conn : pc[c] = "rename" /\ pc'[c] = "done" =>
            View(req[c].path)' = req[c].content]_vars

(* handle_fs_write and handle_fs_move: what the preconditions say of the    *)
(* node a commit replaces.                                                  *)
GuardHolds(c) ==
    /\ req[c].op = "write" /\ req[c].ifMissing => replaced[c] = Absent
    /\ req[c].op = "write" /\ req[c].ifSha # NoSha => replaced[c] = req[c].ifSha
    /\ req[c].op = "move" /\ ~req[c].overwrite => replaced[c] = Absent

(* The if_missing, if_sha256 and no-overwrite checks are made before the    *)
(* commit and not with it: a commit replaces what its precondition excludes *)
(* only when another connection changed that path in between.               *)
GuardsHoldWithoutOverlap ==
    NoncesDistinct => \A c \in Conn : Started(c) /\ replaced[c] # Nothing /\ ~overlap[c] => GuardHolds(c)

MovesDirectory(c) == Started(c) /\ req[c].op = "move" /\ \E q \in Path : Under(q, req[c].path)

(* write_atomic_file: a temporary file exists only while the write that     *)
(* created it runs, so an error at any step leaves none behind, not even    *)
(* when two writes have the same name for theirs.  A process that dies, and *)
(* an fs.move of the directory around it, do leave one.                     *)
TempsHaveAWriter ==
    crashes = 0 /\ (\A c \in Conn : ~MovesDirectory(c)) =>
        \A q \in Path : ~IsUserPath(q) /\ tree[q] # Absent =>
            \E c \in Conn : tree[q] = c /\ Running(c) /\ q = Temp(c)

(* handle_fs_move: with nobody else at work, a move that fails has not      *)
(* destroyed what it was asked to move.                                     *)
FailedMoveKeepsSource ==
    [][\A c \in Conn : /\ pc[c] = "move" /\ pc'[c] = "done" /\ reply'[c] # "ok"
                       /\ \A d \in Conn \ {c} : ~Started(d)
                       => tree[req[c].path] # Absent]_vars

-----------------------------------------------------------------------------
(* The invariant behind NoTornTarget and AtomicCommitIsOwn, which are not   *)
(* inductive: they depend on who can still write to a file.                 *)

(* A handler is only at a step of its own operation, and an atomic write    *)
(* has its temporary name from the moment it opens the file.                *)
Phases ==
    \A c \in Conn :
        /\ pc[c] = "idle" => req[c] = Nothing
        /\ pc[c] \in {"mkparents", "open", "write", "rename", "cleanup"} => req[c].op = "write"
        /\ pc[c] \in {"stat_source", "stat_dest", "move"} => req[c].op = "move"
        /\ pc[c] = "mkdir" => req[c].op = "mkdir"
        /\ pc[c] \in {"rename", "cleanup"} => req[c].atomic
        /\ pc[c] \in {"idle", "mkparents", "stat", "hash", "read_rest", "open"} => nonce[c] = 0
        /\ pc[c] \in {"write", "chmod", "rename", "cleanup"} /\ IsAtomic(c) => nonce[c] \in Nonce

(* The file at a temporary path was created by the writer with that nonce. *)
TempLinks ==
    \A q \in Path : ~IsUserPath(q) /\ tree[q] # Absent =>
        tree[q] \in Conn /\ nonce[tree[q]] = Last(q)[2]

(* The file c creates is beyond an atomic c's own reach. *)
Settled(c) == pc[c] \in {"write", "chmod", "done", "dead"} /\ (IsAtomic(c) => pc[c] = "done")

UserLinks == \A p \in Path : IsUserPath(p) /\ tree[p] \in Conn => Settled(tree[p])

(* A writer holds its own new file, or one that some path showed. *)
OpenFiles ==
    \A c \in Conn : pc[c] = "write" =>
        /\ IsAtomic(c) => fd[c] = c /\ data[c] = Empty
        /\ fd[c] \in Conn /\ fd[c] # c => Settled(fd[c])

WrittenTemps ==
    \A c \in Conn : pc[c] \in {"chmod", "rename"} /\ IsAtomic(c) => data[c] = req[c].content

WholeFiles ==
    NoDirectWriter =>
        /\ \A i \in Inode \ Conn : data[i] \in Content
        /\ \A p \in Path : IsUserPath(p) /\ IsFile(tree[p]) => data[tree[p]] \in Content

IInv ==
    /\ TypeOK /\ Phases /\ TempLinks
    /\ NoncesDistinct => UserLinks /\ OpenFiles /\ WrittenTemps /\ WholeFiles
=============================================================================
