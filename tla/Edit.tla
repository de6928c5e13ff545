-------------------------------- MODULE Edit --------------------------------
(***************************************************************************)
(* rsdb edit: the remote file's hash is remembered, the file is copied to  *)
(* a temporary directory and given to an editor, and what the editor saved *)
(* is written back if the remote file still has that hash.  A small file   *)
(* goes by fs.read and fs.write, whose handler compares the hash and       *)
(* renames; a large one is pulled, compared by another fs.stat and pushed, *)
(* which writes in place.                                                  *)
(***************************************************************************)
EXTENDS RemoteFile

CONSTANTS InlineMax   \* DEFAULT_INLINE_EDIT_MAX_BYTES, and the daemon's MAX_AGENT_FS_BYTES

VARIABLES
    epc,       \* where the command is
    away,      \* it has given up while the handler of its request goes on
    inline,    \* inline_edit
    asize,     \* the size a manifest announced
    efd,       \* the remote inode being read or written
    ehead,     \* what was read of it
    hashed,    \* the content behind original_remote_sha256
    shown,     \* history: the content the editor was given
    tmp,       \* the local copy, Absent once the directory is removed
    saved,     \* history: what the editor saved
    delivered, \* history: all of it was written to the remote file
    raced,     \* history: others changed the file since it was compared
    lost       \* history: the save replaced something the editor never showed

editVars == <<epc, away, inline, asize, efd, ehead, hashed, shown, tmp, saved, delivered,
              raced, lost>>
history  == <<saved, delivered, raced, lost>>

Init ==
    /\ epc = "stat" /\ away = FALSE /\ inline = FALSE /\ asize = 0 /\ efd = 0 /\ ehead = 0
    /\ hashed = Absent /\ shown = Absent /\ tmp = Absent /\ saved = Absent
    /\ delivered = FALSE /\ raced = FALSE /\ lost = FALSE

Ends == {"updated", "unchanged", "failed"}
-----------------------------------------------------------------------------
(* remote_fs_stat: the size, then the hash. *)
Stat ==
    /\ epc = "stat"
    /\ epc' = IF File = Absent THEN "failed" ELSE "hash"
    /\ inline' = (File.size <= InlineMax)
    /\ UNCHANGED <<remote, away, asize, efd, ehead, hashed, shown, tmp, history>>

(* The device opens the file and reads its first part, here and below. *)
OpenFile(next) ==
    IF link = 0 THEN epc' = "failed" /\ UNCHANGED <<efd, ehead>>
    ELSE epc' = next /\ efd' = link /\ ehead' = ino[link].head

(* All that was read of it. *)
ReadContent == Content(ehead, ino[efd].tail, ino[efd].size)

HashHead ==
    /\ epc = "hash" /\ OpenFile("hash_tail")
    /\ UNCHANGED <<remote, away, inline, asize, hashed, shown, tmp, history>>

HashTail ==
    /\ epc = "hash_tail" /\ epc' = "read" /\ hashed' = ReadContent
    /\ UNCHANGED <<remote, away, inline, asize, efd, ehead, shown, tmp, history>>

(* remote_fs_read, or the manifest of execute_pull. *)
ReadHead ==
    /\ epc = "read"
    /\ IF inline THEN OpenFile("read_tail") /\ UNCHANGED asize
       ELSE /\ epc' = IF File = Absent THEN "failed" ELSE "pull"
            /\ asize' = File.size /\ UNCHANGED <<efd, ehead>>
    /\ UNCHANGED <<remote, away, inline, hashed, shown, tmp, history>>

PullHead ==
    /\ epc = "pull" /\ OpenFile("read_tail")
    /\ UNCHANGED <<remote, away, inline, asize, hashed, shown, tmp, history>>

(* The content arrives, unless it is now too long for fs.read or has not    *)
(* the announced length; it is written to the temporary directory.          *)
ReadTail ==
    /\ epc = "read_tail"
    /\ IF IF inline THEN ReadContent.size <= InlineMax ELSE ReadContent.size = asize
       THEN epc' = "edit" /\ shown' = ReadContent /\ tmp' = ReadContent
       ELSE epc' = "failed" /\ UNCHANGED <<shown, tmp>>
    /\ UNCHANGED <<remote, away, inline, asize, efd, ehead, hashed, history>>

(* What the user may save. *)
Texts == {Empty} \cup {Content(3, 3, s) : s \in 1 .. MaxSize}

(* launch_editor.  It may fail after the user has saved; when nothing was   *)
(* changed the directory is removed.                                        *)
Editor ==
    /\ epc = "edit"
    /\ \/ epc' = "failed" /\ UNCHANGED <<tmp, saved>>
       \/ epc' = "unchanged" /\ tmp' = Absent /\ UNCHANGED saved
       \/ \E t \in Texts \ {shown} :
            /\ tmp' = t /\ saved' = t
            /\ epc' \in {"check", "failed"}
    /\ UNCHANGED <<remote, away, inline, asize, efd, ehead, hashed, shown, delivered, raced, lost>>

(* The remote file is hashed again: by fs.write's handler, or by another    *)
(* fs.stat.  fs.write refuses what is too long.                             *)
CheckHead ==
    /\ epc = "check"
    /\ IF inline /\ tmp.size > InlineMax THEN epc' = "failed" /\ UNCHANGED <<efd, ehead>>
       ELSE OpenFile("check_tail")
    /\ raced' = FALSE
    /\ UNCHANGED <<remote, away, inline, asize, hashed, shown, tmp, saved, delivered, lost>>

(* Mutant: only the sizes are compared. *)
CheckTailSizes ==
    /\ epc = "check_tail"
    /\ epc' = IF ReadContent.size = shown.size THEN "save" ELSE "failed"
    /\ UNCHANGED <<remote, away, inline, asize, efd, ehead, hashed, shown, tmp, history>>

CheckTail ==
    /\ epc = "check_tail"
    /\ epc' = IF ReadContent = hashed THEN "save" ELSE "failed"
    /\ UNCHANGED <<remote, away, inline, asize, efd, ehead, hashed, shown, tmp, history>>

(* Mutant: fs.write is sent without --atomic. *)
CommitInPlace ==
    /\ epc = "save" /\ inline
    /\ IF link = 0 THEN link' = 2 /\ ino' = [ino EXCEPT ![2] = tmp]
       ELSE ino' = [ino EXCEPT ![link] = tmp] /\ UNCHANGED link
    /\ lost' = (File # shown) /\ delivered' = TRUE /\ epc' = "reply"
    /\ UNCHANGED <<away, inline, asize, efd, ehead, hashed, shown, tmp, saved, raced>>

(* write_atomic_file: another inode takes the path.  It may fail before. *)
Commit ==
    /\ epc = "save" /\ inline
    /\ \/ /\ link' = 2 /\ ino' = [ino EXCEPT ![2] = tmp]
          /\ lost' = (File # shown) /\ delivered' = TRUE /\ epc' = "reply"
       \/ epc' = "failed" /\ UNCHANGED <<remote, lost, delivered>>
    /\ UNCHANGED <<away, inline, asize, efd, ehead, hashed, shown, tmp, saved, raced>>

(* execute_push: the file is truncated, or made, and written in place. *)
PushOpen ==
    /\ epc = "save" /\ ~inline
    /\ LET i == IF link = 0 THEN 2 ELSE link IN
         /\ link' = i /\ efd' = i /\ ino' = [ino EXCEPT ![i] = Empty]
    /\ lost' = (File # shown) /\ epc' = "push_head"
    /\ UNCHANGED <<away, inline, asize, ehead, hashed, shown, tmp, saved, delivered, raced>>

PushHead ==
    /\ epc = "push_head" /\ epc' = "push_tail"
    /\ ino' = [ino EXCEPT ![efd].head = tmp.head,
                              ![efd].size = IF tmp.size = 0 THEN 0 ELSE 1]
    /\ UNCHANGED <<link, away, inline, asize, efd, ehead, hashed, shown, tmp, history>>

PushTail ==
    /\ epc = "push_tail" /\ epc' = "reply"
    /\ ino' = [ino EXCEPT ![efd].tail = tmp.tail, ![efd].size = tmp.size]
    /\ delivered' = TRUE
    /\ UNCHANGED <<link, away, inline, asize, efd, ehead, hashed, shown, tmp, saved, raced, lost>>

(* The response: the temporary directory is removed. *)
Reply ==
    /\ epc = "reply"
    /\ IF away THEN epc' = "failed" /\ UNCHANGED tmp ELSE epc' = "updated" /\ tmp' = Absent
    /\ UNCHANGED <<remote, away, inline, asize, efd, ehead, hashed, shown, history>>

(* Mutant: the directory is removed when the save fails, too. *)
EditFailsRemoving ==
    /\ epc \in {"check", "check_tail"} /\ ~away
    /\ IF inline THEN away' = TRUE /\ UNCHANGED epc ELSE epc' = "failed" /\ UNCHANGED away
    /\ tmp' = Absent
    /\ UNCHANGED <<remote, inline, asize, efd, ehead, hashed, shown, history>>

(* The daemon has the request of a save. *)
Handled == epc \in {"save", "push_head", "push_tail"} \/ (inline /\ epc \in {"check", "check_tail"})

(* A connection is lost.  A handler of fs.write does not notice; one of a   *)
(* push goes on with what was on its way, and stops at its end.             *)
EditFails ==
    /\ epc \in {"stat", "hash", "hash_tail", "read", "pull", "read_tail",
                "check", "check_tail", "save", "push_head", "push_tail", "reply"}
    /\ \/ Handled /\ ~away /\ away' = TRUE /\ UNCHANGED epc
       \/ /\ IF Handled THEN ~inline ELSE ~away
          /\ epc' = "failed" /\ UNCHANGED away
    /\ UNCHANGED <<remote, inline, asize, efd, ehead, hashed, shown, tmp, history>>

Next ==
    \/ Stat \/ HashHead \/ HashTail \/ ReadHead \/ PullHead \/ ReadTail \/ Editor
    \/ CheckHead \/ CheckTail \/ Commit \/ PushOpen \/ PushHead \/ PushTail \/ Reply \/ EditFails

(* What a step of somebody else means to the edit. *)
Observe ==
    /\ raced' = (raced \/ File' # File)
    /\ UNCHANGED <<epc, away, inline, asize, efd, ehead, hashed, shown, tmp, saved, delivered, lost>>
-----------------------------------------------------------------------------
(* Type correctness of edit_command's state. *)
TypeOK ==
    /\ epc \in {"stat", "hash", "hash_tail", "read", "pull", "read_tail", "edit", "check",
                "check_tail", "save", "push_head", "push_tail", "reply"} \cup Ends
    /\ away \in BOOLEAN /\ inline \in BOOLEAN /\ asize \in Size
    /\ efd \in Inode \cup {0} /\ ehead \in Part
    /\ hashed \in Node /\ shown \in Node /\ tmp \in Node /\ saved \in Node
    /\ delivered \in BOOLEAN /\ raced \in BOOLEAN /\ lost \in BOOLEAN

(* What the editor saved is in the local copy until all of it has reached   *)
(* the device.                                                              *)
EditIsKept == saved # Absent => tmp = saved \/ delivered

(* The save replaces content the editor never showed only after a change    *)
(* that followed the comparison, or if the hash was of other content.       *)
UpdateLostNeedsRace == lost => raced \/ shown # hashed
=============================================================================
