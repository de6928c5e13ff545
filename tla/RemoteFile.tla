----------------------------- MODULE RemoteFile -----------------------------
(***************************************************************************)
(* One file on the device, as its users see it while others write to it.   *)
(* Its path leads to an inode; what is open stays open when the path is    *)
(* given another inode or none.  A file's content is read and written in   *)
(* two parts, so that a reader can meet a writer half way.                 *)
(***************************************************************************)
EXTENDS Naturals

CONSTANTS MaxSize   \* bound: sizes are 0 .. MaxSize

Size  == 0 .. MaxSize
Part  == 0 .. 3       \* 0: nothing; 1, 2: written by others; 3: the edited text
Inode == {1, 2}

Node   == [kind : {"absent", "dir", "file"}, head : Part, tail : Part, size : Size]
Absent == [kind |-> "absent", head |-> 0, tail |-> 0, size |-> 0]
Dir    == [Absent EXCEPT !.kind = "dir"]
Content(h, t, s) == [kind |-> "file", head |-> h, tail |-> t, size |-> s]
Empty  == Content(0, 0, 0)

VARIABLES
    link,  \* the inode the path leads to, 0 for none
    ino    \* ino[i]: the content of inode i

remote == <<link, ino>>

(* What is at the path. *)
File == IF link = 0 THEN Absent ELSE ino[link]
=============================================================================
