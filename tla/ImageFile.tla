------------------------------- MODULE ImageFile -------------------------------
(* How an image's bytes take the place of the file at its path (writeFile and its *)
(* helpers, ImageSave.cpp), and how a load reads them (Image::load).  Several     *)
(* processes may save to the path and load from it; any system call may fail, a   *)
(* process may be killed between two calls, and the power may go.  The page cache *)
(* and the disk are apart: a file's bytes are on disk when it was synced, and the *)
(* changes of the directory reach it in order.                                    *)
EXTENDS Integers, Sequences

CONSTANTS Savers,      \* the saves
          Temps,       \* the temporary names there may be
          Blocks,      \* blocks in an image: a write takes one
          Linked,      \* whether the path is a symbolic link to the file
          Losses       \* bound: power losses

NoImage == "no image"
ImageFileAssumption == /\ Blocks \in Nat \ {0} /\ Losses \in Nat /\ Linked \in BOOLEAN
                       /\ Temps \cap {"path", "image"} = {} /\ NoImage \notin Savers

VARIABLES
  dir,     \* the directory: an inode for each name, or Link
  disk,    \* what of it is on disk
  log,     \* the changes that are not, in order
  inodes,  \* files: whose image, blocks written, blocks on disk
  pc, temp, ino, target,  \* each save: its place, temporary name, inode, and the name it replaces
  reader,  \* a load: the inode it opened and the blocks read, or none
  killed,  \* history: whether a process died between two calls
  held,    \* history: whose images the path held before
  losses

fileVars == <<dir, disk, log, inodes, pc, temp, ino, target, reader, killed, held, losses>>

None == 0
Link == -1
Names == {"path", "image"} \union Temps
Whole(i) == inodes[i].len = Blocks
Safe(i)  == inodes[i].synced = Blocks

-------------------------------------------------------------------------------
\* The file system

(* A change of the directory: seen at once, on disk with the log. *)
Changes(entries) ==
  /\ dir' = [n \in Names |-> IF n \in DOMAIN entries THEN entries[n] ELSE dir[n]]
  /\ log' = Append(log, entries) /\ UNCHANGED disk

Latest(at) == CHOOSE i \in at: \A j \in at: j <= i

(* The directory as the first k of them leave it. *)
OnDisk(k) == [n \in Names |-> LET at == {i \in 1 .. k: n \in DOMAIN log[i]}
                             IN IF at = {} THEN disk[n] ELSE log[Latest(at)][n]]

Goes(s, place) == pc' = [pc EXCEPT ![s] = place]

ImageName == IF Linked THEN "image" ELSE "path"
Content(d) == IF d[ImageName] = None THEN NoImage ELSE inodes[d[ImageName]].of

-------------------------------------------------------------------------------
\* A save

(* saveTarget: a link is followed, to a name where there may be no file yet. *)
Target(p) == IF dir[p] = Link THEN "image" ELSE p

(* The links must end, and what is there must be writable. *)
BeginsSave(s) ==
  /\ pc[s] = "idle" /\ target' = [target EXCEPT ![s] = Target("path")]
  /\ Goes(s, "make") \/ Goes(s, "refused")
  /\ UNCHANGED <<dir, disk, log, inodes, temp, ino, reader, killed, held, losses>>

(* makeTemporary: O_EXCL, under another name while one is taken. *)
Free == {t \in Temps: dir[t] = None}

MakesTemporary(s) ==
  /\ pc[s] = "make"
  /\ \/ \E t \in Free:
          /\ inodes' = Append(inodes, [of |-> s, len |-> 0, synced |-> 0])
          /\ Changes([n \in {t} |-> Len(inodes) + 1])
          /\ temp' = [temp EXCEPT ![s] = t] /\ ino' = [ino EXCEPT ![s] = Len(inodes) + 1]
          /\ Goes(s, "mode")
     \/ /\ Goes(s, "refused") /\ UNCHANGED <<dir, disk, log, inodes, temp, ino>>
  /\ UNCHANGED <<target, reader, killed, held, losses>>

(* fchmod: the permissions of the image it replaces. *)
Modes(s) ==
  /\ pc[s] = "mode" /\ (Goes(s, "write") \/ Goes(s, "unlink"))
  /\ UNCHANGED <<dir, disk, log, inodes, temp, ino, target, reader, killed, held, losses>>

(* writeAllBytes: a block, or an error, after which nothing more is written. *)
Writes(s) ==
  /\ pc[s] = "write"
  /\ \/ /\ inodes' = [inodes EXCEPT ![ino[s]].len = @ + 1]
        /\ Goes(s, IF inodes[ino[s]].len + 1 = Blocks THEN "sync" ELSE "write")
     \/ Goes(s, "unlink") /\ UNCHANGED inodes
  /\ UNCHANGED <<dir, disk, log, temp, ino, target, reader, killed, held, losses>>

(* syncFile. *)
SyncedNot(i) == inodes
Synced(i) == [inodes EXCEPT ![i].synced = inodes[i].len]

Syncs(s) ==
  /\ pc[s] = "sync"
  /\ (inodes' = Synced(ino[s]) /\ Goes(s, "close")) \/ (UNCHANGED inodes /\ Goes(s, "unlink"))
  /\ UNCHANGED <<dir, disk, log, temp, ino, target, reader, killed, held, losses>>

Closes(s) ==
  /\ pc[s] = "close" /\ (Goes(s, "rename") \/ Goes(s, "unlink"))
  /\ UNCHANGED <<dir, disk, log, inodes, temp, ino, target, reader, killed, held, losses>>

(* rename: the target's name means the new file, the temporary's nothing. *)
RenamedApart(s) == [n \in {target[s]} |-> IF dir[n] = None THEN dir[temp[s]] ELSE None]
Renamed(s) == [n \in {temp[s], target[s]} |-> IF n = temp[s] THEN None ELSE dir[temp[s]]]

Renames(s) ==
  /\ pc[s] = "rename"
  /\ \/ Changes(Renamed(s)) /\ held' = held \union {Content(dir)} /\ Goes(s, "directory")
     \/ Goes(s, "unlink") /\ UNCHANGED <<dir, disk, log, held>>
  /\ UNCHANGED <<inodes, temp, ino, target, reader, killed, losses>>

(* syncDirectory: it may fail, and the save has succeeded all the same. *)
SyncsDirectory(s) ==
  /\ pc[s] = "directory" /\ Goes(s, "ok")
  /\ (disk' = OnDisk(Len(log)) /\ log' = <<>>) \/ UNCHANGED <<disk, log>>
  /\ UNCHANGED <<dir, inodes, temp, ino, target, reader, killed, held, losses>>

(* A failure before the rename: the temporary file goes, if there was one. *)
Unlinked(s) == [n \in {temp[s]} |-> None]

Unlinks(s) ==
  /\ Goes(s, "failed")
  /\ \/ pc[s] = "unlink" /\ Changes(Unlinked(s))
     \/ pc[s] = "refused" /\ UNCHANGED <<dir, disk, log>>
  /\ UNCHANGED <<inodes, temp, ino, target, reader, killed, held, losses>>

-------------------------------------------------------------------------------
\* A load, faults, and the disk

Running(s) == pc[s] \notin {"idle", "ok", "failed", "dead"}

(* Image::load opens the path once and reads header, sources and body through it. *)
Opened == dir[IF dir["path"] = Link THEN "image" ELSE "path"]
Opens ==
  /\ reader = <<>> /\ Opened # None /\ reader' = <<Opened>>
  /\ UNCHANGED <<dir, disk, log, inodes, pc, temp, ino, target, killed, held, losses>>
Reads ==
  /\ reader # <<>> /\ Len(reader) <= Blocks /\ inodes[reader[1]].len >= Len(reader)
  /\ reader' = Append(reader, inodes[reader[1]].of)
  /\ UNCHANGED <<dir, disk, log, inodes, pc, temp, ino, target, killed, held, losses>>
Closed ==
  /\ Len(reader) = Blocks + 1 /\ reader' = <<>>
  /\ UNCHANGED <<dir, disk, log, inodes, pc, temp, ino, target, killed, held, losses>>

Killed(s) ==
  /\ Running(s) /\ Goes(s, "dead") /\ killed' = TRUE
  /\ UNCHANGED <<dir, disk, log, inodes, temp, ino, target, reader, held, losses>>

(* The disk catches up with the oldest change by itself. *)
Flushes ==
  /\ log # <<>> /\ disk' = OnDisk(1) /\ log' = Tail(log)
  /\ UNCHANGED <<dir, inodes, pc, temp, ino, target, reader, killed, held, losses>>

(* The power goes: the changes up to some point are there, and of a file's blocks
   those that were synced. *)
PowerGoes ==
  /\ losses < Losses /\ losses' = losses + 1
  /\ \E k \in 0 .. Len(log): dir' = OnDisk(k) /\ disk' = OnDisk(k)
  /\ log' = <<>> /\ inodes' = [i \in DOMAIN inodes |-> [inodes[i] EXCEPT !.len = inodes[i].synced]]
  /\ pc' = [s \in Savers |-> IF Running(s) THEN "dead" ELSE pc[s]]
  /\ reader' = <<>> /\ killed' = TRUE
  /\ UNCHANGED <<temp, ino, target, held>>

-------------------------------------------------------------------------------
FileInit ==
  /\ dir = [n \in Names |-> IF n = "path" /\ Linked THEN Link ELSE None]
  /\ disk = dir /\ log = <<>> /\ inodes = <<>>
  /\ pc = [s \in Savers |-> "idle"] /\ temp = [s \in Savers |-> "path"]
  /\ ino = [s \in Savers |-> None] /\ target = [s \in Savers |-> "path"]
  /\ reader = <<>> /\ killed = FALSE /\ held = {} /\ losses = 0

Step(s) == \/ BeginsSave(s) \/ MakesTemporary(s) \/ Modes(s) \/ Writes(s) \/ Syncs(s) \/ Closes(s)
           \/ Renames(s) \/ SyncsDirectory(s) \/ Unlinks(s) \/ Killed(s)

FileNext == Opens \/ Reads \/ Closed \/ Flushes \/ PowerGoes \/ \E s \in Savers: Step(s)

FileSpec == FileInit /\ [][FileNext]_fileVars

-------------------------------------------------------------------------------
\* Properties

FileTypeOK ==
  /\ \A n \in Names: dir[n] = Link \/ dir[n] \in 0 .. Len(inodes)
  /\ \A i \in DOMAIN inodes: inodes[i].of \in Savers /\ 0 <= inodes[i].synced
                             /\ inodes[i].synced <= inodes[i].len /\ inodes[i].len <= Blocks
  /\ \A s \in Savers: ino[s] \in 0 .. Len(inodes) /\ target[s] \in {"path", "image"}

(* SPEC 3.11: wherever the power goes, what is at the image's name afterwards is one whole
   image, never a part of one; a failed save leaves the old one. *)
NeverTorn ==
  \A k \in 0 .. Len(log): OnDisk(k)[ImageName] # None => Safe(OnDisk(k)[ImageName])

(* SPEC 3.11: once an image is there it is there at every moment: no step of a save leaves
   the name without one. *)
NeverGone == [][dir[ImageName] # None /\ losses' = losses => dir'[ImageName] # None]_fileVars

(* SPEC 3.11: a symbolic link at the path stays a link. *)
LinkStays == Linked => dir["path"] = Link

(* SPEC 3.11: when no process died, no save that is over left its temporary file. *)
NoLitter == ~killed => \A s \in Savers: pc[s] \in {"ok", "failed"} => \A t \in Temps: dir[t] # ino[s] \/ ino[s] = None

(* A load reads one save's image from beginning to end, whatever is saved meanwhile. *)
ReadsOne == Len(reader) > 1 => /\ Whole(reader[1])
                               /\ \A k \in 2 .. Len(reader): reader[k] = inodes[reader[1]].of

(* The saves seen from outside. *)
Call(s) == CASE pc[s] = "directory" -> "taken"
             [] pc[s] \in {"idle", "ok", "failed", "dead"} -> pc[s]
             [] OTHER -> "begun"

(* The file is replaced at one instant of each save that succeeds, and of none that fails. *)
A == INSTANCE AtomicFile WITH content <- Content(dir), past <- held, call <- [s \in Savers |-> Call(s)]
ReplacesAtOnce == A!Spec

(* What any reader, at any moment and after any crash, finds at the path. *)
FileWhole == FileTypeOK /\ NeverTorn /\ LinkStays /\ NoLitter /\ ReadsOne

(* A save replaces the image and never takes it away. *)
Replaces == ReplacesAtOnce /\ NeverGone
===============================================================================
