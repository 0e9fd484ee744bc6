---------------------------- MODULE ImageFileProofs ----------------------------
(* That the file at an image's path is whole at every moment and after every    *)
(* loss of power, and that each save replaces it at one instant or not at all:  *)
(* for any number of saves, temporary names, blocks and losses.                 *)
EXTENDS ImageFile, SequenceTheorems, WellFoundedInduction, TLAPS

(* The places of a save that has its temporary file, and all of them. *)
Working == {"mode", "write", "sync", "close", "rename", "unlink"}
Places  == Working \union {"idle", "make", "refused", "directory", "ok", "failed", "dead"}

Inodes  == [of: Savers, len: 0 .. Blocks, synced: 0 .. Blocks]
Entries == UNION {[D -> Int]: D \in SUBSET Names}

(* The values of a name: what it is, what it is on disk, and what the changes
   between make it. *)
Seen(n) == {dir[n], disk[n]}
             \union {log[i][n] : i \in {j \in 1 .. Len(log): n \in DOMAIN log[j]}}

(* Whose image a value of the image's name means. *)
Of(v) == IF v = None THEN NoImage ELSE inodes[v].of

Types ==
  /\ dir \in [Names -> Int] /\ disk \in [Names -> Int] /\ log \in Seq(Entries)
  /\ inodes \in Seq(Inodes)
  /\ \A i \in 1 .. Len(inodes): inodes[i].synced <= inodes[i].len
  /\ pc \in [Savers -> Places] /\ temp \in [Savers -> Temps \union {"path"}]
  /\ ino \in [Savers -> 0 .. Len(inodes)] /\ target \in [Savers -> {"path", "image"}]
  /\ killed \in BOOLEAN /\ reader \in Seq(Int \union Savers)
  /\ losses \in Nat

(* Whatever part of the changes reaches the disk, the image's name means a file
   that was synced whole, of a save that the path has held already. *)
Ranges   == \A n \in Names: \A v \in Seen(n): v = Link \/ v \in 0 .. Len(inodes)
Durable  == \A v \in Seen(ImageName): v \in 0 .. Len(inodes) /\ (v = None \/ Safe(v))
Known    == \A v \in Seen(ImageName): Of(v) \in held \/ Of(v) = Of(dir[ImageName])
LinkOnly == Linked => \A v \in Seen("path"): v = Link

Directory == Ranges /\ Durable /\ Known /\ LinkOnly

(* A save at work has its temporary name, which means its own file; once no
   process died, the name of that file is left to none that is over. *)
Saving(s) ==
  /\ pc[s] \in Working \union {"make"} => target[s] = ImageName
  /\ pc[s] \in {"idle", "make", "refused"} => ino[s] = None
  /\ pc[s] \in Working => /\ temp[s] \in Temps /\ ino[s] # None
                          /\ dir[temp[s]] = ino[s] /\ inodes[ino[s]].of = s
  /\ pc[s] \in {"mode", "write"} => inodes[ino[s]].len < Blocks
  /\ pc[s] = "sync" => inodes[ino[s]].len = Blocks
  /\ pc[s] \in {"close", "rename"} => Safe(ino[s])
  /\ ~killed => \A t \in Temps: dir[t] = ino[s] /\ ino[s] # None
                                  => pc[s] \in Working /\ t = temp[s]

Own == \A s, r \in Savers: ino[s] = ino[r] /\ ino[s] # None => s = r

(* A load holds a whole file, which no save writes to. *)
Reading ==
  reader # <<>> => /\ reader[1] \in 1 .. Len(inodes) /\ Safe(reader[1])
                   /\ \A k \in 2 .. Len(reader): reader[k] = inodes[reader[1]].of

IInv == Types /\ Directory /\ (\A s \in Savers: Saving(s)) /\ Own /\ Reading

-------------------------------------------------------------------------------
\* The directory on disk

LEMMA NamesDiffer ==
  ASSUME ImageFileAssumption
  PROVE  /\ ImageName \in Names /\ "path" \in Names /\ "image" \in Names
         /\ ImageName \notin Temps /\ "path" \notin Temps /\ "image" \notin Temps
         /\ Temps \subseteq Names
         /\ Linked => ImageName # "path"
         /\ Blocks \in Nat \ {0} /\ Linked \in BOOLEAN
BY DEF ImageFileAssumption, ImageName, Names

(* A nonempty set of the indices up to k has a greatest one. *)
LEMMA LatestIsIn ==
  ASSUME NEW k \in Nat, NEW at, at \subseteq 1 .. k, at # {}
  PROVE  Latest(at) \in at
<1> DEFINE T == {x \in Nat: k - x \in at}
<1>1. T # {} /\ T \subseteq Nat
  <2>1. PICK i \in at: TRUE
    OBVIOUS
  <2>2. k - i \in Nat /\ k - (k - i) = i
    BY <2>1
  <2> QED
    BY <2>1, <2>2
<1>2. PICK x \in T: \A y \in T: ~(<<y, x>> \in OpToRel(<, Nat))
  <2> HIDE DEF T
  <2> QED
    BY <1>1, NatLessThanWellFounded, WFMin
<1>3. \A y \in T: ~(y < x)
  BY <1>1, <1>2 DEF OpToRel
<1>4. k - x \in at /\ \A j \in at: j <= k - x
  <2>1. ASSUME NEW j \in at PROVE j <= k - x
    <3>1. j \in 1 .. k /\ k - j \in Nat /\ k - (k - j) = j
      OBVIOUS
    <3>2. k - j \in T
      BY <3>1
    <3>3. ~(k - j < x) /\ x \in Nat
      BY <1>3, <3>2
    <3> QED
      BY <3>1, <3>3
  <2> QED
    BY <2>1
<1> QED
  BY <1>4 DEF Latest

(* The disk never has a value the name was not given. *)
LEMMA OnDiskSeen ==
  ASSUME Types, NEW k \in 0 .. Len(log), NEW n \in Names
  PROVE  OnDisk(k)[n] \in Seen(n)
<1> DEFINE at == {i \in 1 .. k: n \in DOMAIN log[i]}
<1>1. OnDisk(k)[n] = IF at = {} THEN disk[n] ELSE log[Latest(at)][n]
  BY DEF OnDisk
<1>2. CASE at = {}
  BY <1>1, <1>2 DEF Seen
<1>3. CASE at # {}
  <2>1. k \in Nat /\ Len(log) \in Nat /\ at \subseteq 1 .. k
    BY LenProperties DEF Types
  <2>2. Latest(at) \in at
    <3> HIDE DEF at
    <3> QED
      BY <1>3, <2>1, LatestIsIn
  <2>3. Latest(at) \in 1 .. Len(log) /\ n \in DOMAIN log[Latest(at)]
    BY <2>1, <2>2
  <2> HIDE DEF at
  <2> QED
    BY <1>1, <1>3, <2>3 DEF Seen
<1> QED
  BY <1>2, <1>3

LEMMA OnDiskType ==
  ASSUME IInv, ImageFileAssumption, NEW k \in 0 .. Len(log)
  PROVE  OnDisk(k) \in [Names -> Int]
<1>1. \A n \in Names: OnDisk(k)[n] \in Int
  <2>1. ASSUME NEW n \in Names PROVE OnDisk(k)[n] \in Int
    <3>1. OnDisk(k)[n] \in Seen(n) /\ Len(inodes) \in Nat
      BY OnDiskSeen, LenProperties DEF IInv, Types
    <3> QED
      BY <3>1 DEF IInv, Directory, Ranges, Link
  <2> QED
    BY <2>1
<1>2. OnDisk(k) = [n \in Names |-> OnDisk(k)[n]]
  BY DEF OnDisk
<1> QED
  BY <1>1, <1>2

LEMMA EntryOf ==
  ASSUME NEW D \in SUBSET Names, NEW e \in [D -> Int]
  PROVE  e \in Entries /\ DOMAIN e = D
BY DEF Entries

(* A change gives its names new values and takes none away. *)
LEMMA ChangesSeen ==
  ASSUME Types, NEW e \in Entries, Changes(e), NEW n \in Names
  PROVE  /\ Seen(n)' \subseteq Seen(n) \union (IF n \in DOMAIN e THEN {e[n]} ELSE {})
         /\ dir'[n] = (IF n \in DOMAIN e THEN e[n] ELSE dir[n])
         /\ dir' \in [Names -> Int] /\ log' \in Seq(Entries)
<1>1. /\ log' \in Seq(Entries) /\ Len(log') = Len(log) + 1
      /\ \A i \in 1 .. Len(log): log'[i] = log[i]
      /\ log'[Len(log) + 1] = e
  BY AppendProperties DEF Types, Changes
<1>2. /\ dir' = [m \in Names |-> IF m \in DOMAIN e THEN e[m] ELSE dir[m]]
      /\ disk' = disk
  BY DEF Changes
<1>3. \A m \in DOMAIN e: e[m] \in Int
  BY DEF Entries
<1>4. ASSUME NEW i \in 1 .. Len(log'), n \in DOMAIN log'[i]
      PROVE  log'[i][n] \in Seen(n) \union (IF n \in DOMAIN e THEN {e[n]} ELSE {})
  <2>1. Len(log) \in Nat
    BY LenProperties DEF Types
  <2>2. CASE i = Len(log) + 1
    BY <1>1, <1>4, <2>2
  <2>3. CASE i # Len(log) + 1
    BY <1>1, <1>4, <2>1, <2>3 DEF Seen
  <2> QED
    BY <2>2, <2>3
<1>5. Seen(n)' \subseteq Seen(n) \union (IF n \in DOMAIN e THEN {e[n]} ELSE {})
  BY <1>2, <1>4 DEF Seen
<1>6. dir' \in [Names -> Int]
  BY <1>2, <1>3 DEF Types
<1> QED
  BY <1>1, <1>2, <1>5, <1>6

-------------------------------------------------------------------------------
\* What a step leaves of the invariant

(* The image's name keeps its value; only temporary names get new ones. *)
LEMMA DirectoryKept ==
  ASSUME IInv, ImageFileAssumption, Len(inodes') \in Nat, Len(inodes) <= Len(inodes'),
         \A i \in 1 .. Len(inodes): inodes'[i].of = inodes[i].of /\ (Safe(i) => Safe(i)'),
         held' = held, dir'[ImageName] = dir[ImageName],
         \A n \in Names: \A v \in Seen(n)':
            v \in Seen(n) \/ (n \in Temps /\ v \in 0 .. Len(inodes'))
  PROVE  Directory'
<1>1. Len(inodes) \in Nat /\ dir[ImageName] \in Seen(ImageName)
  BY LenProperties DEF IInv, Types, Seen
<1>2. Ranges'
  BY <1>1 DEF IInv, Directory, Ranges
<1>3. ASSUME NEW v, v \in 0 .. Len(inodes) PROVE Of(v)' = Of(v)
  BY <1>1, <1>3 DEF Of, None
<1>4. \A v \in Seen(ImageName)': v \in Seen(ImageName)
  BY NamesDiffer
<1>5. \A v \in Seen(ImageName): v \in 0 .. Len(inodes) /\ (v = None \/ Safe(v))
  BY DEF IInv, Directory, Durable
<1>6. ASSUME NEW v \in Seen(ImageName)'
      PROVE  v \in 0 .. Len(inodes') /\ (v = None \/ Safe(v)')
  BY <1>1, <1>4, <1>5, <1>6 DEF None
<1>7. Durable'
  BY <1>6 DEF Durable, Safe
<1>8. ASSUME NEW v \in Seen(ImageName)'
      PROVE  Of(v)' \in held' \/ Of(v)' = Of(dir[ImageName])'
  <2>1. Of(v) \in held \/ Of(v) = Of(dir[ImageName])
    BY <1>4 DEF IInv, Directory, Known
  <2>2. Of(v)' = Of(v) /\ Of(dir[ImageName])' = Of(dir[ImageName])
    <3>1. v \in 0 .. Len(inodes) /\ dir[ImageName] \in 0 .. Len(inodes)
      BY <1>1, <1>4, <1>5
    <3> QED
      BY <1>3, <3>1 DEF Of
  <2> QED
    BY <2>1, <2>2
<1>9. Known'
  BY <1>8 DEF Known, Of
<1>10. LinkOnly'
  <2>1. "path" \in Names /\ "path" \notin Temps
    BY NamesDiffer
  <2> QED
    BY <2>1 DEF IInv, Directory, LinkOnly
<1> QED
  BY <1>2, <1>7, <1>9, <1>10 DEF Directory

LEMMA SeenSame ==
  ASSUME dir' = dir, disk' = disk, log' = log, NEW n
  PROVE  Seen(n)' = Seen(n)
BY DEF Seen

(* Nothing of the file system changes. *)
LEMMA FilesKept ==
  ASSUME IInv, ImageFileAssumption, UNCHANGED <<dir, disk, log, inodes, held>>
  PROVE  Directory'
<1>1. Len(inodes) \in Nat
  BY LenProperties DEF IInv, Types
<1>2. \A n: Seen(n)' = Seen(n)
  BY SeenSame
<1>3. \A i: Safe(i) => Safe(i)'
  BY DEF Safe
<1> QED
  BY <1>1, <1>2, <1>3, DirectoryKept

(* A save goes on to another place, with nothing else changed. *)
(* A load keeps what it holds of a file while its blocks on disk are kept. *)
LEMMA ReadingKept ==
  ASSUME IInv, reader' = reader, Len(inodes') \in Nat, Len(inodes) <= Len(inodes'),
         \A i \in 1 .. Len(inodes): inodes'[i].of = inodes[i].of /\ (Safe(i) => Safe(i)')
  PROVE  Reading'
<1>1. Len(inodes) \in Nat
  BY LenProperties DEF IInv, Types
<1>2. reader # <<>> => reader[1] \in 1 .. Len(inodes)
  BY DEF IInv, Reading
<1> QED
  BY <1>1, <1>2 DEF IInv, Reading, Safe

(* A save that a step does not touch is where it was. *)
LEMMA OthersKept ==
  ASSUME IInv, NEW r \in Savers,
         pc'[r] = pc[r], temp'[r] = temp[r], ino'[r] = ino[r], target'[r] = target[r],
         killed' = killed, ino[r] # None => inodes'[ino[r]] = inodes[ino[r]],
         pc[r] \in Working => dir'[temp[r]] = dir[temp[r]],
         \A t \in Temps: dir'[t] = ino[r] /\ ino[r] # None => dir[t] = ino[r]
  PROVE  Saving(r)'
<1>1. Saving(r)
  BY DEF IInv
<1>2. pc[r] \in Working => ino[r] # None
  BY <1>1 DEF Saving
<1>3. (pc[r] \in Working \union {"make"} => target[r] = ImageName)'
  BY <1>1 DEF Saving
<1>4. (~killed => \A t \in Temps: dir[t] = ino[r] /\ ino[r] # None
                                 => pc[r] \in Working /\ t = temp[r])'
  BY <1>1 DEF Saving
<1> QED
  BY <1>1, <1>2, <1>3, <1>4 DEF Saving, Safe, Working

(* Two saves at work have different temporary names. *)
LEMMA TempsDiffer ==
  ASSUME IInv, NEW s \in Savers, NEW r \in Savers, r # s,
         pc[s] \in Working, pc[r] \in Working
  PROVE  temp[r] # temp[s]
BY DEF IInv, Saving, Own

LEMMA GoesKeeps ==
  ASSUME IInv, ImageFileAssumption, NEW s \in Savers, NEW place \in Places,
         Goes(s, place), UNCHANGED <<dir, disk, log, inodes, temp, ino, target, held>>,
         UNCHANGED killed \/ killed' = TRUE,
         place \in {"idle", "make", "refused"} => pc[s] \in {"idle", "make", "refused"},
         place \in Working => pc[s] \in Working,
         place \in {"make"} => target[s] = ImageName,
         killed' \/ (pc[s] \in Working => place \in Working),
         place \in {"mode", "write"} => inodes[ino[s]].len < Blocks,
         place = "sync" => inodes[ino[s]].len = Blocks,
         place \in {"close", "rename"} => Safe(ino[s])
  PROVE  Directory' /\ (\A r \in Savers: Saving(r)') /\ Own'
         /\ pc' \in [Savers -> Places]
<1>1. \A r \in Savers: pc'[r] = IF r = s THEN place ELSE pc[r]
  BY DEF IInv, Types, Goes
<1>2. pc' \in [Savers -> Places]
  BY DEF IInv, Types, Goes
<1>3. ASSUME NEW r \in Savers PROVE Saving(r)'
  <2>1. Saving(r)
    BY DEF IInv
  <2>2. CASE r # s
    BY <1>1, <2>1, <2>2 DEF Saving, Safe
  <2>3. CASE r = s
    BY <1>1, <2>1, <2>3 DEF Saving, Safe, Working
  <2> QED
    BY <2>2, <2>3
<1> QED
  BY <1>2, <1>3, FilesKept DEF IInv, Own

LEMMA BeginsKeeps ==
  ASSUME IInv, ImageFileAssumption, NEW s \in Savers, BeginsSave(s)
  PROVE  IInv'
<1>1. /\ pc[s] = "idle" /\ target' = [target EXCEPT ![s] = Target("path")]
      /\ UNCHANGED <<dir, disk, log, inodes, temp, ino, reader, killed, held, losses>>
      /\ \E place \in {"make", "refused"}: pc' = [pc EXCEPT ![s] = place]
  BY DEF BeginsSave, Goes
<1>2. Target("path") = ImageName
  <2>1. dir["path"] \in Seen("path")
    BY DEF Seen
  <2>2. Linked => dir["path"] = Link
    BY <2>1 DEF IInv, Directory, LinkOnly
  <2>3. ~Linked => dir["path"] # Link
    <3>1. SUFFICES ASSUME ~Linked PROVE dir["path"] # Link
      OBVIOUS
    <3>2. dir["path"] \in 0 .. Len(inodes) /\ Len(inodes) \in Nat
      BY <2>1, <3>1, LenProperties DEF IInv, Types, Directory, Durable, ImageName
    <3> QED
      BY <3>2 DEF Link
  <2> QED
    BY <2>2, <2>3 DEF Target, ImageName
<1>3. target' \in [Savers -> {"path", "image"}] /\ pc' \in [Savers -> Places]
  BY <1>1, <1>2 DEF IInv, Types, ImageName, Places
<1>4. ASSUME NEW r \in Savers PROVE Saving(r)'
  <2>1. Saving(r)
    BY DEF IInv
  <2>2. CASE r # s
    <3>1. pc'[r] = pc[r] /\ target'[r] = target[r]
      BY <1>1, <2>2 DEF IInv, Types
    <3> QED
      BY <1>1, <2>1, <3>1 DEF Saving, Safe
  <2>3. CASE r = s
    <3>1. pc'[s] \in {"make", "refused"} /\ target'[s] = ImageName
      BY <1>1, <1>2 DEF IInv, Types
    <3>2. ino'[s] = None
      BY <1>1, <2>1, <2>3 DEF Saving
    <3> QED
      BY <1>1, <2>3, <3>1, <3>2 DEF Saving, Working
  <2> QED
    BY <2>2, <2>3
<1> QED
  BY <1>1, <1>3, <1>4, FilesKept DEF IInv, Types, Own, Reading, Safe

LEMMA ModesKeeps ==
  ASSUME IInv, ImageFileAssumption, NEW s \in Savers, Modes(s)
  PROVE  IInv'
<1>1. /\ pc[s] = "mode" /\ Saving(s)
      /\ UNCHANGED <<dir, disk, log, inodes, temp, ino, target, reader, killed, held, losses>>
  BY DEF Modes, IInv
<1>2. PICK place \in {"write", "unlink"}: Goes(s, place)
  BY DEF Modes
<1>3. Directory' /\ (\A r \in Savers: Saving(r)') /\ Own' /\ pc' \in [Savers -> Places]
  BY <1>1, <1>2, GoesKeeps DEF Saving, Working, Places
<1> QED
  BY <1>1, <1>3 DEF IInv, Types, Reading, Safe

LEMMA ClosesKeeps ==
  ASSUME IInv, ImageFileAssumption, NEW s \in Savers, Closes(s)
  PROVE  IInv'
<1>1. /\ pc[s] = "close" /\ Saving(s)
      /\ UNCHANGED <<dir, disk, log, inodes, temp, ino, target, reader, killed, held, losses>>
  BY DEF Closes, IInv
<1>2. PICK place \in {"rename", "unlink"}: Goes(s, place)
  BY DEF Closes
<1>3. Directory' /\ (\A r \in Savers: Saving(r)') /\ Own' /\ pc' \in [Savers -> Places]
  BY <1>1, <1>2, GoesKeeps DEF Saving, Working, Places
<1> QED
  BY <1>1, <1>3 DEF IInv, Types, Reading, Safe

LEMMA KilledKeeps ==
  ASSUME IInv, ImageFileAssumption, NEW s \in Savers, Killed(s)
  PROVE  IInv'
<1>1. /\ Goes(s, "dead") /\ killed' = TRUE
      /\ UNCHANGED <<dir, disk, log, inodes, temp, ino, target, reader, held, losses>>
  BY DEF Killed
<1>3. Directory' /\ (\A r \in Savers: Saving(r)') /\ Own' /\ pc' \in [Savers -> Places]
  BY <1>1, GoesKeeps DEF Working, Places
<1> QED
  BY <1>1, <1>3 DEF IInv, Types, Reading, Safe

(* What a working save's inode is. *)
LEMMA FileOfSave ==
  ASSUME IInv, NEW s \in Savers, pc[s] \in Working
  PROVE  /\ Len(inodes) \in Nat /\ ino[s] \in 1 .. Len(inodes)
         /\ inodes[ino[s]] \in Inodes /\ inodes[ino[s]].synced <= inodes[ino[s]].len
<1>1. ino[s] \in 0 .. Len(inodes) /\ ino[s] # None /\ Len(inodes) \in Nat
  BY LenProperties DEF IInv, Types, Saving
<1>2. ino[s] \in 1 .. Len(inodes)
  BY <1>1 DEF None
<1>3. inodes[ino[s]] \in Inodes
  BY <1>2, ElementOfSeq DEF IInv, Types
<1> QED
  BY <1>1, <1>2, <1>3 DEF IInv, Types

LEMMA MakesKeeps ==
  ASSUME IInv, ImageFileAssumption, NEW s \in Savers, MakesTemporary(s)
  PROVE  IInv'
<1>1. /\ pc[s] = "make" /\ UNCHANGED <<target, reader, killed, held, losses>>
      /\ Saving(s)
  BY DEF MakesTemporary, IInv
<1>2. CASE Goes(s, "refused") /\ UNCHANGED <<dir, disk, log, inodes, temp, ino>>
  <2>1. Directory' /\ (\A r \in Savers: Saving(r)') /\ Own' /\ pc' \in [Savers -> Places]
    BY <1>1, <1>2, GoesKeeps DEF Working, Places
  <2> QED
    BY <1>1, <1>2, <2>1 DEF IInv, Types, Reading, Safe
<1>3. ASSUME NEW t \in Free,
             inodes' = Append(inodes, [of |-> s, len |-> 0, synced |-> 0]),
             Changes([n \in {t} |-> Len(inodes) + 1]),
             temp' = [temp EXCEPT ![s] = t], ino' = [ino EXCEPT ![s] = Len(inodes) + 1],
             Goes(s, "mode")
      PROVE  IInv'
  <2> DEFINE new == Len(inodes) + 1
             e == [n \in {t} |-> new]
  <2>1. /\ Len(inodes) \in Nat /\ Blocks \in Nat \ {0} /\ t \in Temps /\ t \in Names
        /\ dir[t] = None /\ t # ImageName
    BY <1>3, LenProperties, NamesDiffer DEF IInv, Types, Free
  <2>2. /\ inodes' \in Seq(Inodes) /\ Len(inodes') = new
        /\ \A i \in 1 .. Len(inodes): inodes'[i] = inodes[i]
        /\ inodes'[new] = [of |-> s, len |-> 0, synced |-> 0]
    <3>1. [of |-> s, len |-> 0, synced |-> 0] \in Inodes
      BY <2>1 DEF Inodes
    <3> QED
      BY <1>3, <3>1, AppendProperties DEF IInv, Types
  <2>3. \A i \in 1 .. Len(inodes'): inodes'[i].synced <= inodes'[i].len
    <3>1. ASSUME NEW i \in 1 .. Len(inodes') PROVE inodes'[i].synced <= inodes'[i].len
      <4>1. CASE i = new
        BY <2>2, <4>1
      <4>2. CASE i # new
        <5>1. \A j \in 1 .. Len(inodes): inodes[j].synced <= inodes[j].len
          BY DEF IInv, Types
        <5>2. i \in 1 .. Len(inodes)
          BY <2>1, <2>2, <4>2
        <5> QED
          BY <2>2, <5>1, <5>2
      <4> QED
        BY <4>1, <4>2
    <3> QED
      BY <3>1
  <2>4. e \in Entries /\ DOMAIN e = {t} /\ e[t] = new
    <3>1. {t} \in SUBSET Names /\ e \in [{t} -> Int]
      BY <2>1
    <3> QED
      BY <3>1, EntryOf
  <2>5. Changes(e) /\ Types
    BY <1>3 DEF IInv
  <2> HIDE DEF e
  <2>6. \A n \in Names: /\ Seen(n)' \subseteq Seen(n) \union (IF n \in DOMAIN e THEN {e[n]} ELSE {})
                       /\ dir'[n] = IF n \in DOMAIN e THEN e[n] ELSE dir[n]
    BY <2>4, <2>5, ChangesSeen
  <2>7. dir' \in [Names -> Int] /\ log' \in Seq(Entries) /\ disk' = disk
    <3>1. dir' \in [Names -> Int] /\ log' \in Seq(Entries)
      BY <2>1, <2>4, <2>5, ChangesSeen
    <3> QED
      BY <3>1, <2>5 DEF Changes
  <2>8. /\ \A n \in Names: dir'[n] = IF n = t THEN new ELSE dir[n]
        /\ \A n \in Names: \A v \in Seen(n)': v \in Seen(n) \/ (n = t /\ v = new)
    BY <2>4, <2>6
  <2>9. /\ pc' \in [Savers -> Places] /\ temp' \in [Savers -> Temps \union {"path"}]
        /\ ino' \in [Savers -> 0 .. new]
        /\ pc'[s] = "mode" /\ temp'[s] = t /\ ino'[s] = new
        /\ \A r \in Savers: r # s => pc'[r] = pc[r] /\ temp'[r] = temp[r] /\ ino'[r] = ino[r]
    <3>1. /\ pc \in [Savers -> Places] /\ temp \in [Savers -> Temps \union {"path"}]
          /\ ino \in [Savers -> 0 .. Len(inodes)]
      BY DEF IInv, Types
    <3>2. pc' = [pc EXCEPT ![s] = "mode"] /\ "mode" \in Places
      BY <1>3 DEF Goes, Places, Working
    <3>3. \A r \in Savers: ino[r] \in 0 .. new
      BY <2>1, <3>1
    <3>4. ino' \in [Savers -> 0 .. new]
      BY <1>3, <2>1, <3>1, <3>3
    <3> QED
      BY <1>3, <2>1, <3>1, <3>2, <3>4
  <2>10. Types'
    BY <1>1, <2>2, <2>3, <2>7, <2>9 DEF IInv, Types
  <2>11. \A i \in 1 .. Len(inodes): inodes'[i].of = inodes[i].of /\ (Safe(i) => Safe(i)')
    BY <2>2 DEF Safe
  <2>12. new \in 0 .. Len(inodes') /\ Len(inodes') \in Nat /\ Len(inodes) <= Len(inodes')
    BY <2>1, <2>2
  <2>13. Directory'
    <3>1. dir'[ImageName] = dir[ImageName]
      BY <2>1, <2>8, NamesDiffer
    <3>2. \A n \in Names: \A v \in Seen(n)':
             v \in Seen(n) \/ (n \in Temps /\ v \in 0 .. Len(inodes'))
      BY <2>1, <2>8, <2>12
    <3> QED
      BY <1>1, <2>11, <2>12, <3>1, <3>2, DirectoryKept
  <2>14. Reading'
    BY <1>1, <2>11, <2>12, ReadingKept
  <2>15. \A r \in Savers: ino[r] \in 0 .. Len(inodes) /\ ino[r] # new
    BY <2>1 DEF IInv, Types
  <2>16. Own'
    <3>1. \A r, q \in Savers: ino[r] = ino[q] /\ ino[r] # None => r = q
      BY DEF IInv, Own
    <3>2. \A r, q \in Savers: ino'[r] = ino'[q] /\ ino'[r] # None => r = q
      BY <2>9, <2>15, <3>1
    <3> QED
      BY <3>2 DEF Own
  <2>17. ASSUME NEW r \in Savers PROVE Saving(r)'
    <3>1. CASE r # s
      <4>1. pc[r] \in Working => temp[r] \in Temps /\ dir[temp[r]] # None
        BY DEF IInv, Saving
      <4>2. pc[r] \in Working => dir'[temp[r]] = dir[temp[r]]
        BY <2>1, <2>8, <4>1, NamesDiffer
      <4>3. ino[r] # None => inodes'[ino[r]] = inodes[ino[r]]
        BY <2>1, <2>2, <2>15 DEF None
      <4>4. \A u \in Temps: dir'[u] = ino[r] /\ ino[r] # None => dir[u] = ino[r]
        BY <2>8, <2>15, NamesDiffer
      <4> QED
        BY <1>1, <2>9, <3>1, <4>2, <4>3, <4>4, OthersKept
    <3>2. CASE r = s
      <4>1. target'[s] = ImageName
        BY <1>1 DEF Saving
      <4>2. new # None /\ dir'[t] = new /\ inodes'[new].of = s /\ inodes'[new].len < Blocks
        BY <2>1, <2>2, <2>8 DEF None
      <4>3. \A u \in Temps: dir'[u] = new => u = t
        <5>1. ASSUME NEW u \in Temps, dir'[u] = new, u # t PROVE FALSE
          <6>1. dir[u] = new /\ dir[u] \in Seen(u) /\ u \in Names
            BY <2>8, <5>1, NamesDiffer DEF Seen
          <6>2. dir[u] = Link \/ dir[u] \in 0 .. Len(inodes)
            BY <6>1 DEF IInv, Directory, Ranges
          <6> QED
            BY <2>1, <6>1, <6>2 DEF Link
        <5> QED
          BY <5>1
      <4> QED
        BY <2>1, <2>9, <3>2, <4>1, <4>2, <4>3 DEF Saving, Working
    <3> QED
      BY <3>1, <3>2
  <2> QED
    BY <2>10, <2>13, <2>14, <2>16, <2>17 DEF IInv
<1> QED
  BY <1>2, <1>3 DEF MakesTemporary

(* A save changes its own file's blocks and goes on with it. *)
LEMMA OwnFileKeeps ==
  ASSUME IInv, ImageFileAssumption, NEW s \in Savers, pc[s] \in Working, NEW x \in Inodes,
         inodes' = [inodes EXCEPT ![ino[s]] = x], x.of = s, x.synced <= x.len,
         Safe(ino[s]) => x.synced = Blocks,
         NEW place \in Working, Goes(s, place),
         UNCHANGED <<dir, disk, log, temp, ino, target, reader, killed, held, losses>>,
         place \in {"mode", "write"} => x.len < Blocks,
         place = "sync" => x.len = Blocks,
         place \in {"close", "rename"} => x.synced = Blocks
  PROVE  IInv'
<1>1. Len(inodes) \in Nat /\ ino[s] \in 1 .. Len(inodes) /\ inodes \in Seq(Inodes)
  BY FileOfSave DEF IInv, Types
<1>2. /\ inodes' \in Seq(Inodes) /\ Len(inodes') = Len(inodes)
      /\ \A i \in 1 .. Len(inodes): inodes'[i] = IF i = ino[s] THEN x ELSE inodes[i]
  BY <1>1, ExceptSeq
<1>3. \A i \in 1 .. Len(inodes'): inodes'[i].synced <= inodes'[i].len
  <2>1. \A i \in 1 .. Len(inodes): inodes[i].synced <= inodes[i].len
    BY DEF IInv, Types
  <2> QED
    BY <1>2, <2>1
<1>4. \A i \in 1 .. Len(inodes): inodes'[i].of = inodes[i].of /\ (Safe(i) => Safe(i)')
  <2>1. inodes[ino[s]].of = s
    BY DEF IInv, Saving
  <2> QED
    BY <1>2, <2>1 DEF Safe
<1>5. place \in Places /\ \A r \in Savers: pc'[r] = IF r = s THEN place ELSE pc[r]
  BY DEF Goes, IInv, Types, Places
<1>6. Types'
  BY <1>2, <1>3, <1>5 DEF IInv, Types, Goes
<1>7. Directory'
  <2>1. \A n: Seen(n)' = Seen(n)
    BY SeenSame
  <2> QED
    BY <1>1, <1>2, <1>4, <2>1, DirectoryKept
<1>8. Reading'
  BY <1>1, <1>2, <1>4, ReadingKept
<1>9. ASSUME NEW r \in Savers PROVE Saving(r)'
  <2>1. CASE r # s
    <3>1. ino[r] \in 0 .. Len(inodes) /\ (ino[r] # None => ino[r] # ino[s])
      BY <2>1 DEF IInv, Types, Own
    <3>2. ino[r] # None => inodes'[ino[r]] = inodes[ino[r]]
      BY <1>1, <1>2, <3>1 DEF None
    <3> QED
      BY <1>5, <2>1, <3>2, OthersKept
  <2>2. CASE r = s
    <3>1. Saving(s) /\ inodes'[ino[s]] = x
      BY <1>1, <1>2 DEF IInv
    <3>2. pc'[s] = place /\ place \notin {"idle", "make", "refused"}
      BY <1>5 DEF Working
    <3> QED
      BY <2>2, <3>1, <3>2 DEF Saving, Safe
  <2> QED
    BY <2>1, <2>2
<1>10. Own'
  BY DEF IInv, Own
<1> QED
  BY <1>6, <1>7, <1>8, <1>9, <1>10 DEF IInv

LEMMA WritesKeeps ==
  ASSUME IInv, ImageFileAssumption, NEW s \in Savers, Writes(s)
  PROVE  IInv'
<1>1. /\ pc[s] = "write" /\ Saving(s) /\ Blocks \in Nat
      /\ UNCHANGED <<dir, disk, log, temp, ino, target, reader, killed, held, losses>>
  BY NamesDiffer DEF Writes, IInv
<1>2. CASE Goes(s, "unlink") /\ UNCHANGED inodes
  <2>1. Directory' /\ (\A r \in Savers: Saving(r)') /\ Own' /\ pc' \in [Savers -> Places]
    BY <1>1, <1>2, GoesKeeps DEF Working, Places
  <2> QED
    BY <1>1, <1>2, <2>1 DEF IInv, Types, Reading, Safe
<1>3. CASE /\ inodes' = [inodes EXCEPT ![ino[s]].len = @ + 1]
           /\ Goes(s, IF inodes[ino[s]].len + 1 = Blocks THEN "sync" ELSE "write")
  <2> DEFINE f == inodes[ino[s]]
             x == [f EXCEPT !.len = @ + 1]
  <2>1. f \in Inodes /\ f.synced <= f.len /\ f.len < Blocks /\ f.of = s /\ pc[s] \in Working
    BY <1>1, FileOfSave DEF Saving, Working
  <2>2. f.len + 1 \in 0 .. Blocks /\ f.synced <= f.len + 1
    BY <1>1, <2>1 DEF Inodes
  <2>3. /\ x \in Inodes /\ x.of = s /\ x.synced <= x.len /\ x.synced = f.synced
        /\ x.len = f.len + 1
    BY <2>1, <2>2 DEF Inodes
  <2>4. inodes' = [inodes EXCEPT ![ino[s]] = x]
    BY <1>3
  <2>5. f.len + 1 = Blocks \/ f.len + 1 < Blocks
    BY <1>1, <2>2
  <2>6. Safe(ino[s]) => x.synced = Blocks
    BY <2>3 DEF Safe
  <2> HIDE DEF x
  <2>7. CASE f.len + 1 = Blocks
    <3>1. Goes(s, "sync") /\ "sync" \in Working
      BY <1>3, <2>7 DEF Working
    <3> HIDE DEF f
    <3> QED
      BY <1>1, <2>1, <2>3, <2>4, <2>6, <2>7, <3>1, OwnFileKeeps
  <2>8. CASE f.len + 1 < Blocks
    <3>1. Goes(s, "write") /\ "write" \in Working
      BY <1>1, <1>3, <2>2, <2>8 DEF Working
    <3> HIDE DEF f
    <3> QED
      BY <1>1, <2>1, <2>3, <2>4, <2>6, <2>8, <3>1, OwnFileKeeps
  <2> QED
    BY <2>5, <2>7, <2>8
<1> QED
  BY <1>1, <1>2, <1>3 DEF Writes

LEMMA SyncsKeeps ==
  ASSUME IInv, ImageFileAssumption, NEW s \in Savers, Syncs(s)
  PROVE  IInv'
<1>1. /\ pc[s] = "sync" /\ Saving(s) /\ Blocks \in Nat
      /\ UNCHANGED <<dir, disk, log, temp, ino, target, reader, killed, held, losses>>
  BY NamesDiffer DEF Syncs, IInv
<1>2. CASE Goes(s, "unlink") /\ UNCHANGED inodes
  <2>1. Directory' /\ (\A r \in Savers: Saving(r)') /\ Own' /\ pc' \in [Savers -> Places]
    BY <1>1, <1>2, GoesKeeps DEF Working, Places
  <2> QED
    BY <1>1, <1>2, <2>1 DEF IInv, Types, Reading, Safe
<1>3. CASE inodes' = Synced(ino[s]) /\ Goes(s, "close")
  <2> DEFINE f == inodes[ino[s]]
             x == [f EXCEPT !.synced = f.len]
  <2>1. f \in Inodes /\ f.len = Blocks /\ f.of = s /\ pc[s] \in Working
    BY <1>1, FileOfSave DEF Saving, Working
  <2>2. f.len \in 0 .. Blocks
    BY <2>1 DEF Inodes
  <2>3. /\ x \in Inodes /\ x.of = s /\ x.synced = Blocks /\ x.len = Blocks
    BY <2>1, <2>2 DEF Inodes
  <2>4. inodes' = [inodes EXCEPT ![ino[s]] = x]
    BY <1>3 DEF Synced
  <2>5. x.synced <= x.len /\ "close" \in Working
    BY <1>1, <2>3 DEF Working
  <2> HIDE DEF x, f
  <2> QED
    BY <1>1, <1>3, <2>1, <2>3, <2>4, <2>5, OwnFileKeeps
<1> QED
  BY <1>1, <1>2, <1>3 DEF Syncs

(* What a rename gives the two names. *)
LEMMA RenamesEntry ==
  ASSUME IInv, ImageFileAssumption, NEW s \in Savers, pc[s] = "rename", Changes(Renamed(s))
  PROVE  /\ temp[s] \in Temps /\ target[s] = ImageName /\ temp[s] # ImageName
         /\ ino[s] \in 1 .. Len(inodes) /\ Safe(ino[s]) /\ inodes[ino[s]].of = s
         /\ dir' \in [Names -> Int] /\ log' \in Seq(Entries) /\ disk' = disk
         /\ \A n \in Names: dir'[n] = IF n = temp[s] THEN None
                                       ELSE IF n = ImageName THEN ino[s] ELSE dir[n]
         /\ \A n \in Names: \A v \in Seen(n)':
               \/ v \in Seen(n) \/ (n = temp[s] /\ v = None) \/ (n = ImageName /\ v = ino[s])
<1> DEFINE e == Renamed(s)
<1>1. /\ temp[s] \in Temps /\ target[s] = ImageName /\ dir[temp[s]] = ino[s]
      /\ Safe(ino[s]) /\ inodes[ino[s]].of = s /\ pc[s] \in Working
  BY DEF IInv, Saving, Working
<1>2. temp[s] # ImageName /\ ino[s] \in 1 .. Len(inodes) /\ Len(inodes) \in Nat
  BY <1>1, FileOfSave, NamesDiffer
<1>3. e \in Entries /\ DOMAIN e = {temp[s], ImageName} /\ e[temp[s]] = None
      /\ e[ImageName] = ino[s]
  <2>1. e = [n \in {temp[s], ImageName} |-> IF n = temp[s] THEN None ELSE ino[s]]
    BY <1>1 DEF Renamed
  <2>2. {temp[s], ImageName} \in SUBSET Names
    BY <1>1, NamesDiffer
  <2>3. e \in [{temp[s], ImageName} -> Int]
    BY <1>2, <2>1 DEF None
  <2> HIDE DEF e
  <2>4. e \in Entries
    BY <2>2, <2>3, EntryOf
  <2> QED
    BY <1>2, <2>1, <2>4
<1>4. Changes(e) /\ Types
  BY DEF IInv
<1> HIDE DEF e
<1>5. \A n \in Names: /\ Seen(n)' \subseteq Seen(n) \union (IF n \in DOMAIN e THEN {e[n]} ELSE {})
                     /\ dir'[n] = IF n \in DOMAIN e THEN e[n] ELSE dir[n]
  BY <1>3, <1>4, ChangesSeen
<1>6. dir' \in [Names -> Int] /\ log' \in Seq(Entries) /\ disk' = disk
  <2>1. dir' \in [Names -> Int] /\ log' \in Seq(Entries)
    BY <1>3, <1>4, ChangesSeen, NamesDiffer
  <2> QED
    BY <1>4, <2>1 DEF Changes
<1>7. \A n \in Names: dir'[n] = IF n = temp[s] THEN None
                                ELSE IF n = ImageName THEN ino[s] ELSE dir[n]
  BY <1>3, <1>5
<1>8. \A n \in Names: \A v \in Seen(n)':
               \/ v \in Seen(n) \/ (n = temp[s] /\ v = None) \/ (n = ImageName /\ v = ino[s])
  BY <1>3, <1>5
<1> QED
  BY <1>1, <1>2, <1>6, <1>7, <1>8

LEMMA RenamesKeeps ==
  ASSUME IInv, ImageFileAssumption, NEW s \in Savers, Renames(s)
  PROVE  IInv'
<1>1. /\ pc[s] = "rename" /\ Saving(s) /\ pc[s] \in Working
      /\ UNCHANGED <<inodes, temp, ino, target, reader, killed, losses>>
  BY DEF Renames, IInv, Working
<1>2. CASE Goes(s, "unlink") /\ UNCHANGED <<dir, disk, log, held>>
  <2>1. Directory' /\ (\A r \in Savers: Saving(r)') /\ Own' /\ pc' \in [Savers -> Places]
    BY <1>1, <1>2, GoesKeeps DEF Working, Places
  <2> QED
    BY <1>1, <1>2, <2>1 DEF IInv, Types, Reading, Safe
<1>3. CASE Changes(Renamed(s)) /\ held' = held \union {Content(dir)} /\ Goes(s, "directory")
  <2>1. /\ temp[s] \in Temps /\ target[s] = ImageName /\ temp[s] # ImageName
        /\ ino[s] \in 1 .. Len(inodes) /\ Safe(ino[s]) /\ inodes[ino[s]].of = s
    BY <1>1, <1>3, RenamesEntry
  <2>2. dir' \in [Names -> Int] /\ log' \in Seq(Entries) /\ disk' = disk
    BY <1>1, <1>3, RenamesEntry
  <2>3. \A n \in Names: dir'[n] = IF n = temp[s] THEN None
                                  ELSE IF n = ImageName THEN ino[s] ELSE dir[n]
    BY <1>1, <1>3, RenamesEntry
  <2>4. \A n \in Names: \A v \in Seen(n)':
               \/ v \in Seen(n) \/ (n = temp[s] /\ v = None) \/ (n = ImageName /\ v = ino[s])
    BY <1>1, <1>3, RenamesEntry
  <2>5. Len(inodes) \in Nat /\ "path" \notin Temps /\ ImageName \notin Temps /\ ImageName \in Names
        /\ "path" \in Names /\ (Linked => ImageName # "path") /\ Temps \subseteq Names
    BY NamesDiffer, LenProperties DEF IInv, Types
  <2>6. \A r \in Savers: pc'[r] = IF r = s THEN "directory" ELSE pc[r]
    BY <1>3 DEF IInv, Types, Goes
  <2>7. Types'
    <3>1. pc' \in [Savers -> Places]
      BY <1>3 DEF IInv, Types, Goes, Places
    <3> QED
      BY <1>1, <2>2, <3>1 DEF IInv, Types
  <2>8. Ranges'
    BY <1>1, <2>1, <2>4, <2>5 DEF IInv, Directory, Ranges, None
  <2>9. Durable'
    <3>1. \A v \in Seen(ImageName)': v \in Seen(ImageName) \/ v = ino[s]
      BY <2>1, <2>4, <2>5
    <3>2. \A v \in Seen(ImageName): v \in 0 .. Len(inodes) /\ (v = None \/ Safe(v))
      BY DEF IInv, Directory, Durable
    <3>3. ASSUME NEW v \in Seen(ImageName)'
          PROVE  v \in 0 .. Len(inodes') /\ (v = None \/ Safe(v)')
      BY <1>1, <2>1, <2>5, <3>1, <3>2, <3>3 DEF Safe
    <3> QED
      BY <3>3 DEF Durable, Safe
  <2>10. Known'
    <3>1. Content(dir) = Of(dir[ImageName]) /\ dir'[ImageName] = ino[s]
      BY <2>1, <2>3, <2>5 DEF Content, Of
    <3>2. \A v \in Seen(ImageName): Of(v) \in held \/ Of(v) = Of(dir[ImageName])
      BY DEF IInv, Directory, Known
    <3>3. \A v \in Seen(ImageName)': v \in Seen(ImageName) \/ v = ino[s]
      BY <2>1, <2>4, <2>5
    <3>4. \A v: Of(v)' = Of(v)
      BY <1>1 DEF Of
    <3>5. ASSUME NEW v \in Seen(ImageName)'
          PROVE  Of(v)' \in held' \/ Of(v)' = Of(dir[ImageName])'
      <4>1. CASE v = ino[s]
        BY <3>1, <4>1
      <4>2. CASE v \in Seen(ImageName)
        BY <1>3, <3>1, <3>2, <3>4, <4>2
      <4> QED
        BY <3>3, <4>1, <4>2
    <3> QED
      BY <3>5 DEF Known, Of
  <2>11. LinkOnly'
    <3>1. Linked => \A v \in Seen("path")': v \in Seen("path")
      BY <2>1, <2>4, <2>5
    <3> QED
      BY <3>1 DEF IInv, Directory, LinkOnly
  <2>12. Reading' /\ Own'
    BY <1>1 DEF IInv, Reading, Own, Safe
  <2>13. ASSUME NEW r \in Savers PROVE Saving(r)'
    <3>1. ino[s] # None /\ \A t \in Temps: dir'[t] = IF t = temp[s] THEN None ELSE dir[t]
      BY <2>1, <2>3, <2>5 DEF None
    <3>2. CASE r # s
      <4>1. pc[r] \in Working => temp[r] \in Temps /\ temp[r] # temp[s]
        BY <1>1, <3>2, TempsDiffer DEF IInv, Saving
      <4>2. pc[r] \in Working => dir'[temp[r]] = dir[temp[r]]
        BY <3>1, <4>1
      <4>3. \A t \in Temps: dir'[t] = ino[r] /\ ino[r] # None => dir[t] = ino[r]
        BY <3>1
      <4> QED
        BY <1>1, <2>6, <3>2, <4>2, <4>3, OthersKept
    <3>3. CASE r = s
      <4>1. pc'[s] = "directory"
        BY <2>6
      <4>2. ~killed' => \A t \in Temps: ~(dir'[t] = ino[s])
        BY <1>1, <3>1 DEF Saving
      <4> QED
        BY <1>1, <3>3, <4>1, <4>2 DEF Saving, Working
    <3> QED
      BY <3>2, <3>3
  <2> QED
    BY <2>7, <2>8, <2>9, <2>10, <2>11, <2>12, <2>13 DEF IInv, Directory
<1> QED
  BY <1>2, <1>3 DEF Renames

LEMMA UnlinksKeeps ==
  ASSUME IInv, ImageFileAssumption, NEW s \in Savers, Unlinks(s)
  PROVE  IInv'
<1>1. /\ Saving(s) /\ Goes(s, "failed")
      /\ UNCHANGED <<inodes, temp, ino, target, reader, killed, held, losses>>
  BY DEF Unlinks, IInv
<1>2. CASE pc[s] = "refused" /\ UNCHANGED <<dir, disk, log>>
  <2>1. Directory' /\ (\A r \in Savers: Saving(r)') /\ Own' /\ pc' \in [Savers -> Places]
    BY <1>1, <1>2, GoesKeeps DEF Working, Places
  <2> QED
    BY <1>1, <1>2, <2>1 DEF IInv, Types, Reading, Safe
<1>3. CASE pc[s] = "unlink" /\ Changes(Unlinked(s))
  <2> DEFINE e == Unlinked(s)
  <2>1. pc[s] \in Working /\ temp[s] \in Temps /\ ino[s] # None
    BY <1>1, <1>3 DEF Saving, Working
  <2>2. Len(inodes) \in Nat /\ ImageName \notin Temps /\ ImageName \in Names
        /\ "path" \notin Temps /\ Temps \subseteq Names
    BY NamesDiffer, LenProperties DEF IInv, Types
  <2>3. e \in Entries /\ DOMAIN e = {temp[s]} /\ e[temp[s]] = None
    <3>1. {temp[s]} \in SUBSET Names /\ e \in [{temp[s]} -> Int] /\ e[temp[s]] = None
      BY <2>1, <2>2 DEF Unlinked, None
    <3> HIDE DEF e
    <3> QED
      BY <3>1, EntryOf
  <2>4. Changes(e) /\ Types
    BY <1>3 DEF IInv
  <2> HIDE DEF e
  <2>5. \A n \in Names: /\ Seen(n)' \subseteq Seen(n) \union (IF n \in DOMAIN e THEN {e[n]} ELSE {})
                       /\ dir'[n] = IF n \in DOMAIN e THEN e[n] ELSE dir[n]
    BY <2>3, <2>4, ChangesSeen
  <2>6. dir' \in [Names -> Int] /\ log' \in Seq(Entries) /\ disk' = disk
    <3>1. dir' \in [Names -> Int] /\ log' \in Seq(Entries)
      BY <2>2, <2>3, <2>4, ChangesSeen
    <3> QED
      BY <2>4, <3>1 DEF Changes
  <2>7. /\ \A n \in Names: dir'[n] = IF n = temp[s] THEN None ELSE dir[n]
        /\ \A n \in Names: \A v \in Seen(n)': v \in Seen(n) \/ (n \in Temps /\ v = None)
    BY <2>1, <2>3, <2>5
  <2>8. \A r \in Savers: pc'[r] = IF r = s THEN "failed" ELSE pc[r]
    BY <1>1 DEF IInv, Types, Goes
  <2>9. Types'
    <3>1. pc' \in [Savers -> Places]
      BY <1>1 DEF IInv, Types, Goes, Places
    <3> QED
      BY <1>1, <2>6, <3>1 DEF IInv, Types
  <2>10. Directory'
    <3>1. dir'[ImageName] = dir[ImageName]
      BY <2>1, <2>2, <2>7
    <3>2. \A n \in Names: \A v \in Seen(n)':
             v \in Seen(n) \/ (n \in Temps /\ v \in 0 .. Len(inodes'))
      BY <1>1, <2>2, <2>7 DEF None
    <3>3. \A i: Safe(i) => Safe(i)'
      BY <1>1 DEF Safe
    <3> QED
      BY <1>1, <2>2, <3>1, <3>2, <3>3, DirectoryKept
  <2>11. Reading' /\ Own'
    BY <1>1 DEF IInv, Reading, Own, Safe
  <2>12. ASSUME NEW r \in Savers PROVE Saving(r)'
    <3>1. \A t \in Temps: dir'[t] = IF t = temp[s] THEN None ELSE dir[t]
      BY <2>2, <2>7
    <3>2. CASE r # s
      <4>1. pc[r] \in Working => temp[r] \in Temps /\ temp[r] # temp[s]
        BY <2>1, <3>2, TempsDiffer DEF IInv, Saving
      <4>2. pc[r] \in Working => dir'[temp[r]] = dir[temp[r]]
        BY <3>1, <4>1
      <4>3. \A t \in Temps: dir'[t] = ino[r] /\ ino[r] # None => dir[t] = ino[r]
        BY <3>1
      <4> QED
        BY <1>1, <2>8, <3>2, <4>2, <4>3, OthersKept
    <3>3. CASE r = s
      <4>1. pc'[s] = "failed"
        BY <2>8
      <4>2. ~killed' => \A t \in Temps: ~(dir'[t] = ino[s])
        BY <1>1, <2>1, <3>1 DEF Saving
      <4> QED
        BY <1>1, <3>3, <4>1, <4>2 DEF Saving, Working
    <3> QED
      BY <3>2, <3>3
  <2> QED
    BY <2>9, <2>10, <2>11, <2>12 DEF IInv
<1> QED
  BY <1>2, <1>3 DEF Unlinks

(* The disk catches up: what is seen of a name was seen before. *)
LEMMA CatchesUp ==
  ASSUME IInv, ImageFileAssumption, NEW k \in 0 .. Len(log), disk' = OnDisk(k),
         UNCHANGED <<dir, inodes, held>>, log' \in Seq(Entries),
         \A i \in 1 .. Len(log'): \E j \in 1 .. Len(log): log'[i] = log[j]
  PROVE  Directory' /\ disk' \in [Names -> Int]
<1>1. disk' \in [Names -> Int]
  BY OnDiskType
<1>2. Types /\ Len(inodes) \in Nat
  BY LenProperties DEF IInv, Types
<1>3. ASSUME NEW n \in Names, NEW v \in Seen(n)' PROVE v \in Seen(n)
  <2>1. disk'[n] \in Seen(n)
    BY <1>2, OnDiskSeen
  <2>2. \/ v = dir[n] \/ v = disk'[n]
        \/ \E i \in 1 .. Len(log'): n \in DOMAIN log'[i] /\ v = log'[i][n]
    BY <1>3 DEF Seen
  <2>3. ASSUME NEW i \in 1 .. Len(log'), n \in DOMAIN log'[i], v = log'[i][n]
        PROVE  v \in Seen(n)
    <3>1. PICK j \in 1 .. Len(log): log'[i] = log[j]
      OBVIOUS
    <3> QED
      BY <2>3, <3>1 DEF Seen
  <2>4. dir[n] \in Seen(n)
    BY DEF Seen
  <2> HIDE DEF Seen
  <2> QED
    BY <2>1, <2>2, <2>3, <2>4
<1>4. \A i: Safe(i) => Safe(i)'
  BY DEF Safe
<1> QED
  BY <1>1, <1>2, <1>3, <1>4, DirectoryKept

LEMMA SyncsDirectoryKeeps ==
  ASSUME IInv, ImageFileAssumption, NEW s \in Savers, SyncsDirectory(s)
  PROVE  IInv'
<1>1. /\ pc[s] = "directory" /\ Saving(s) /\ Goes(s, "ok")
      /\ UNCHANGED <<dir, inodes, temp, ino, target, reader, killed, held, losses>>
      /\ (disk' = OnDisk(Len(log)) /\ log' = <<>>) \/ UNCHANGED <<disk, log>>
  BY DEF SyncsDirectory, IInv
<1>2. CASE UNCHANGED <<disk, log>>
  <2>1. Directory' /\ (\A r \in Savers: Saving(r)') /\ Own' /\ pc' \in [Savers -> Places]
    BY <1>1, <1>2, GoesKeeps DEF Working, Places
  <2> QED
    BY <1>1, <1>2, <2>1 DEF IInv, Types, Reading, Safe
<1>3. CASE disk' = OnDisk(Len(log)) /\ log' = <<>>
  <2>1. Len(log) \in 0 .. Len(log) /\ log' \in Seq(Entries) /\ Len(log') = 0
    BY <1>3, LenProperties DEF IInv, Types
  <2>2. Directory' /\ disk' \in [Names -> Int]
    BY <1>1, <1>3, <2>1, CatchesUp
  <2>3. \A r \in Savers: pc'[r] = IF r = s THEN "ok" ELSE pc[r]
    BY <1>1 DEF IInv, Types, Goes
  <2>4. pc' \in [Savers -> Places]
    BY <1>1 DEF IInv, Types, Goes, Places
  <2>5. ASSUME NEW r \in Savers PROVE Saving(r)'
    <3>1. CASE r # s
      BY <1>1, <2>3, <3>1, OthersKept
    <3>2. CASE r = s
      BY <1>1, <2>3, <3>2 DEF Saving, Working
    <3> QED
      BY <3>1, <3>2
  <2> QED
    BY <1>1, <2>1, <2>2, <2>4, <2>5 DEF IInv, Types, Reading, Own, Safe
<1> QED
  BY <1>1, <1>2, <1>3

LEMMA FlushesKeeps ==
  ASSUME IInv, ImageFileAssumption, Flushes
  PROVE  IInv'
<1>1. /\ log # <<>> /\ disk' = OnDisk(1) /\ log' = Tail(log)
      /\ UNCHANGED <<dir, inodes, pc, temp, ino, target, reader, killed, held, losses>>
  BY DEF Flushes
<1>2. log \in Seq(Entries)
  BY DEF IInv, Types
<1>3. /\ 1 \in 0 .. Len(log) /\ log' \in Seq(Entries)
      /\ \A i \in 1 .. Len(log'): \E j \in 1 .. Len(log): log'[i] = log[j]
  <2>1. Len(log) \in Nat /\ Len(log) # 0
    BY <1>1, <1>2, LenProperties, EmptySeq
  <2>2. /\ log' \in Seq(Entries) /\ Len(log') = Len(log) - 1
        /\ \A i \in 1 .. Len(log'): log'[i] = log[i + 1]
    BY <1>1, <1>2, HeadTailProperties
  <2>3. \A i \in 1 .. Len(log'): i + 1 \in 1 .. Len(log)
    BY <2>1, <2>2
  <2> QED
    BY <2>1, <2>2, <2>3
<1>4. Directory' /\ disk' \in [Names -> Int]
  BY <1>1, <1>3, CatchesUp
<1>5. ASSUME NEW r \in Savers PROVE Saving(r)'
  BY <1>1, OthersKept
<1> QED
  BY <1>1, <1>3, <1>4, <1>5 DEF IInv, Types, Reading, Own, Safe

LEMMA SameRange ==
  ASSUME NEW m \in Nat, NEW n \in Nat, 1 .. m = 1 .. n
  PROVE  m = n
<1>1. m \in 1 .. n \/ m = 0
  OBVIOUS
<1>2. n \in 1 .. m \/ n = 0
  OBVIOUS
<1> QED
  BY <1>1, <1>2

(* What the power leaves. *)
LEMMA PowerGoesKeeps ==
  ASSUME IInv, ImageFileAssumption, PowerGoes
  PROVE  IInv'
<1>1. /\ losses' = losses + 1 /\ log' = <<>>
      /\ inodes' = [i \in DOMAIN inodes |-> [inodes[i] EXCEPT !.len = inodes[i].synced]]
      /\ pc' = [s \in Savers |-> IF Running(s) THEN "dead" ELSE pc[s]]
      /\ reader' = <<>> /\ killed' = TRUE /\ UNCHANGED <<temp, ino, target, held>>
  BY DEF PowerGoes
<1>2. PICK k \in 0 .. Len(log): dir' = OnDisk(k) /\ disk' = OnDisk(k)
  BY DEF PowerGoes
<1>3. dir' \in [Names -> Int] /\ disk' \in [Names -> Int]
  BY <1>2, OnDiskType
<1>4. Types /\ inodes \in Seq(Inodes) /\ Len(inodes) \in Nat /\ DOMAIN inodes = 1 .. Len(inodes)
  BY LenProperties DEF IInv, Types
<1>5. /\ \A i \in 1 .. Len(inodes): /\ inodes[i] \in Inodes
                                    /\ inodes'[i] = [inodes[i] EXCEPT !.len = inodes[i].synced]
      /\ DOMAIN inodes' = 1 .. Len(inodes)
  BY <1>1, <1>4, ElementOfSeq
<1>6. \A i \in 1 .. Len(inodes): /\ inodes'[i] \in Inodes /\ inodes'[i].of = inodes[i].of
                                /\ inodes'[i].synced = inodes[i].synced
                                /\ inodes'[i].len = inodes[i].synced
  BY <1>5 DEF Inodes
<1>7. inodes' \in Seq(Inodes) /\ Len(inodes') = Len(inodes)
  <2>1. inodes' \in [1 .. Len(inodes) -> Inodes]
    BY <1>1, <1>4, <1>6
  <2>2. inodes' \in Seq(Inodes)
    BY <1>4, <2>1, SeqDef
  <2>3. Len(inodes') \in Nat /\ DOMAIN inodes' = 1 .. Len(inodes')
    BY <2>2, LenProperties
  <2>4. 1 .. Len(inodes) = 1 .. Len(inodes')
    BY <1>5, <2>3
  <2>5. \A m, n \in Nat: 1 .. m = 1 .. n => m = n
    BY SameRange
  <2> QED
    BY <1>4, <2>2, <2>3, <2>4, <2>5
<1>8. \A r \in Savers: pc'[r] = IF Running(r) THEN "dead" ELSE pc[r]
  BY <1>1
<1>9. Types'
  <2>1. pc' \in [Savers -> Places]
    BY <1>1 DEF IInv, Types, Places
  <2>2. log' \in Seq(Entries) /\ reader' \in Seq(Int \union Savers)
    BY <1>1, EmptySeq
  <2>3. losses' \in Nat
    BY <1>1 DEF IInv, Types
  <2>4. \A i \in 1 .. Len(inodes'): inodes'[i].synced <= inodes'[i].len
    <3>1. ASSUME NEW i \in 1 .. Len(inodes) PROVE inodes'[i].synced <= inodes'[i].len
      <4>1. inodes'[i].synced = inodes'[i].len /\ inodes'[i].synced \in 0 .. Blocks
        BY <1>6 DEF Inodes
      <4>2. Blocks \in Nat
        BY NamesDiffer
      <4> QED
        BY <4>1, <4>2
    <3> QED
      BY <1>7, <3>1
  <2> QED
    BY <1>1, <1>3, <1>7, <2>1, <2>2, <2>3, <2>4 DEF IInv, Types
<1>10. ASSUME NEW n \in Names, NEW v \in Seen(n)'
       PROVE  v \in Seen(n) /\ v = dir'[n]
  <2>1. Len(log') = 0
    BY <1>1, EmptySeq
  <2>2. {j \in 1 .. Len(log'): n \in DOMAIN log'[j]} = {}
    BY <2>1
  <2>3. v = dir'[n] /\ dir'[n] = OnDisk(k)[n]
    BY <1>2, <1>10, <2>2 DEF Seen
  <2> QED
    BY <1>4, <2>3, OnDiskSeen
<1>11. Ranges'
  BY <1>7, <1>10 DEF IInv, Directory, Ranges
<1>12. ImageName \in Names /\ "path" \in Names
  BY NamesDiffer
<1>13. Durable'
  <2>1. \A v \in Seen(ImageName): v \in 0 .. Len(inodes) /\ (v = None \/ Safe(v))
    BY DEF IInv, Directory, Durable
  <2>2. \A v \in 1 .. Len(inodes): Safe(v) => Safe(v)'
    BY <1>6 DEF Safe
  <2>3. ASSUME NEW v \in Seen(ImageName)'
        PROVE  v \in 0 .. Len(inodes') /\ (v = None \/ Safe(v)')
    <3>1. v \in 0 .. Len(inodes) /\ (v = None \/ Safe(v))
      BY <1>10, <1>12, <2>1
    <3>2. v # None => v \in 1 .. Len(inodes)
      BY <1>4, <3>1 DEF None
    <3> QED
      BY <1>7, <2>2, <3>1, <3>2
  <2> QED
    BY <2>3 DEF Durable, Safe
<1>14. Known'
  <2>1. ASSUME NEW v \in Seen(ImageName)' PROVE Of(v)' = Of(dir[ImageName])'
    BY <1>10, <1>12
  <2> QED
    BY <2>1 DEF Known, Of
<1>15. LinkOnly'
  BY <1>10, <1>12 DEF IInv, Directory, LinkOnly
<1>16. ASSUME NEW r \in Savers PROVE Saving(r)'
  <2>1. pc'[r] \in {"idle", "ok", "failed", "dead"} /\ (pc'[r] = "idle" => pc[r] = "idle")
    BY <1>8 DEF Running
  <2>2. pc'[r] = "idle" => ino'[r] = None
    BY <1>1, <2>1 DEF IInv, Saving
  <2> QED
    BY <1>1, <2>1, <2>2 DEF Saving, Working
<1>17. Own' /\ Reading'
  BY <1>1 DEF IInv, Own, Reading
<1> QED
  BY <1>9, <1>11, <1>13, <1>14, <1>15, <1>16, <1>17 DEF IInv, Directory

(* What a load opens is the image's file. *)
LEMMA OpenedIsImage ==
  ASSUME IInv, ImageFileAssumption
  PROVE  Opened = dir[ImageName] /\ dir[ImageName] \in Seen(ImageName)
<1>1. dir["path"] \in Seen("path") /\ dir[ImageName] \in Seen(ImageName)
  BY DEF Seen
<1>2. CASE Linked
  BY <1>1, <1>2 DEF IInv, Directory, LinkOnly, Opened, ImageName
<1>3. CASE ~Linked
  <2>1. dir["path"] \in 0 .. Len(inodes) /\ Len(inodes) \in Nat
    BY <1>1, <1>3, LenProperties DEF IInv, Types, Directory, Durable, ImageName
  <2>2. dir["path"] # Link
    BY <2>1 DEF Link
  <2> QED
    BY <1>1, <1>3, <2>2 DEF Opened, ImageName
<1> QED
  BY <1>2, <1>3

LEMMA LoadKeeps ==
  ASSUME IInv, ImageFileAssumption, Opens \/ Reads \/ Closed
  PROVE  IInv'
<1>1. UNCHANGED <<dir, disk, log, inodes, pc, temp, ino, target, killed, held, losses>>
  BY DEF Opens, Reads, Closed
<1>2. Directory' /\ Own'
  BY <1>1, FilesKept DEF IInv, Own
<1>3. ASSUME NEW r \in Savers PROVE Saving(r)'
  BY <1>1, OthersKept
<1>4. Len(inodes) \in Nat /\ reader \in Seq(Int \union Savers)
  BY LenProperties DEF IInv, Types
<1>5. reader' \in Seq(Int \union Savers) /\ Reading'
  <2>1. CASE Opens
    <3>1. PICK v \in Seen(ImageName): v # None /\ reader' = <<v>>
      BY <2>1, OpenedIsImage DEF Opens
    <3>2. v \in 0 .. Len(inodes) /\ Safe(v)
      BY <3>1 DEF IInv, Directory, Durable
    <3>3. v \in 1 .. Len(inodes) /\ v \in Int
      BY <1>4, <3>1, <3>2 DEF None
    <3>4. reader'[1] = v /\ Len(reader') = 1 /\ reader' \in Seq(Int \union Savers)
      BY <3>1, <3>3
    <3>5. Safe(v)'
      BY <1>1, <3>2 DEF Safe
    <3> QED
      BY <1>1, <3>3, <3>4, <3>5 DEF Reading, Safe
  <2>2. CASE Reads
    <3>1. /\ reader # <<>> /\ reader' = Append(reader, inodes[reader[1]].of)
      BY <2>2 DEF Reads
    <3>2. /\ reader[1] \in 1 .. Len(inodes) /\ Safe(reader[1])
          /\ \A k \in 2 .. Len(reader): reader[k] = inodes[reader[1]].of
      BY <3>1 DEF IInv, Reading
    <3>3. inodes[reader[1]].of \in Int \union Savers
      <4>1. inodes[reader[1]] \in Inodes
        BY <3>2, ElementOfSeq DEF IInv, Types
      <4> QED
        BY <4>1 DEF Inodes
    <3>4. Len(reader) \in Nat \ {0}
      BY <1>4, <3>1, EmptySeq
    <3>5. /\ reader' \in Seq(Int \union Savers) /\ Len(reader') = Len(reader) + 1
          /\ \A k \in 1 .. Len(reader): reader'[k] = reader[k]
          /\ reader'[Len(reader) + 1] = inodes[reader[1]].of
      BY <1>4, <3>1, <3>3, AppendProperties
    <3>6. reader'[1] = reader[1]
      BY <3>4, <3>5
    <3>7. ASSUME NEW k \in 2 .. Len(reader') PROVE reader'[k] = inodes[reader[1]].of
      <4>1. CASE k = Len(reader) + 1
        BY <3>5, <4>1
      <4>2. CASE k # Len(reader) + 1
        <5>1. k \in 2 .. Len(reader) /\ k \in 1 .. Len(reader)
          BY <3>4, <3>5, <4>2
        <5> QED
          BY <3>2, <3>5, <5>1
      <4> QED
        BY <4>1, <4>2
    <3> QED
      BY <1>1, <3>2, <3>5, <3>6, <3>7 DEF Reading, Safe
  <2>3. CASE Closed
    <3>1. reader' = <<>>
      BY <2>3 DEF Closed
    <3> QED
      BY <3>1, EmptySeq DEF Reading
  <2> QED
    BY <2>1, <2>2, <2>3
<1> QED
  BY <1>1, <1>2, <1>3, <1>5 DEF IInv, Types

-------------------------------------------------------------------------------
\* The invariant

LEMMA InitInvariant ==
  ASSUME ImageFileAssumption, FileInit
  PROVE  IInv
<1>1. /\ dir = [n \in Names |-> IF n = "path" /\ Linked THEN Link ELSE None]
      /\ disk = dir /\ log = <<>> /\ inodes = <<>>
      /\ pc = [s \in Savers |-> "idle"] /\ temp = [s \in Savers |-> "path"]
      /\ ino = [s \in Savers |-> None] /\ target = [s \in Savers |-> "path"]
      /\ reader = <<>> /\ killed = FALSE /\ held = {} /\ losses = 0
  BY DEF FileInit
<1>2. Len(log) = 0 /\ Len(inodes) = 0
  BY <1>1, EmptySeq
<1>3. \A n \in Names: \A v \in Seen(n): v = dir[n]
  BY <1>1, <1>2 DEF Seen
<1>4. Types
  <2>1. /\ log \in Seq(Entries) /\ inodes \in Seq(Inodes) /\ reader \in Seq(Int \union Savers)
    BY <1>1, EmptySeq
  <2>2. dir \in [Names -> Int] /\ disk \in [Names -> Int]
    BY <1>1 DEF None, Link
  <2>3. /\ pc \in [Savers -> Places] /\ temp \in [Savers -> Temps \union {"path"}]
        /\ target \in [Savers -> {"path", "image"}]
    BY <1>1 DEF Places
  <2>4. ino \in [Savers -> 0 .. Len(inodes)]
    BY <1>1, <1>2 DEF None
  <2>5. \A i \in 1 .. Len(inodes): inodes[i].synced <= inodes[i].len
    BY <1>2
  <2> QED
    BY <1>1, <2>1, <2>2, <2>3, <2>4, <2>5 DEF Types
<1>5. Directory
  BY <1>1, <1>2, <1>3, NamesDiffer DEF Directory, Ranges, Durable, Known, LinkOnly, None, Link
<1>6. \A s \in Savers: Saving(s)
  BY <1>1 DEF Saving, Working
<1> QED
  BY <1>1, <1>4, <1>5, <1>6 DEF IInv, Own, Reading

LEMMA StepKeeps ==
  ASSUME IInv, ImageFileAssumption, NEW s \in Savers, Step(s)
  PROVE  IInv'
BY BeginsKeeps, MakesKeeps, ModesKeeps, WritesKeeps, SyncsKeeps, ClosesKeeps, RenamesKeeps,
   SyncsDirectoryKeeps, UnlinksKeeps, KilledKeeps DEF Step

LEMMA NextKeeps ==
  ASSUME IInv, ImageFileAssumption, [FileNext]_fileVars
  PROVE  IInv'
<1>1. CASE UNCHANGED fileVars
  <2>1. UNCHANGED <<dir, disk, log, inodes, pc, temp, ino, target, reader, killed, held, losses>>
    BY <1>1 DEF fileVars
  <2>2. Directory' /\ Own'
    BY <2>1, FilesKept DEF IInv, Own
  <2>3. ASSUME NEW r \in Savers PROVE Saving(r)'
    BY <2>1, OthersKept
  <2> QED
    BY <2>1, <2>2, <2>3 DEF IInv, Types, Reading, Safe
<1>2. CASE Opens \/ Reads \/ Closed
  BY <1>2, LoadKeeps
<1>3. CASE Flushes
  BY <1>3, FlushesKeeps
<1>4. CASE PowerGoes
  BY <1>4, PowerGoesKeeps
<1>5. ASSUME NEW s \in Savers, Step(s) PROVE IInv'
  BY <1>5, StepKeeps
<1> QED
  BY <1>1, <1>2, <1>3, <1>4, <1>5 DEF FileNext

LEMMA Inductive ==
  ASSUME ImageFileAssumption
  PROVE  FileSpec => []IInv
<1>1. FileInit => IInv
  BY InitInvariant
<1>2. IInv /\ [FileNext]_fileVars => IInv'
  BY NextKeeps
<1> QED
  BY <1>1, <1>2, PTL DEF FileSpec

-------------------------------------------------------------------------------
\* What a reader finds

LEMMA WholeTyped ==
  ASSUME IInv, ImageFileAssumption
  PROVE  FileTypeOK
<1>1. \A n \in Names: dir[n] = Link \/ dir[n] \in 0 .. Len(inodes)
  <2>1. \A n \in Names: dir[n] \in Seen(n)
    BY DEF Seen
  <2> QED
    BY <2>1 DEF IInv, Directory, Ranges
<1>2. Len(inodes) \in Nat /\ DOMAIN inodes = 1 .. Len(inodes) /\ Blocks \in Nat
  BY NamesDiffer, LenProperties DEF IInv, Types
<1>3. ASSUME NEW i \in DOMAIN inodes
      PROVE  /\ inodes[i].of \in Savers /\ 0 <= inodes[i].synced
             /\ inodes[i].synced <= inodes[i].len /\ inodes[i].len <= Blocks
  <2>1. inodes[i] \in Inodes
    BY <1>2, ElementOfSeq DEF IInv, Types
  <2>2. inodes[i].synced <= inodes[i].len
    BY <1>2 DEF IInv, Types
  <2> QED
    BY <1>2, <2>1, <2>2 DEF Inodes
<1>4. \A s \in Savers: ino[s] \in 0 .. Len(inodes) /\ target[s] \in {"path", "image"}
  BY DEF IInv, Types
<1> QED
  BY <1>1, <1>3, <1>4 DEF FileTypeOK

(* What is on disk after any part of the changes is a file synced whole. *)
LEMMA WholeOnDisk ==
  ASSUME IInv, ImageFileAssumption
  PROVE  NeverTorn
<1>1. ASSUME NEW k \in 0 .. Len(log), OnDisk(k)[ImageName] # None
      PROVE  Safe(OnDisk(k)[ImageName])
  <2>1. OnDisk(k)[ImageName] \in Seen(ImageName)
    BY NamesDiffer, OnDiskSeen DEF IInv
  <2> QED
    BY <1>1, <2>1 DEF IInv, Directory, Durable
<1> QED
  BY <1>1 DEF NeverTorn

LEMMA WholeRead ==
  ASSUME IInv, ImageFileAssumption
  PROVE  ReadsOne
<1>1. SUFFICES ASSUME Len(reader) > 1
               PROVE  /\ Whole(reader[1])
                      /\ \A k \in 2 .. Len(reader): reader[k] = inodes[reader[1]].of
  BY DEF ReadsOne
<1>2. reader # <<>>
  BY <1>1, EmptySeq
<1>3. /\ reader[1] \in 1 .. Len(inodes) /\ Safe(reader[1])
      /\ \A k \in 2 .. Len(reader): reader[k] = inodes[reader[1]].of
  BY <1>2 DEF IInv, Reading
<1>4. /\ inodes[reader[1]] \in Inodes /\ Blocks \in Nat
      /\ inodes[reader[1]].synced <= inodes[reader[1]].len
  BY <1>3, NamesDiffer, ElementOfSeq DEF IInv, Types
<1> QED
  BY <1>3, <1>4 DEF Whole, Safe, Inodes

LEMMA WholeLeft ==
  ASSUME IInv, ImageFileAssumption
  PROVE  LinkStays /\ NoLitter
<1>1. LinkStays
  <2>1. dir["path"] \in Seen("path")
    BY DEF Seen
  <2> QED
    BY <2>1 DEF IInv, Directory, LinkOnly, LinkStays
<1>2. ASSUME ~killed, NEW s \in Savers, pc[s] \in {"ok", "failed"}, NEW t \in Temps
      PROVE  dir[t] # ino[s] \/ ino[s] = None
  <2>1. dir[t] = ino[s] /\ ino[s] # None => pc[s] \in Working
    BY <1>2 DEF IInv, Saving
  <2> QED
    BY <1>2, <2>1 DEF Working
<1> QED
  BY <1>1, <1>2 DEF NoLitter

(* SPEC 3.11 of the file at an image's path: wherever the power goes the disk
   holds one whole image there, a link stays a link, a save that fails leaves no
   temporary file, and a load reads one save's image from beginning to end. *)
THEOREM FileIsWhole ==
  ASSUME ImageFileAssumption
  PROVE  FileSpec => []FileWhole
<1>1. IInv => FileWhole
  BY WholeTyped, WholeOnDisk, WholeRead, WholeLeft DEF FileWhole
<1>2. FileSpec => []IInv
  BY Inductive
<1> QED
  BY <1>1, <1>2, PTL

-------------------------------------------------------------------------------
\* The file is replaced at one instant

Calls == [r \in Savers |-> Call(r)]

LEMMA CallMoves ==
  ASSUME IInv, NEW s \in Savers, NEW place, Goes(s, place)
  PROVE  /\ \A r \in Savers: r # s => Call(r)' = Call(r)
         /\ Calls' = [Calls EXCEPT ![s] = Call(s)']
         /\ pc'[s] = place
<1>1. \A r \in Savers: pc'[r] = IF r = s THEN place ELSE pc[r]
  BY DEF IInv, Types, Goes
<1>2. \A r \in Savers: r # s => Call(r)' = Call(r)
  BY <1>1 DEF Call
<1>3. Calls' = [Calls EXCEPT ![s] = Call(s)']
  BY <1>2 DEF Calls
<1> QED
  BY <1>1, <1>2, <1>3

LEMMA ContentIsOf == Content(dir) = Of(dir[ImageName])
BY DEF Content, Of

LEMMA ContentSame ==
  ASSUME IInv, ImageFileAssumption, dir'[ImageName] = dir[ImageName],
         \A i \in 1 .. Len(inodes): inodes'[i].of = inodes[i].of
  PROVE  Content(dir)' = Content(dir)
<1>1. dir[ImageName] \in 0 .. Len(inodes) /\ Len(inodes) \in Nat
  <2>1. dir[ImageName] \in Seen(ImageName)
    BY DEF Seen
  <2> QED
    BY <2>1, LenProperties DEF IInv, Types, Directory, Durable
<1> QED
  BY <1>1 DEF Content, None

(* The image's name keeps its file in every step of a save but its rename. *)
LEMMA StepContent ==
  ASSUME IInv, ImageFileAssumption, NEW s \in Savers,
         \/ BeginsSave(s) \/ MakesTemporary(s) \/ Modes(s) \/ Writes(s) \/ Syncs(s) \/ Closes(s)
         \/ (Renames(s) /\ UNCHANGED <<dir, held>>) \/ SyncsDirectory(s) \/ Unlinks(s) \/ Killed(s)
  PROVE  Content(dir)' = Content(dir) /\ held' = held /\ dir'[ImageName] = dir[ImageName]
<1>1. Len(inodes) \in Nat /\ inodes \in Seq(Inodes) /\ Saving(s)
      /\ ImageName \in Names /\ ImageName \notin Temps
  BY NamesDiffer, LenProperties DEF IInv, Types
<1>2. held' = held
  BY DEF BeginsSave, MakesTemporary, Modes, Writes, Syncs, Closes, Renames, SyncsDirectory, Unlinks, Killed
<1>3. CASE MakesTemporary(s)
  <2>1. ASSUME NEW t \in Free, Changes([n \in {t} |-> Len(inodes) + 1])
        PROVE  dir'[ImageName] = dir[ImageName]
    BY <1>1, <2>1 DEF Changes, Free
  <2>2. dir'[ImageName] = dir[ImageName]
    BY <1>3, <2>1 DEF MakesTemporary
  <2>3. \/ UNCHANGED inodes
        \/ inodes' = Append(inodes, [of |-> s, len |-> 0, synced |-> 0])
    BY <1>3 DEF MakesTemporary
  <2>4. \A i \in 1 .. Len(inodes): inodes'[i].of = inodes[i].of
    <3>1. [of |-> s, len |-> 0, synced |-> 0] \in Inodes
      BY NamesDiffer DEF Inodes
    <3> QED
      BY <1>1, <2>3, <3>1, AppendProperties
  <2> QED
    BY <1>2, <2>2, <2>4, ContentSame
<1>4. CASE Unlinks(s)
  <2>1. inodes' = inodes
    BY <1>4 DEF Unlinks
  <2>2. dir'[ImageName] = dir[ImageName]
    <3>1. CASE pc[s] = "unlink" /\ Changes(Unlinked(s))
      BY <1>1, <3>1 DEF Changes, Unlinked, Saving, Working
    <3> QED
      BY <1>4, <3>1 DEF Unlinks
  <2> QED
    BY <1>2, <2>1, <2>2, ContentSame
<1>5. CASE Writes(s) \/ Syncs(s)
  <2>1. dir' = dir
    BY <1>5 DEF Writes, Syncs
  <2>2. pc[s] \in Working
    BY <1>5 DEF Writes, Syncs, Working
  <2>3. \/ inodes' = inodes
        \/ inodes' = [inodes EXCEPT ![ino[s]].len = @ + 1]
        \/ inodes' = [inodes EXCEPT ![ino[s]].synced = inodes[ino[s]].len]
    BY <1>5 DEF Writes, Syncs, Synced
  <2>4. \A i \in 1 .. Len(inodes): inodes[i] \in Inodes
    BY <1>1, ElementOfSeq
  <2>5. DOMAIN inodes = 1 .. Len(inodes)
    BY <1>1, LenProperties
  <2>6. \A i \in 1 .. Len(inodes): inodes'[i].of = inodes[i].of
    BY <2>3, <2>4, <2>5 DEF Inodes
  <2> QED
    BY <1>2, <2>1, <2>6, ContentSame
<1>6. CASE UNCHANGED <<dir, inodes>>
  BY <1>2, <1>6, ContentSame
<1> QED
  BY <1>3, <1>4, <1>5, <1>6
  DEF BeginsSave, Modes, Closes, Renames, SyncsDirectory, Killed

LEMMA RenamesContent ==
  ASSUME IInv, ImageFileAssumption, NEW s \in Savers, Renames(s)
  PROVE  \/ UNCHANGED <<dir, held>> /\ Goes(s, "unlink")
         \/ /\ Content(dir)' = s /\ held' = held \union {Content(dir)}
            /\ dir'[ImageName] # None /\ Goes(s, "directory")
<1>1. pc[s] = "rename" /\ inodes' = inodes
  BY DEF Renames
<1>2. CASE Changes(Renamed(s)) /\ held' = held \union {Content(dir)} /\ Goes(s, "directory")
  <2>1. /\ temp[s] # ImageName /\ ino[s] \in 1 .. Len(inodes) /\ inodes[ino[s]].of = s
        /\ \A n \in Names: dir'[n] = IF n = temp[s] THEN None
                                      ELSE IF n = ImageName THEN ino[s] ELSE dir[n]
    BY <1>1, <1>2, RenamesEntry
  <2>2. dir'[ImageName] = ino[s] /\ ino[s] # None
    BY <2>1, NamesDiffer DEF None
  <2> QED
    BY <1>1, <1>2, <2>1, <2>2 DEF Content
<1> QED
  BY <1>2 DEF Renames

CallVars == <<Content(dir), held, Calls>>
AStep(s) == A!Begins(s) \/ A!Takes(s) \/ A!Answers(s) \/ A!Dies(s)

LEMMA MovesAre ==
  ASSUME NEW s \in Savers, NEW from, NEW to, Call(s) = from, Call(s)' = to,
         Calls' = [Calls EXCEPT ![s] = Call(s)']
  PROVE  A!Moves(s, from, to)
<1>1. Calls[s] = from /\ Calls' = [Calls EXCEPT ![s] = to]
  BY DEF Calls
<1> QED
  BY <1>1 DEF A!Moves, Calls

(* A step that leaves a save's call as it was seen leaves all calls. *)
LEMMA SameCall ==
  ASSUME IInv, NEW s \in Savers, NEW place, Goes(s, place), Call(s)' = Call(s)
  PROVE  Calls' = Calls
<1>1. \A r \in Savers: Call(r)' = Call(r)
  BY CallMoves
<1> QED
  BY <1>1 DEF Calls

LEMMA StepIsAtomic ==
  ASSUME IInv, ImageFileAssumption, NEW s \in Savers, Step(s)
  PROVE  AStep(s) \/ UNCHANGED CallVars
<1>1. CASE BeginsSave(s)
  <2>1. PICK place \in {"make", "refused"}: Goes(s, place)
    BY <1>1 DEF BeginsSave
  <2>2. pc[s] = "idle" /\ pc'[s] = place /\ Calls' = [Calls EXCEPT ![s] = Call(s)']
    BY <1>1, <2>1, CallMoves DEF BeginsSave
  <2>3. Call(s) = "idle" /\ Call(s)' = "begun"
    BY <2>2 DEF Call
  <2>4. A!Moves(s, "idle", "begun")
    BY <2>2, <2>3, MovesAre
  <2>5. Content(dir)' = Content(dir) /\ held' = held
    BY <1>1, StepContent
  <2> QED
    BY <2>4, <2>5 DEF AStep, A!Begins
<1>2. ASSUME NEW place \in {"make", "refused"} \union Working, Goes(s, place),
             pc[s] \in {"make", "refused"} \union Working,
             Content(dir)' = Content(dir), held' = held
      PROVE  UNCHANGED CallVars
  <2>1. pc'[s] = place
    BY <1>2, CallMoves
  <2>2. Call(s)' = Call(s)
    BY <1>2, <2>1 DEF Call, Working
  <2>3. Calls' = Calls
    BY <1>2, <2>2, SameCall
  <2> QED
    BY <1>2, <2>3 DEF CallVars
<1>3. CASE MakesTemporary(s) \/ Modes(s) \/ Writes(s) \/ Syncs(s) \/ Closes(s)
  <2>1. Content(dir)' = Content(dir) /\ held' = held
    BY <1>3, StepContent
  <2>2. pc[s] \in {"make", "refused"} \union Working
    BY <1>3 DEF MakesTemporary, Modes, Writes, Syncs, Closes, Working
  <2>3. \E place \in {"make", "refused"} \union Working: Goes(s, place)
    BY <1>3 DEF MakesTemporary, Modes, Writes, Syncs, Closes, Working
  <2> QED
    BY <1>2, <2>1, <2>2, <2>3
<1>4. CASE Renames(s)
  <2>1. CASE UNCHANGED <<dir, held>> /\ Goes(s, "unlink")
    <3>1. Content(dir)' = Content(dir) /\ held' = held
      BY <1>4, <2>1, StepContent
    <3>2. pc[s] \in Working /\ "unlink" \in Working
      BY <1>4 DEF Renames, Working
    <3> QED
      BY <1>2, <2>1, <3>1, <3>2
  <2>2. CASE /\ Content(dir)' = s /\ held' = held \union {Content(dir)}
             /\ Goes(s, "directory")
    <3>1. pc[s] = "rename" /\ pc'[s] = "directory" /\ Calls' = [Calls EXCEPT ![s] = Call(s)']
      BY <1>4, <2>2, CallMoves DEF Renames
    <3>2. Call(s) = "begun" /\ Call(s)' = "taken"
      BY <3>1 DEF Call
    <3>3. A!Moves(s, "begun", "taken")
      BY <3>1, <3>2, MovesAre
    <3> QED
      BY <2>2, <3>3 DEF AStep, A!Takes
  <2> QED
    BY <1>4, <2>1, <2>2, RenamesContent
<1>5. CASE SyncsDirectory(s)
  <2>1. pc[s] = "directory" /\ pc'[s] = "ok" /\ Calls' = [Calls EXCEPT ![s] = Call(s)']
    BY <1>5, CallMoves DEF SyncsDirectory
  <2>2. Call(s) = "taken" /\ Call(s)' = "ok"
    BY <2>1 DEF Call
  <2>3. A!Moves(s, "taken", "ok")
    BY <2>1, <2>2, MovesAre
  <2>4. Content(dir)' = Content(dir) /\ held' = held
    BY <1>5, StepContent
  <2> QED
    BY <2>3, <2>4 DEF AStep, A!Answers
<1>6. CASE Unlinks(s)
  <2>1. pc[s] \in {"unlink", "refused"} /\ pc'[s] = "failed"
        /\ Calls' = [Calls EXCEPT ![s] = Call(s)']
    BY <1>6, CallMoves DEF Unlinks
  <2>2. Call(s) = "begun" /\ Call(s)' = "failed"
    BY <2>1 DEF Call
  <2>3. A!Moves(s, "begun", "failed")
    BY <2>1, <2>2, MovesAre
  <2>4. Content(dir)' = Content(dir) /\ held' = held
    BY <1>6, StepContent
  <2> QED
    BY <2>3, <2>4 DEF AStep, A!Answers
<1>7. CASE Killed(s)
  <2>1. pc[s] \notin {"idle", "ok", "failed", "dead"} /\ pc'[s] = "dead"
        /\ Calls' = [Calls EXCEPT ![s] = Call(s)']
    BY <1>7, CallMoves DEF Killed, Running
  <2>2. Call(s) \in {"begun", "taken"} /\ Call(s)' = "dead"
    BY <2>1 DEF Call
  <2>3. A!Moves(s, "taken", "dead") \/ A!Moves(s, "begun", "dead")
    BY <2>1, <2>2, MovesAre
  <2>4. Content(dir)' = Content(dir) /\ held' = held
    BY <1>7, StepContent
  <2> QED
    BY <2>3, <2>4 DEF AStep, A!Dies
<1> QED
  BY <1>1, <1>3, <1>4, <1>5, <1>6, <1>7 DEF Step

(* The power brings back an image the path has held, and ends the saves at work. *)
LEMMA LossIsAtomic ==
  ASSUME IInv, ImageFileAssumption, PowerGoes
  PROVE  A!Loses
<1>1. /\ inodes' = [i \in DOMAIN inodes |-> [inodes[i] EXCEPT !.len = inodes[i].synced]]
      /\ pc' = [s \in Savers |-> IF Running(s) THEN "dead" ELSE pc[s]] /\ held' = held
  BY DEF PowerGoes
<1>2. PICK k \in 0 .. Len(log): dir' = OnDisk(k)
  BY DEF PowerGoes
<1>3. PICK v \in Seen(ImageName): dir'[ImageName] = v
  BY <1>2, OnDiskSeen, NamesDiffer DEF IInv
<1>4. Of(v) \in held \/ Of(v) = Content(dir)
  BY <1>3, ContentIsOf DEF IInv, Directory, Known
<1>5. Content(dir)' = Of(v)
  <2>1. v \in 0 .. Len(inodes) /\ Len(inodes) \in Nat /\ DOMAIN inodes = 1 .. Len(inodes)
    BY LenProperties DEF IInv, Types, Directory, Durable
  <2>2. \A i \in 1 .. Len(inodes): inodes[i] \in Inodes
    BY ElementOfSeq DEF IInv, Types
  <2>3. v # None => inodes'[v].of = inodes[v].of
    BY <1>1, <2>1, <2>2 DEF None, Inodes
  <2> QED
    BY <1>3, <2>3 DEF Content, Of
<1>6. Calls' = [r \in Savers |-> IF Calls[r] \in {"begun", "taken"} THEN "dead" ELSE Calls[r]]
  <2>1. ASSUME NEW r \in Savers
        PROVE  Call(r)' = IF Call(r) \in {"begun", "taken"} THEN "dead" ELSE Call(r)
    <3>1. pc'[r] = IF Running(r) THEN "dead" ELSE pc[r]
      BY <1>1
    <3>2. pc[r] \in Places
      BY DEF IInv, Types
    <3> QED
      BY <3>1, <3>2 DEF Call, Running, Places, Working
  <2> QED
    BY <2>1 DEF Calls
<1> QED
  BY <1>1, <1>4, <1>5, <1>6 DEF A!Loses, A!Ended, Calls

LEMMA NextIsAtomic ==
  ASSUME IInv, ImageFileAssumption, [FileNext]_fileVars
  PROVE  [A!Next]_CallVars
<1>1. CASE UNCHANGED fileVars \/ Opens \/ Reads \/ Closed \/ Flushes
  BY <1>1 DEF fileVars, Opens, Reads, Closed, Flushes, CallVars, Calls, Call, Content
<1>2. CASE PowerGoes
  BY <1>2, LossIsAtomic DEF A!Next
<1>3. ASSUME NEW s \in Savers, Step(s) PROVE [A!Next]_CallVars
  BY <1>3, StepIsAtomic DEF AStep, A!Next
<1> QED
  BY <1>1, <1>2, <1>3 DEF FileNext

LEMMA InitIsAtomic ==
  ASSUME FileInit, ImageFileAssumption
  PROVE  A!Init
<1>1. dir[ImageName] = None
  BY NamesDiffer DEF FileInit, ImageName, Link
<1> QED
  BY <1>1 DEF A!Init, FileInit, Content, Call

(* Every step keeps an image at the name once there is one. *)
LEMMA NextNeverGone ==
  ASSUME IInv, ImageFileAssumption, [FileNext]_fileVars
  PROVE  [dir[ImageName] # None /\ losses' = losses => dir'[ImageName] # None]_fileVars
<1>1. CASE UNCHANGED dir
  BY <1>1
<1>2. CASE PowerGoes
  BY <1>2 DEF PowerGoes, IInv, Types
<1>3. ASSUME NEW s \in Savers, Step(s)
      PROVE  dir[ImageName] # None => dir'[ImageName] # None
  <2>1. CASE Renames(s)
    BY <2>1, RenamesContent
  <2>2. CASE ~Renames(s)
    BY <1>3, <2>2, StepContent DEF Step
  <2> QED
    BY <2>1, <2>2
<1> QED
  BY <1>1, <1>2, <1>3 DEF FileNext, Opens, Reads, Closed, Flushes, fileVars

(* The file at the path is replaced at one instant of each save that succeeds, and
   of none that fails; but for a loss of power no step takes the image away. *)
THEOREM FileIsReplaced ==
  ASSUME ImageFileAssumption
  PROVE  FileSpec => Replaces
<1>1. FileInit => A!Init
  BY InitIsAtomic
<1>2. IInv /\ [FileNext]_fileVars
        => [A!Next]_<<Content(dir), held, [s \in Savers |-> Call(s)]>>
  BY NextIsAtomic DEF CallVars, Calls
<1>3. IInv /\ [FileNext]_fileVars
        => [dir[ImageName] # None /\ losses' = losses => dir'[ImageName] # None]_fileVars
  BY NextNeverGone
<1>4. FileSpec => []IInv
  BY Inductive
<1>5. FileSpec => ReplacesAtOnce
  BY <1>1, <1>2, <1>4, PTL DEF FileSpec, ReplacesAtOnce, A!Spec
<1>6. FileSpec => NeverGone
  BY <1>3, <1>4, PTL DEF FileSpec, NeverGone
<1> QED
  BY <1>5, <1>6 DEF Replaces

===============================================================================
