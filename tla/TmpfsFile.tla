------------------------------ MODULE TmpfsFile ------------------------------
(***************************************************************************)
(* Regular files of tmpfs (pkg/tmpfs/src/tmpfs.cc): one name of a          *)
(* directory, the inodes it has had, and the open handles.  An inode keeps *)
(* a heap buffer that only grows; bytes beyond _size are whatever an       *)
(* earlier, longer content or realloc left there.  tmpfs lives inside one  *)
(* process and has no locks: its calls come one after the other.           *)
(***************************************************************************)
EXTENDS Integers, Sequences, FiniteSets

CONSTANTS
  Handles,        \* Tmpfs_file objects: open descriptions of the process
  MinCap,         \* the first size of a buffer (64 in the code)
  MaxInodes,      \* bound: inodes ever made
  MaxSize         \* bound: offsets and sizes

ASSUME TmpfsFileAssumption ==
  IsFiniteSet(Handles) /\ MinCap \in Nat \ {0} /\ MaxInodes \in Nat /\ MaxSize \in Nat

Inodes == 1 .. MaxInodes
Junk   == {0, 1}                       \* what a byte can hold
Data   == {<<1>>, <<1, 1>>}            \* what a write can carry

VARIABLES
  inode,          \* Tmpfs_inode: _ref, _data and _size; _ref = 0 when it is freed
  entry,          \* the inode under the name, 0 when there is no such entry
  fd,             \* per handle: its inode (0 when closed) and _append
  made            \* inodes made so far

tmpfileVars == <<inode, entry, fd, made>>

NoInode == [ref |-> 0, data |-> <<>>, size |-> 0]
Closed  == [ino |-> 0, append |-> FALSE]

(* What a reader sees of an inode: pread over its whole size *)
Visible(ino) == SubSeq(ino.data, 1, ino.size)

-----------------------------------------------------------------------------
(* the capacity for need bytes: doubled while it is too small, which takes *)
(* no more than need rounds                                                *)
NewCap(have, need) ==
  LET ncap[i \in 0 .. need] ==
        IF i = 0 THEN IF have = 0 THEN MinCap ELSE have
        ELSE IF ncap[i - 1] < need THEN 2 * ncap[i - 1] ELSE ncap[i - 1]
  IN  ncap[need]

(* ensure: the buffers that can result, with junk in the part that is new *)
ensure(buf, need) ==
  IF need <= Len(buf) THEN {buf} ELSE
  {buf \o new : new \in [1 .. NewCap(Len(buf), need) - Len(buf) -> Junk]}

(* bytes from .. to - 1 of a buffer set to what f says of each *)
Fill(buf, from, to, f(_)) ==
  [i \in DOMAIN buf |-> IF i > from /\ i <= to THEN f(i) ELSE buf[i]]

Zero(i) == 0

(* Mutant: the hole beyond the old end is not cleared *)
HoleLeft(buf, size, off) == buf

(* a write past the end, or a longer size, zeroes the hole *)
HoleZeroed(buf, size, off) == IF off > size THEN Fill(buf, size, off, Zero) ELSE buf

(* Tmpfs_inode::pwrite, when memory is there; with ENOSPC nothing changes *)
pwrite(ino, off, s) ==
  {[ino EXCEPT !.data = LET At(i) == s[i - off]
                        IN  Fill(HoleZeroed(buf, ino.size, off), off, off + Len(s), At),
               !.size = IF off + Len(s) > @ THEN off + Len(s) ELSE @]
     : buf \in ensure(ino.data, off + Len(s))}

(* Tmpfs_inode::truncate *)
truncate(ino, n) ==
  {[ino EXCEPT !.data = HoleZeroed(buf, ino.size, n), !.size = n]
     : buf \in IF n > ino.size THEN ensure(ino.data, n) ELSE {ino.data}}

(* Mutant: the buffer goes with the name *)
FreedWithName(ino) == NoInode

(* Ref_ptr: an inode is freed with its last reference *)
Dropped(ino) == IF ino.ref = 1 THEN NoInode ELSE [ino EXCEPT !.ref = @ - 1]

-----------------------------------------------------------------------------
(* A handle for inode i as get_entry left it, or, with ENOMEM, none *)
Opened(h, i, ino, append) ==
  \/ /\ inode' = [inode EXCEPT ![i] = [ino EXCEPT !.ref = @ + 1]]
     /\ fd' = [fd EXCEPT ![h] = [ino |-> i, append |-> append]]
  \/ inode' = [inode EXCEPT ![i] = ino] /\ UNCHANGED fd

(* get_entry on a name that exists: O_TRUNC cuts the file for every handle *)
open_existing(h, trunc, append) ==
  /\ fd[h] = Closed /\ entry # 0
  /\ \E cut \in IF trunc THEN truncate(inode[entry], 0) ELSE {inode[entry]} :
       Opened(h, entry, cut, append)
  /\ UNCHANGED <<entry, made>>

(* get_entry with O_CREAT on a name that does not: a fresh, empty inode,   *)
(* which stays under the name even when there is no memory for the handle  *)
open_create(h, append) ==
  /\ fd[h] = Closed /\ entry = 0 /\ made < MaxInodes
  /\ made' = made + 1 /\ entry' = made + 1
  /\ Opened(h, made + 1, [NoInode EXCEPT !.ref = 1], append)

(* pwritev: with O_APPEND at the present end, whoever moved it *)
tmpfs_pwritev(h, off, s) ==
  LET i  == fd[h].ino
      at == IF fd[h].append THEN inode[i].size ELSE off
  IN  /\ i # 0 /\ at + Len(s) <= MaxSize
      /\ \E new \in pwrite(inode[i], at, s) : inode' = [inode EXCEPT ![i] = new]
      /\ UNCHANGED <<entry, fd, made>>

tmpfs_ftruncate(h, n) ==
  LET i == fd[h].ino
  IN  /\ i # 0
      /\ \E new \in truncate(inode[i], n) : inode' = [inode EXCEPT ![i] = new]
      /\ UNCHANGED <<entry, fd, made>>

close(h) ==
  /\ fd[h].ino # 0
  /\ inode' = [inode EXCEPT ![fd[h].ino] = Dropped(@)]
  /\ fd' = [fd EXCEPT ![h] = Closed]
  /\ UNCHANGED <<entry, made>>

(* unlink: the entry goes, handles keep the inode *)
unlink ==
  /\ entry # 0
  /\ inode' = [inode EXCEPT ![entry] = Dropped(@)]
  /\ entry' = 0
  /\ UNCHANGED <<fd, made>>

TmpfsFileInit ==
  /\ inode = [i \in Inodes |-> NoInode] /\ entry = 0 /\ made = 0
  /\ fd = [h \in Handles |-> Closed]

TmpfsFileNext ==
  \/ unlink
  \/ \E h \in Handles :
       \/ \E a \in BOOLEAN : open_create(h, a) \/ \E t \in BOOLEAN : open_existing(h, t, a)
       \/ \E n \in 0 .. MaxSize : tmpfs_ftruncate(h, n) \/ \E s \in Data : tmpfs_pwritev(h, n, s)
       \/ close(h)

TmpfsFileSpec == TmpfsFileInit /\ [][TmpfsFileNext]_tmpfileVars

-----------------------------------------------------------------------------
(* Properties *)

TmpfsFileTypeOK ==
  /\ inode \in [Inodes -> [ref : 0 .. Cardinality(Handles) + 1, data : Seq(Junk), size : 0 .. MaxSize]]
  /\ \A i \in Inodes : inode[i].size <= Len(inode[i].data)
  /\ entry \in 0 .. MaxInodes /\ made \in 0 .. MaxInodes
  /\ fd \in [Handles -> [ino : 0 .. MaxInodes, append : BOOLEAN]]

(* An inode lives exactly as long as a name or an open handle refers to    *)
(* it: a file that was unlinked, and a new one made under its name, leave  *)
(* the handles of the old one alone (tmpfs.cc, Entry::ino, Tmpfs_file).    *)
InodeLifetime ==
  \A i \in Inodes :
    inode[i].ref = Cardinality({h \in Handles : fd[h].ino = i}) + (IF entry = i THEN 1 ELSE 0)

(* the inodes as files: those that live, and what pread can see of them *)
Living   == {i \in Inodes : inode[i].ref > 0}
ReadBack == [i \in Inodes |-> Visible(inode[i])]

Abstract == INSTANCE PosixFiles WITH Files <- Inodes, live <- Living, content <- ReadBack

(* What handles read is a file as a program expects it: no byte of an      *)
(* earlier, longer content and no byte of raw memory ever shows up in a    *)
(* hole, whatever the order of writes, truncations, opens and unlinks.     *)
IsPosixFile == Abstract!PosixSpec

=============================================================================
