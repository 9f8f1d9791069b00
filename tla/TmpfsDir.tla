------------------------------ MODULE TmpfsDir ------------------------------
(***************************************************************************)
(* Directories of tmpfs (pkg/tmpfs/src/tmpfs.cc, Tmpfs_dir): linked lists  *)
(* of entries, new ones in front, and one listing position per directory   *)
(* object, shared by whoever lists it.  A path is the directory its last   *)
(* component is looked up in and that component; paths that end earlier    *)
(* (ENOENT, ENOTDIR) change nothing.                                       *)
(***************************************************************************)
EXTENDS Integers, Sequences, FiniteSets

CONSTANTS
  Names,          \* path components
  Readers,        \* opendir streams
  MaxDirs         \* bound: directories ever made besides the root

ASSUME TmpfsDirAssumption == MaxDirs \in Nat

Dirs == 0 .. MaxDirs                   \* directory objects; 0 is the root
None == 0                              \* no sub-directory: a regular file

VARIABLES
  list,           \* per directory: its entries from _head on
  dent_pos,       \* per directory: _dent_pos
  ndirs,          \* directories made so far
  stream,         \* per reader: the listing it is in
  since           \* history: what happened to a reader's directory meanwhile

tmpdirVars == <<list, dent_pos, ndirs, stream, since>>

Idle == [st |-> "idle", dir |-> 0]

(* History of a reader's listing: whether entries were "added" or          *)
(* "removed" since it began, or it is "shared" (it did not begin at the    *)
(* start of the list, or another reader moved the position); the names     *)
(* that were there when it began; how often each was returned (0, 1, 2).   *)
NoNews == [news |-> {"shared"}, first |-> {}, times |-> [n \in Names |-> 0]]

Entries(d)    == {list[d][i] : i \in DOMAIN list[d]}
NamesIn(d)    == {e.name : e \in Entries(d)}
Reachable(d)  == d = 0 \/ \E p \in Dirs : \E e \in Entries(p) : e.sub = d

(* both an addition and a removal: nothing is said of such a listing *)
News(s, what) ==
  IF s.news \cup {what} = {"added", "removed"} THEN NoNews
  ELSE [news |-> s.news \cup {what}, first |-> s.first, times |-> s.times]

NewsOf(d, what) ==
  [r \in Readers |-> IF "shared" \notin since[r].news /\ stream[r].dir = d
                     THEN News(since[r], what) ELSE since[r]]

-----------------------------------------------------------------------------
(* find: an entry is added only when there is none of that name *)
NameFree(d, n) == n \notin NamesIn(d)

(* alloc: the entry goes in front *)
Add(d, n, sub) ==
  /\ Reachable(d) /\ NameFree(d, n)
  /\ list' = [list EXCEPT ![d] = <<[name |-> n, sub |-> sub]>> \o @]
  /\ since' = NewsOf(d, "added")

(* get_entry with O_CREAT *)
create(d, n) == Add(d, n, None) /\ UNCHANGED <<dent_pos, ndirs, stream>>

mkdir(d, n) ==
  /\ ndirs < MaxDirs
  /\ Add(d, n, ndirs + 1)
  /\ ndirs' = ndirs + 1
  /\ UNCHANGED <<dent_pos, stream>>

(* remove: entry i is unlinked from the list and deleted *)
Unlinked(s, i) == [j \in 1 .. Len(s) - 1 |-> IF j < i THEN s[j] ELSE s[j + 1]]

Remove(d, i) ==
  /\ Reachable(d)
  /\ list' = [list EXCEPT ![d] = Unlinked(@, i)]
  /\ since' = NewsOf(d, "removed")
  /\ UNCHANGED <<dent_pos, ndirs, stream>>

unlink_file(d, i) == list[d][i].sub = None /\ Remove(d, i)

(* ENOTEMPTY *)
IsEmpty(sub) == list[sub] = <<>>

rmdir(d, i) == list[d][i].sub # None /\ IsEmpty(list[d][i].sub) /\ Remove(d, i)

-----------------------------------------------------------------------------
(* get_entry of a directory gives the one object there is *)
opendir(r, d) ==
  /\ stream[r] = Idle /\ Reachable(d)
  /\ stream' = [stream EXCEPT ![r] = [st |-> "open", dir |-> d]]
  /\ since' = [since EXCEPT ![r] = IF dent_pos[d] = 0
       THEN [news |-> {}, first |-> NamesIn(d), times |-> NoNews.times] ELSE NoNews]
  /\ UNCHANGED <<list, dent_pos, ndirs>>

(* Mutant: the entry that no longer fits is counted *)
OneTooFar(pos, got) == pos + got + 1

(* _dent_pos after got entries *)
Advanced(pos, got) == pos + got

(* how often a name has been returned, counted up to 2 *)
CappedAdd(k, part, n) ==
  LET new == k + Cardinality({i \in DOMAIN part : part[i].name = n})
  IN  IF new > 2 THEN 2 ELSE new

(* getdents with room for some entries: those from the position on; with   *)
(* none left, end of stream, and the next listing starts over              *)
getdents(r, room) ==
  LET d    == stream[r].dir
      left == Len(list[d]) - dent_pos[d]
      got  == IF left <= 0 THEN 0 ELSE IF left < room THEN left ELSE room
      part == SubSeq(list[d], dent_pos[d] + 1, dent_pos[d] + got)
  IN  /\ stream[r].st = "open"
      /\ dent_pos' = [dent_pos EXCEPT ![d] = IF got = 0 THEN 0 ELSE Advanced(@, got)]
      /\ stream' = [stream EXCEPT ![r] = [st |-> IF got = 0 THEN "end" ELSE "open", dir |-> d]]
      /\ since' = [q \in Readers |->
           IF q # r /\ stream[q].dir = d THEN NoNews
           ELSE IF q = r /\ "shared" \notin since[r].news
                THEN [news  |-> since[r].news, first |-> since[r].first,
                      times |-> [n \in Names |-> CappedAdd(since[r].times[n], part, n)]]
                ELSE since[q]]
      /\ UNCHANGED <<list, ndirs>>

(* closedir, at the end or before: the position stays where it is *)
closedir(r) ==
  /\ stream[r] # Idle
  /\ stream' = [stream EXCEPT ![r] = Idle] /\ since' = [since EXCEPT ![r] = NoNews]
  /\ UNCHANGED <<list, dent_pos, ndirs>>

TmpfsDirInit ==
  /\ list = [d \in Dirs |-> <<>>] /\ dent_pos = [d \in Dirs |-> 0] /\ ndirs = 0
  /\ stream = [r \in Readers |-> Idle] /\ since = [r \in Readers |-> NoNews]

TmpfsDirNext ==
  \/ \E d \in Dirs :
       \/ \E n \in Names : create(d, n) \/ mkdir(d, n)
       \/ \E i \in DOMAIN list[d] : unlink_file(d, i) \/ rmdir(d, i)
  \/ \E r \in Readers :
       \/ \E d \in Dirs : opendir(r, d)
       \/ \E room \in 1 .. 2 : getdents(r, room)
       \/ closedir(r)

TmpfsDirSpec == TmpfsDirInit /\ [][TmpfsDirNext]_tmpdirVars

-----------------------------------------------------------------------------
(* Properties *)

TmpfsDirTypeOK ==
  /\ list \in [Dirs -> Seq([name : Names, sub : Dirs])]
  /\ dent_pos \in [Dirs -> 0 .. Cardinality(Names)] /\ ndirs \in Dirs
  /\ stream \in [Readers -> [st : {"idle", "open", "end"}, dir : Dirs]]
  /\ since \in [Readers -> [news : SUBSET {"shared", "added", "removed"}, first : SUBSET Names,
                            times : [Names -> 0 .. 2]]]

(* The directories form a tree and nothing falls off it: a name stands for *)
(* one entry, a directory hangs in one place, and one that was removed     *)
(* holds nothing (find before add; ENOTEMPTY in rmdir).                    *)
DirTree ==
  /\ \A d \in Dirs : \A i, j \in DOMAIN list[d] : list[d][i].name = list[d][j].name => i = j
  /\ \A p, q \in Dirs : \A e \in Entries(p), g \in Entries(q) :
       e.sub = g.sub /\ e.sub # None => p = q /\ e = g
  /\ \A d \in Dirs \ {0} :
       list[d] # <<>> => \E p \in Dirs \ {d} : \E e \in Entries(p) : e.sub = d

(* Files may be created while a directory is listed: as they go in front,  *)
(* a reader that has the position to itself, from the start on, still gets *)
(* every entry that was there when it began (some twice).                  *)
NoneMissed ==
  \A r \in Readers :
    stream[r].st = "end" /\ since[r].news \subseteq {"added"} =>
      \A n \in since[r].first : since[r].times[n] >= 1

(* Files may be removed while a directory is listed: such a reader gets no *)
(* entry twice (but may miss some).                                        *)
NoneTwice ==
  \A r \in Readers :
    since[r].news \subseteq {"removed"} => \A n \in Names : since[r].times[n] <= 1

(* Whatever is made and removed, and in the middle of listings, the tree   *)
(* stays one and a reader that lists alone gets what it may expect.        *)
DirectoriesSound == DirTree /\ NoneMissed /\ NoneTwice

=============================================================================
