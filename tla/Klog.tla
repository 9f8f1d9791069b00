-------------------------------- MODULE Klog --------------------------------
(***************************************************************************)
(* libklog (pkg/klog/lib/klog.cc) inside one process: the ring buffer of   *)
(* log entries, the threads that write to it, and klog_flush, which        *)
(* appends the new entries to the log file.  A process that was given a    *)
(* capability to syslogd sends its entries there instead (Syslogd.tla).    *)
(*                                                                         *)
(* One action is one critical section of g_lock, or a step of the file I/O *)
(* between two of them.  An entry is its sequence number and whether its   *)
(* level is WARN or worse; text, time stamps and the console are left out. *)
(*                                                                         *)
(* The file is a sequence of lines.  fopen and fseek fix its end once, in  *)
(* the thread's own open file, and a thread that writes there after        *)
(* another one has, overwrites; with O_APPEND, which klog.cc says has no   *)
(* effect, ext4fs also takes the end its own handle knows (Ext4Files.tla), *)
(* and only writes that follow go to the true one.  Lines have different   *)
(* lengths, so how many old lines go is left open.                         *)
(***************************************************************************)
EXTENDS Integers, Sequences, Loops

CONSTANTS
  Threads,        \* the threads of the process
  SIZE,           \* KLOG_RING_SIZE (256 in the code)
  MaxSeq          \* bound: entries ever written (64 bits in the code)

ASSUME KlogAssumption ==
  /\ Threads # {}
  /\ SIZE \in Nat \ {0}
  /\ MaxSeq \in Nat

Levels == {"WARN", "INFO"}         \* KLOG_WARN or worse; anything milder
Places == 0 .. SIZE - 1
Empty  == [seq |-> 0, level |-> "WARN"]   \* a zeroed entry

VARIABLES
  ring,           \* g_ring
  head,           \* g_head, the next place to write
  count,          \* g_count
  global_seq,     \* g_global_seq
  file_seq,       \* g_file_seq, the largest number written to the file
  file,           \* the sequence numbers in the log file, in file order
  pc,             \* where every thread is in klog_flush; "idle" outside
  syslogd,        \* g_syslogd.is_valid(), found out by klog_init
  sending,        \* the entry every thread has to send to syslogd
  snap,           \* every thread's copy of the ring and of the counters
  left,           \* what every thread has still to write to its open file
  pos,            \* how many whole lines lie before its position there
  unopened,       \* history: the numbers that a failed fopen left unwritten
  raced           \* history: the numbers that two open files left to be written

io   == <<left, pos, raced>>
vars == <<ring, head, count, global_seq, file_seq, file, pc, syslogd, sending, snap, unopened, io>>

NoSnap == [ring |-> [p \in Places |-> Empty], head |-> 0, count |-> 0, file_seq |-> 0]

(* Mutant: counting starts at the head even when the ring is not full *)
PlaceFromHead(hd, n, i) == (hd + i) % SIZE

(* The place of the i-th oldest of n entries when the next goes to hd. *)
Place(hd, n, i) == (((hd - n + SIZE) % SIZE) + i) % SIZE

(* The entries a flush has to write: those of its copy beyond file_seq. *)
IsNew(s, i) == s.ring[Place(s.head, s.count, i)].seq > s.file_seq

SomeNew(s) == \E i \in 0 .. s.count - 1 : IsNew(s, i)

(* their numbers, oldest first *)
NewSeqs(s) ==
  LET all == [i \in 1 .. s.count |-> s.ring[Place(s.head, s.count, i - 1)].seq]
  IN  Kept(all, {i \in 1 .. s.count : IsNew(s, i - 1)})

(* Mutant: the mark goes beyond what was written *)
MarkCurrent(s) == global_seq

(* g_file_seq after a flush of copy s; it never goes back *)
Marked(s) ==
  LET top == s.ring[Place(s.head, s.count, s.count - 1)].seq
  IN  IF top > file_seq THEN top ELSE file_seq

-----------------------------------------------------------------------------
Counted == IF count < SIZE THEN count + 1 ELSE count

(* Mutant: a warning is left to the next explicit flush *)
NeverFlush(lvl) == "idle"

(* an entry is sent to syslogd if there is one; else a warning is flushed by *)
(* the thread that writes it                                               *)
AfterWrite(lvl) ==
  IF syslogd THEN "send" ELSE IF lvl = "WARN" THEN "flush" ELSE "idle"

klog_write(t, lvl) ==
  /\ pc[t] = "idle"
  /\ global_seq < MaxSeq
  /\ ring' = [ring EXCEPT ![head] = [seq |-> global_seq + 1, level |-> lvl]]
  /\ global_seq' = global_seq + 1
  /\ head' = (head + 1) % SIZE
  /\ count' = Counted
  /\ sending' = IF syslogd THEN [sending EXCEPT ![t] = ring'[head]] ELSE sending
  /\ pc' = [pc EXCEPT ![t] = AfterWrite(lvl)]
  /\ UNCHANGED <<file_seq, file, syslogd, snap, unopened, io>>

(* klog_write: the one-way IPC to syslogd, with a zero send timeout; what    *)
(* becomes of it is up to the server                                       *)
klog_send(t) ==
  /\ pc[t] = "send"
  /\ pc' = [pc EXCEPT ![t] = "idle"]
  /\ UNCHANGED <<ring, head, count, global_seq, file_seq, syslogd, sending, snap, io>>

(* klog_flush called by itself (the shell's dmesg -s, startup, login); with *)
(* syslogd it returns at once                                              *)
klog_flush(t) ==
  /\ pc[t] = "idle" /\ ~syslogd
  /\ pc' = [pc EXCEPT ![t] = "flush"]
  /\ UNCHANGED <<ring, head, count, global_seq, file_seq, file, syslogd, sending, snap, unopened, io>>

(* klog_flush: copy the ring under the lock; return if nothing is new *)
flush_snapshot(t) ==
  /\ pc[t] = "flush"
  /\ LET s == [ring |-> ring, head |-> head, count |-> count, file_seq |-> file_seq]
     IN  \/ /\ SomeNew(s)
            /\ pc' = [pc EXCEPT ![t] = "append"] /\ snap' = [snap EXCEPT ![t] = s]
         \/ /\ ~SomeNew(s)
            /\ pc' = [pc EXCEPT ![t] = "idle"] /\ UNCHANGED snap
  /\ UNCHANGED <<ring, head, count, global_seq, file_seq, file, syslogd, sending, unopened, io>>

Listed(s) == {s[k] : k \in DOMAIN s}

(* klog_flush: fopen for append and fseek to the end, without the lock. The  *)
(* end is the one of this moment, whatever others write later.              *)
flush_open(t) ==
  LET others == {u \in Threads : pc[u] = "write"}
  IN  /\ pc[t] = "append"
      /\ pc' = [pc EXCEPT ![t] = "write"]
      /\ left' = [left EXCEPT ![t] = NewSeqs(snap[t])]
      /\ pos' = [pos EXCEPT ![t] = Len(file)]
      /\ raced' = IF others = {} THEN raced
                  ELSE raced \cup UNION {Listed(left'[u]) : u \in others \cup {t}}
      /\ UNCHANGED <<ring, head, count, global_seq, file_seq, file, syslogd, sending, snap, unopened>>

(* t goes on behind what it wrote, or with O_APPEND at the end.  It can move *)
(* the lines before a later position, which may then lie anywhere behind.   *)
Moved(t, n, p) ==
  /\ p[t] \in {pos[t] + n, Len(file')}
  /\ \A u \in Threads \ {t} : IF pos[u] <= pos[t] THEN p[u] = pos[u] ELSE p[u] >= pos[t]

(* The old lines up to `over' that n written ones destroy.  A line written   *)
(* over itself changes nothing; from the first other one on the lengths     *)
(* differ, and any number can go.                                           *)
Destroys(t, n, over) ==
  LET Old(k)  == pos[t] + k <= Len(file)
      Same(k) == Old(k) /\ file[pos[t] + k] = left[t][k]
  IN  /\ \A k \in 1 .. n : Old(k) /\ (\A j \in 1 .. k - 1 : Same(j)) => over >= pos[t] + k
      /\ (\A k \in 1 .. n : Same(k)) => over = pos[t] + n

(* klog_flush: fprintf of the new entries and fclose, without the lock: the  *)
(* stream writes n lines out, over old ones if others have written there.    *)
(* The results of fprintf and fclose are not looked at; here they succeed.   *)
flush_write(t) ==
  /\ pc[t] = "write"
  /\ \E n \in 1 .. Len(left[t]), over \in pos[t] .. Len(file) :
       /\ Destroys(t, n, over)
       /\ file' = SubSeq(file, 1, pos[t]) \o SubSeq(left[t], 1, n)
                    \o SubSeq(file, over + 1, Len(file))
       /\ left' = [left EXCEPT ![t] = SubSeq(left[t], n + 1, Len(left[t]))]
       /\ \E p \in [Threads -> 0 .. Len(file')] :
            /\ Moved(t, n, p)
            /\ \/ n < Len(left[t]) /\ pos' = p /\ UNCHANGED pc
               \/ /\ n = Len(left[t]) /\ pos' = [p EXCEPT ![t] = 0]       \* fclose
                  /\ pc' = [pc EXCEPT ![t] = "mark"]
  /\ UNCHANGED <<ring, head, count, global_seq, file_seq, syslogd, sending, snap, unopened, raced>>

(* klog_flush: fopen fails, silently; a later flush tries again *)
flush_no_file(t) ==
  /\ pc[t] = "append"
  /\ unopened' = unopened \cup Listed(NewSeqs(snap[t]))
  /\ pc' = [pc EXCEPT ![t] = "idle"] /\ snap' = [snap EXCEPT ![t] = NoSnap]
  /\ UNCHANGED <<ring, head, count, global_seq, file_seq, file, syslogd, sending, io>>

(* klog_flush: g_file_seq is raised under the lock *)
flush_mark(t) ==
  /\ pc[t] = "mark"
  /\ file_seq' = Marked(snap[t])
  /\ pc' = [pc EXCEPT ![t] = "idle"] /\ snap' = [snap EXCEPT ![t] = NoSnap]
  /\ UNCHANGED <<ring, head, count, global_seq, file, syslogd, sending, unopened, io>>

(* klog_clear: the ring is zeroed, the sequence numbers go on *)
klog_clear(t) ==
  /\ pc[t] = "idle"
  /\ ring' = [p \in Places |-> Empty] /\ head' = 0 /\ count' = 0
  /\ UNCHANGED <<global_seq, file_seq, file, pc, syslogd, sending, snap, unopened, io>>

Init ==
  /\ ring = [p \in Places |-> Empty] /\ head = 0 /\ count = 0
  /\ global_seq = 0 /\ file_seq = 0 /\ file = <<>>
  /\ syslogd \in BOOLEAN /\ sending = [t \in Threads |-> Empty]
  /\ pc = [t \in Threads |-> "idle"] /\ snap = [t \in Threads |-> NoSnap]
  /\ left = [t \in Threads |-> <<>>] /\ pos = [t \in Threads |-> 0]
  /\ unopened = {} /\ raced = {}

(* everything a thread does by itself *)
LocalStep(t) ==
  \/ \E lvl \in Levels : klog_write(t, lvl)
  \/ klog_flush(t) \/ klog_clear(t)
  \/ flush_snapshot(t) \/ flush_open(t) \/ flush_write(t) \/ flush_no_file(t) \/ flush_mark(t)

Next ==
  \E t \in Threads :
    LocalStep(t) \/ (klog_send(t) /\ UNCHANGED <<file, unopened>>)

Spec == Init /\ [][Next]_vars

-----------------------------------------------------------------------------
(* Properties *)

Entries == [seq : Nat, level : Levels]

TypeOK ==
  /\ ring \in [Places -> Entries] /\ head \in Places /\ count \in 0 .. SIZE
  /\ global_seq \in Nat /\ file_seq \in Nat
  /\ file \in Seq(Nat)
  /\ pc \in [Threads -> {"idle", "flush", "append", "write", "mark", "send"}]
  /\ syslogd \in BOOLEAN /\ sending \in [Threads -> Entries]
  /\ snap \in [Threads -> [ring : [Places -> Entries], head : Places,
                           count : 0 .. SIZE, file_seq : Nat]]
  /\ left \in [Threads -> Seq(Nat)] /\ pos \in [Threads -> Nat]
  /\ unopened \subseteq Nat /\ raced \subseteq Nat

(* The ring shows the last entries and nothing else: what klog_dump and        *)
(* klog_flush read from the oldest place on, wrap-around included, are the     *)
(* numbers up to g_global_seq without a gap (klog.cc, klog_write and dump).   *)
RingConsistent ==
  \A i \in 0 .. count - 1 :
    ring[Place(head, count, i)].seq = global_seq - count + 1 + i

InFile(q) == \E k \in DOMAIN file : file[k] = q

(* An entry still in the ring that counts as written is in the file, whatever *)
(* the other threads logged, flushed or marked meanwhile, unless the flush    *)
(* that wrote it overlapped with another (klog_flush's two critical sections). *)
FlushedInFile ==
  \A i \in 0 .. count - 1 :
    LET e == ring[Place(head, count, i)]
    IN  e.seq <= file_seq => InFile(e.seq) \/ e.seq \in raced

(* Without syslogd, a warning is on disk when no thread is in klog_flush any   *)
(* more, also when its own flush found that another thread had written it,    *)
(* unless the file could not be opened for it or flushes overlapped.          *)
WarnOnDisk ==
  ~syslogd /\ (\A t \in Threads : pc[t] = "idle") =>
    \A i \in 0 .. count - 1 :
      LET e == ring[Place(head, count, i)]
      IN  e.level = "WARN" => InFile(e.seq) \/ e.seq \in unopened \/ e.seq \in raced

(* The file holds every entry once and in order: the sequence number is there *)
(* "for de-duplication on append" (klog.cc, klog_entry::seq), "every flush     *)
(* writes only new entries" (docs/todo.md).                                  *)
FileInOrder ==
  \A j, k \in DOMAIN file : j < k => file[j] < file[k]

=============================================================================
