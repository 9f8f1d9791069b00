------------------------------ MODULE LogProofs ------------------------------
(***************************************************************************)
(* Proofs about Klog.tla and Syslogd.tla: what the ring shows, what is in  *)
(* the log file and in which order, for any number of threads, any size of *)
(* the ring and any number of entries.                                     *)
(***************************************************************************)
EXTENDS Syslogd, DataLemmas

(* The i-th oldest entry of the ring, and of a thread's copy. *)
Entry(i)   == ring[Place(head, count, i)]
CopyOf(s, i) == s.ring[Place(s.head, s.count, i)]

(* The numbers of the entries that a copy holds. *)
Top(s)    == CopyOf(s, s.count - 1).seq
Copied(s) == Top(s) - s.count + 1 .. Top(s)

(* An entry that can only be missing from the file because flushes overlapped, *)
(* and one that a thread is about to write.                                  *)
Safe(q)       == InFile(q) \/ q \in raced
ToWrite(t, q) == \E k \in DOMAIN left[t] : left[t][k] = q

CounterInv == count <= global_seq /\ global_seq <= MaxSeq /\ file_seq <= global_seq

(* A copy holds consecutive entries of the past: none is younger than the     *)
(* ring's youngest, its oldest is not younger than the ring's oldest, and     *)
(* what it has to write is written when it goes on to raise the mark.         *)
CopyInv(t) ==
  LET s == snap[t]
  IN  /\ s.count >= 1
      /\ \A i \in 0 .. s.count - 1 : CopyOf(s, i).seq = Top(s) - s.count + 1 + i
      /\ Top(s) <= global_seq /\ Top(s) - s.count + 1 <= global_seq - count + 1
      /\ s.file_seq <= file_seq
      /\ pc[t] = "write" => \A q \in Copied(s) : q > s.file_seq => Safe(q) \/ ToWrite(t, q)
      /\ pc[t] = "mark" => \A q \in Copied(s) : q > s.file_seq => Safe(q)

SnapInv == \A t \in Threads : pc[t] \in {"append", "write", "mark"} => CopyInv(t)

(* What lies behind the position of an open file was written by overlapping   *)
(* flushes, and so is what any two open files have still to come.            *)
WriterInv ==
  \A t \in Threads : pc[t] = "write" =>
    /\ pos[t] <= Len(file)
    /\ \A k \in DOMAIN file : k > pos[t] => file[k] \in raced
    /\ \A u \in Threads : u # t /\ pc[u] = "write" =>
         \A k \in DOMAIN left[t] : left[t][k] \in raced

(* klog_flush and the messages to syslogd exclude each other. *)
ModeInv ==
  /\ syslogd => \A t \in Threads : pc[t] \in {"idle", "send"}
  /\ ~syslogd => /\ \A t \in Threads : pc[t] # "send"
                 /\ at = "wait" /\ taken = <<>> /\ buffer = <<>>

(* A warning that is not on disk is on its way. *)
OnItsWay(q) ==
  \E t \in Threads :
    \/ pc[t] = "flush"
    \/ pc[t] = "append" /\ q \in Copied(snap[t]) /\ q > snap[t].file_seq
    \/ pc[t] = "write" /\ ToWrite(t, q)

WarnInv ==
  ~syslogd =>
    \A i \in 0 .. count - 1 :
      Entry(i).level = "WARN" =>
        Safe(Entry(i).seq) \/ Entry(i).seq \in unopened \/ OnItsWay(Entry(i).seq)

(* op_log works on the line it received last, with the file open once it      *)
(* writes, and has not yet counted more than it may.                         *)
ServerInv ==
  /\ ~fopened => buffer = <<>>
  /\ at # "wait" => taken # <<>> /\ line = taken[Len(taken)] /\ line.len \in LineLens
  /\ at \in {"write", "flush"} => fopened
  /\ at = "flush" => InBuffer(line.seq)
  /\ at = "write" => written < REOPEN_BYTES

(* Durable before the line in work is done. *)
DurableInv ==
  \A j, k \in DOMAIN taken :
    j <= k /\ taken[k].level = "WARN" /\ taken[k].seq \notin unopened
      => \/ InFile(taken[j].seq) \/ taken[j].seq \in unopened
         \/ at # "wait" /\ k = Len(taken)

(* An entry is sent once, and a thread sends its entries in their order. *)
SendInv ==
  /\ \A k \in DOMAIN taken : taken[k].seq <= global_seq
  /\ \A j, k \in DOMAIN taken : taken[j].seq = taken[k].seq => j = k
  /\ \A t \in Threads : pc[t] = "send" =>
       /\ sending[t].seq <= global_seq
       /\ \A k \in DOMAIN taken : taken[k].seq # sending[t].seq
       /\ \A k \in DOMAIN taken : taken[k].by = t => taken[k].seq < sending[t].seq
       /\ \A u \in Threads : u # t /\ pc[u] = "send" => sending[u].seq # sending[t].seq

(* The log as it will be on disk: all of it was received, and the line in     *)
(* work comes after what its thread has there.                              *)
Log == file \o Seqs(buffer)
By(q, t) == \E k \in DOMAIN taken : taken[k].seq = q /\ taken[k].by = t

OrderInv ==
  syslogd =>
    /\ \A j \in DOMAIN Log : \E k \in DOMAIN taken : taken[k].seq = Log[j]
    /\ \A j, k \in DOMAIN Log, t \in Threads :
         j < k /\ By(Log[j], t) /\ By(Log[k], t) => Log[j] < Log[k]
    /\ at \in {"open", "write"} =>
         \A j \in DOMAIN Log : By(Log[j], line.by) => Log[j] < line.seq

KlogInv == TypeOK /\ CounterInv /\ RingConsistent /\ FlushedInFile /\ SnapInv /\ WriterInv /\ WarnInv

SysInv == SysTypeOK /\ ServerInv /\ TakenKept /\ DurableInv /\ BufferBounded /\ OrderInv

IInv == KlogInv /\ SysInv /\ ModeInv /\ SendInv

-----------------------------------------------------------------------------
(* The ring *)

(* Where the i-th oldest entry is, without a division. *)
LEMMA PlaceIs ==
  ASSUME NEW hd \in Places, NEW n \in 0 .. SIZE, NEW i \in 0 .. SIZE - 1
  PROVE  /\ Place(hd, n, i) \in Places
         /\ Place(hd, n, i) =
              IF hd - n + i >= SIZE THEN hd - n + i - SIZE
              ELSE IF hd - n + i >= 0 THEN hd - n + i ELSE hd - n + i + SIZE
<1> DEFINE old == (hd - n + SIZE) % SIZE
<1>1. old = IF hd - n >= 0 THEN hd - n ELSE hd - n + SIZE
  <2>1. CASE hd - n >= 0
    BY <2>1, KlogAssumption DEF Places
  <2>2. CASE hd - n < 0
    BY <2>2, KlogAssumption DEF Places
  <2> QED
    BY <2>1, <2>2 DEF Places
<1>2. old \in 0 .. SIZE - 1
  BY <1>1, KlogAssumption DEF Places
<1> HIDE DEF old
<1>3. (old + i) % SIZE = IF old + i >= SIZE THEN old + i - SIZE ELSE old + i
  BY <1>2, KlogAssumption
<1>4. Place(hd, n, i) = (old + i) % SIZE
  BY DEF Place, old
<1> QED
  BY <1>1, <1>2, <1>3, <1>4, KlogAssumption DEF Places

(* A write puts its entry last and moves the others up when the ring is full. *)
LEMMA PlaceNext ==
  ASSUME NEW hd \in Places, NEW n \in 0 .. SIZE,
         NEW m, m = IF n < SIZE THEN n + 1 ELSE n
  PROVE  /\ (hd + 1) % SIZE \in Places /\ m \in 1 .. SIZE
         /\ Place((hd + 1) % SIZE, m, m - 1) = hd
         /\ \A i \in 0 .. m - 2 :
              /\ i + n - m + 1 \in 0 .. n - 1
              /\ Place((hd + 1) % SIZE, m, i) = Place(hd, n, i + n - m + 1)
              /\ Place(hd, n, i + n - m + 1) # hd
<1> DEFINE nh == (hd + 1) % SIZE
<1>1. nh = (IF hd + 1 = SIZE THEN 0 ELSE hd + 1) /\ nh \in Places
  BY RingNext, KlogAssumption DEF Places
<1>2. m \in 1 .. SIZE
  BY KlogAssumption
<1> HIDE DEF nh
<1>3. Place(nh, m, m - 1) = hd
  <2>1. m - 1 \in 0 .. SIZE - 1 /\ m \in 0 .. SIZE
    BY <1>2, KlogAssumption
  <2> DEFINE k == m - 1
  <2>2. Place(nh, m, k) = IF nh - m + k >= SIZE THEN nh - m + k - SIZE
                          ELSE IF nh - m + k >= 0 THEN nh - m + k ELSE nh - m + k + SIZE
    <3> HIDE DEF k
    <3> QED
      BY <1>1, <2>1, PlaceIs DEF k
  <2> QED
    BY <1>1, <1>2, <2>2, KlogAssumption DEF Places
<1>4. ASSUME NEW i \in 0 .. m - 2
      PROVE  /\ i + n - m + 1 \in 0 .. n - 1
             /\ Place(nh, m, i) = Place(hd, n, i + n - m + 1)
             /\ Place(hd, n, i + n - m + 1) # hd
  <2>1. /\ i \in 0 .. SIZE - 1 /\ m \in 0 .. SIZE
        /\ i + n - m + 1 \in 0 .. SIZE - 1 /\ i + n - m + 1 \in 0 .. n - 1
    BY <1>2, KlogAssumption
  <2>2. Place(nh, m, i) = IF nh - m + i >= SIZE THEN nh - m + i - SIZE
                          ELSE IF nh - m + i >= 0 THEN nh - m + i ELSE nh - m + i + SIZE
    BY <1>1, <2>1, PlaceIs
  <2> DEFINE k == i + n - m + 1
  <2>3. Place(hd, n, k) = IF hd - n + k >= SIZE THEN hd - n + k - SIZE
                          ELSE IF hd - n + k >= 0 THEN hd - n + k ELSE hd - n + k + SIZE
    BY <2>1, PlaceIs
  <2> QED
    BY <1>1, <1>2, <2>1, <2>2, <2>3, KlogAssumption DEF Places
<1> QED
  BY <1>1, <1>2, <1>3, <1>4 DEF nh

(* The same of the entries. *)
LEMMA EntryNext ==
  ASSUME TypeOK, NEW t, NEW lvl, klog_write(t, lvl), NEW m, m = Counted
  PROVE  /\ count' = m /\ m \in 1 .. SIZE /\ head' \in Places
         /\ Entry(m - 1)' = [seq |-> global_seq + 1, level |-> lvl]
         /\ \A i \in 0 .. m - 2 :
              /\ i + count - m + 1 \in 0 .. count - 1
              /\ Entry(i)' = Entry(i + count - m + 1)
<1>1. count' = m /\ head' = (head + 1) % SIZE /\ head \in Places /\ count \in 0 .. SIZE
  BY DEF klog_write, TypeOK
<1>2. ring' = [ring EXCEPT ![head] = [seq |-> global_seq + 1, level |-> lvl]]
  BY DEF klog_write
<1>3. /\ head' \in Places /\ m \in 1 .. SIZE /\ Place(head', m, m - 1) = head
      /\ \A i \in 0 .. m - 2 :
           /\ i + count - m + 1 \in 0 .. count - 1
           /\ Place(head', m, i) = Place(head, count, i + count - m + 1)
           /\ Place(head, count, i + count - m + 1) # head
  BY <1>1, PlaceNext DEF Counted
<1>4. Entry(m - 1)' = [seq |-> global_seq + 1, level |-> lvl]
  BY <1>1, <1>2, <1>3 DEF Entry, TypeOK
<1>5. ASSUME NEW i \in 0 .. m - 2
      PROVE  Entry(i)' = Entry(i + count - m + 1)
  <2>1. i + count - m + 1 \in 0 .. SIZE - 1
    BY <1>1, <1>3, KlogAssumption
  <2>2. Place(head, count, i + count - m + 1) \in Places
    BY <1>1, <2>1, PlaceIs
  <2> QED
    BY <1>1, <1>2, <1>3, <2>2 DEF Entry, TypeOK
<1> QED
  BY <1>1, <1>3, <1>4, <1>5

-----------------------------------------------------------------------------
(* The file and the sequences of the log *)

(* The file only grows. *)
LEMMA FileGrows ==
  ASSUME file \in Seq(Nat), NEW x \in Seq(Nat), file' = file \o x
  PROVE  /\ file' \in Seq(Nat)
         /\ \A q : InFile(q) => InFile(q)'
         /\ \A k \in DOMAIN x : InFile(x[k])'
<1>1. /\ file' \in Seq(Nat) /\ Len(file') = Len(file) + Len(x)
      /\ \A k \in 1 .. Len(file) : file'[k] = file[k]
      /\ \A k \in 1 .. Len(x) : file'[Len(file) + k] = x[k]
  BY Joined
<1>2. /\ DOMAIN file = 1 .. Len(file) /\ DOMAIN x = 1 .. Len(x) /\ DOMAIN file' = 1 .. Len(file')
      /\ Len(file) \in Nat /\ Len(x) \in Nat
  BY <1>1, LenProperties
<1>3. ASSUME NEW q, InFile(q)
      PROVE  InFile(q)'
  <2>1. PICK k \in DOMAIN file : file[k] = q
    BY <1>3 DEF InFile
  <2>2. k \in DOMAIN file' /\ file'[k] = q
    BY <1>1, <1>2, <2>1
  <2> QED
    BY <2>2 DEF InFile
<1>4. ASSUME NEW k \in DOMAIN x
      PROVE  InFile(x[k])'
  <2>1. Len(file) + k \in DOMAIN file' /\ file'[Len(file) + k] = x[k]
    BY <1>1, <1>2
  <2> QED
    BY <2>1 DEF InFile
<1> QED
  BY <1>1, <1>3, <1>4

(* What a copy has to write: its entries beyond the mark. *)
LEMMA NewSeqsAre ==
  ASSUME NEW s, s \in [ring : [Places -> Entries], head : Places, count : 0 .. SIZE, file_seq : Nat]
  PROVE  /\ NewSeqs(s) \in Seq(Nat)
         /\ \A i \in 0 .. s.count - 1 :
              CopyOf(s, i).seq > s.file_seq =>
                \E k \in DOMAIN NewSeqs(s) : NewSeqs(s)[k] = CopyOf(s, i).seq
<1> DEFINE all  == [i \in 1 .. s.count |-> s.ring[Place(s.head, s.count, i - 1)].seq]
           keep == {i \in 1 .. s.count : IsNew(s, i - 1)}
<1>0. s.count \in 0 .. SIZE /\ s.head \in Places /\ s.ring \in [Places -> Entries]
  OBVIOUS
<1>1. ASSUME NEW i \in 1 .. s.count
      PROVE  s.ring[Place(s.head, s.count, i - 1)].seq \in Nat
  <2>1. i - 1 \in 0 .. SIZE - 1
    BY <1>0, KlogAssumption
  <2>2. Place(s.head, s.count, i - 1) \in Places
    BY <1>0, <2>1, PlaceIs
  <2> QED
    BY <1>0, <2>2 DEF Entries
<1>2. all \in Seq(Nat) /\ DOMAIN all = 1 .. s.count
  BY <1>0, <1>1, KlogAssumption
<1>3. NewSeqs(s) = Kept(all, keep)
  BY DEF NewSeqs
<1>4. ASSUME NEW i \in 0 .. s.count - 1, CopyOf(s, i).seq > s.file_seq
      PROVE  i + 1 \in DOMAIN all /\ i + 1 \in keep /\ all[i + 1] = CopyOf(s, i).seq
  <2>1. i + 1 \in 1 .. s.count /\ (i + 1) - 1 = i
    BY <1>0, KlogAssumption
  <2>2. IsNew(s, i)
    BY <1>4 DEF IsNew, CopyOf
  <2> QED
    BY <2>1, <2>2 DEF CopyOf
<1> HIDE DEF all, keep
<1>7. PICK kp : kp = keep
  OBVIOUS
<1>5. PICK a \in Seq(Nat) : a = all
  BY <1>2
<1>6. /\ Kept(a, kp) \in Seq(Nat)
      /\ \A i \in DOMAIN a : i \in kp => \E k \in DOMAIN Kept(a, kp) : Kept(a, kp)[k] = a[i]
  <2>1. Kept(a, kp) \in Seq(Nat)
    BY KeptPicks, Zenon
  <2>2. PICK S : a \in Seq(S)
    BY Zenon
  <2> QED
    BY <2>1, <2>2, KeptEntries
<1> QED
  BY <1>3, <1>4, <1>7, <1>5, <1>6

-----------------------------------------------------------------------------
(* The steps of libklog *)

(* What syslogd has does not depend on the ring. *)
LEMMA SysSame ==
  ASSUME SysInv, UNCHANGED <<sysvars, file, unopened, syslogd>>
  PROVE  SysInv'
<1> USE DEF SysInv, sysvars
<1>1. SysTypeOK'
  BY DEF SysTypeOK
<1>2. ServerInv'
  BY DEF ServerInv, InBuffer
<1>5. TakenKept'
  BY DEF TakenKept, InBuffer, InFile
<1>6. DurableInv'
  BY DEF DurableInv, InFile
<1>3. BufferBounded'
  BY DEF BufferBounded
<1>4. OrderInv'
  <2>1. Log' = Log
    BY DEF Log, Seqs
  <2> QED
    BY <2>1 DEF OrderInv, By
<1> QED
  BY <1>1, <1>2, <1>3, <1>4, <1>5, <1>6

(* Without syslogd there is nothing it could have. *)
LEMMA SysNone ==
  ASSUME SysInv, UNCHANGED <<sysvars, syslogd>>, taken = <<>>, buffer = <<>>, at = "wait", ~syslogd
  PROVE  SysInv'
<1> USE DEF SysInv, sysvars
<1>1. SysTypeOK'
  BY DEF SysTypeOK
<1>2. ServerInv'
  BY DEF ServerInv, InBuffer
<1>3. TakenKept' /\ DurableInv'
  BY DEF TakenKept, DurableInv
<1>4. BufferBounded'
  BY DEF BufferBounded
<1>5. OrderInv'
  BY DEF OrderInv
<1> QED
  BY <1>1, <1>2, <1>3, <1>4, <1>5

(* No thread starts to send. *)
LEMMA SendSame ==
  ASSUME SendInv, UNCHANGED <<taken, sending, global_seq>>,
         \A t \in Threads : pc'[t] = "send" => pc[t] = "send"
  PROVE  SendInv'
BY DEF SendInv

(* A thread that is in klog_flush shows that there is no syslogd. *)
LEMMA NoSyslogd ==
  ASSUME ModeInv, NEW t \in Threads, pc[t] \in {"flush", "append", "write", "mark"}
  PROVE  ~syslogd /\ taken = <<>> /\ buffer = <<>> /\ at = "wait"
BY DEF ModeInv

(* What a line consists of. *)
LEMMA LineType ==
  ASSUME NEW ls \in Seq(Lines), NEW k \in DOMAIN ls
  PROVE  /\ ls[k] \in Lines /\ ls[k].seq \in Nat
         /\ ls[k].by \in Threads /\ ls[k].len \in Nat
<1>1. ls[k] \in Lines
  OBVIOUS
<1>2. \A l \in Lines : l.seq \in Nat /\ l.by \in Threads /\ l.len \in LineLens \cup {0}
  BY DEF Lines
<1>3. LineLens \cup {0} \subseteq Nat
  BY SyslogdAssumption
<1> QED
  BY <1>1, <1>2, <1>3

(* The last number of a copy. *)
LEMMA CopyType ==
  ASSUME TypeOK, NEW u \in Threads, snap[u].count >= 1
  PROVE  Top(snap[u]) \in Nat /\ snap[u].count \in 1 .. SIZE /\ snap[u].file_seq \in Nat
<1>1. /\ snap[u].count - 1 \in 0 .. SIZE - 1 /\ snap[u].count \in 0 .. SIZE
      /\ snap[u].head \in Places /\ snap[u].file_seq \in Nat /\ snap[u].ring \in [Places -> Entries]
  BY KlogAssumption DEF TypeOK
<1>2. Place(snap[u].head, snap[u].count, snap[u].count - 1) \in Places
  BY <1>1, PlaceIs
<1> QED
  BY <1>1, <1>2 DEF Top, CopyOf, Entries

(* A copy stays a copy of the past, whatever the other threads do. *)
LEMMA CopyKept ==
  ASSUME TypeOK, NEW u \in Threads, CopyInv(u), pc'[u] = pc[u], snap'[u] = snap[u],
         global_seq' \in Nat, count' \in 0 .. SIZE, file_seq' \in Nat,
         global_seq <= global_seq', global_seq - count <= global_seq' - count',
         file_seq <= file_seq', left'[u] = left[u], \A q : Safe(q) => Safe(q)'
  PROVE  CopyInv(u)'
<1>1. Top(snap[u])' = Top(snap[u]) /\ Copied(snap[u])' = Copied(snap[u])
  BY DEF Top, CopyOf, Copied
<1>2. PICK tp : tp = Top(snap[u])
  OBVIOUS
<1>3. tp \in Nat /\ snap[u].count \in 1 .. SIZE /\ snap[u].file_seq \in Nat
  BY <1>2, CopyType DEF CopyInv
<1>4. global_seq \in Nat /\ count \in 0 .. SIZE /\ file_seq \in Nat
  BY DEF TypeOK
<1>5. /\ (\A i \in 0 .. snap[u].count - 1 : CopyOf(snap[u], i).seq = Top(snap[u]) - snap[u].count + 1 + i)'
      /\ (pc[u] = "write" => \A q \in Copied(snap[u]) : q > snap[u].file_seq => Safe(q) \/ ToWrite(u, q))'
      /\ (pc[u] = "mark" => \A q \in Copied(snap[u]) : q > snap[u].file_seq => Safe(q))'
  BY <1>1 DEF CopyInv, CopyOf, ToWrite
<1>6. tp <= global_seq /\ tp - snap[u].count + 1 <= global_seq - count + 1 /\ snap[u].file_seq <= file_seq
  BY <1>2 DEF CopyInv
<1> DEFINE c == snap[u].count
           f == snap[u].file_seq
<1>7. c \in Nat /\ f \in Nat /\ c >= 1 /\ tp <= global_seq /\ tp - c + 1 <= global_seq - count + 1 /\ f <= file_seq
  BY <1>3, <1>6
<1>8. (Top(snap[u]))' = tp /\ (snap[u].count)' = c /\ (snap[u].file_seq)' = f
  BY <1>1, <1>2
<1> HIDE DEF c, f
<1>9. tp <= global_seq' /\ tp - c + 1 <= global_seq' - count' + 1 /\ f <= file_seq'
  <2>1. \A a, b, x, y, z, w \in Nat : a - b <= x - y /\ z - w + 1 <= a - b + 1 => z - w + 1 <= x - y + 1
    OBVIOUS
  <2>2. count \in Nat /\ count' \in Nat
    BY <1>4, KlogAssumption
  <2>3. tp - c + 1 <= global_seq' - count' + 1
    BY <1>3, <1>4, <1>7, <2>1, <2>2
  <2>4. tp <= global_seq' /\ f <= file_seq'
    BY <1>3, <1>4, <1>7
  <2> QED
    BY <2>3, <2>4
<1>10. /\ (snap[u].count >= 1)' /\ (Top(snap[u]) <= global_seq)' /\ (snap[u].file_seq <= file_seq)'
       /\ (Top(snap[u]) - snap[u].count + 1 <= global_seq - count + 1)'
  BY <1>7, <1>8, <1>9
<1> QED
  BY <1>5, <1>10, Zenon DEF CopyInv

(* A step that leaves the file and what is open alone. *)
LEMMA FileSame ==
  ASSUME WriterInv, UNCHANGED <<file, left, pos, raced>>,
         \A u \in Threads : pc'[u] = "write" => pc[u] = "write"
  PROVE  WriterInv' /\ \A q : Safe(q)' = Safe(q)
BY DEF WriterInv, Safe, InFile

(* What is on its way stays so when the thread does not move. *)
LEMMA StillOnItsWay ==
  ASSUME NEW q, OnItsWay(q), NEW t \in Threads, pc[t] # "flush",
         pc[t] # "append", pc[t] # "write",
         \A u \in Threads : u # t => pc'[u] = pc[u] /\ snap'[u] = snap[u] /\ left'[u] = left[u]
  PROVE  OnItsWay(q)'
<1>1. PICK u \in Threads : \/ pc[u] = "flush"
                           \/ pc[u] = "append" /\ q \in Copied(snap[u]) /\ q > snap[u].file_seq
                           \/ pc[u] = "write" /\ ToWrite(u, q)
  BY DEF OnItsWay
<1>2. u # t /\ pc'[u] = pc[u] /\ snap'[u] = snap[u] /\ left'[u] = left[u]
  BY <1>1
<1> QED
  BY <1>1, <1>2 DEF OnItsWay, Copied, Top, CopyOf, ToWrite

(* klog_write. *)
LEMMA WriteInv ==
  ASSUME IInv, NEW t \in Threads, NEW lvl \in Levels, klog_write(t, lvl), UNCHANGED sysvars
  PROVE  IInv'
<1> USE DEF IInv, KlogInv
<1> DEFINE new == [seq |-> global_seq + 1, level |-> lvl]
<1>1. PICK m : m = Counted
  OBVIOUS
<1>2. /\ count' = m /\ m \in 1 .. SIZE /\ head' \in Places
      /\ Entry(m - 1)' = new
      /\ \A i \in 0 .. m - 2 : i + count - m + 1 \in 0 .. count - 1 /\ Entry(i)' = Entry(i + count - m + 1)
  BY <1>1, EntryNext
<1>3. /\ global_seq' = global_seq + 1 /\ global_seq < MaxSeq /\ pc[t] = "idle"
      /\ pc' = [pc EXCEPT ![t] = AfterWrite(lvl)]
      /\ sending' = IF syslogd THEN [sending EXCEPT ![t] = new] ELSE sending
      /\ UNCHANGED <<file_seq, file, syslogd, snap, unopened, left, pos, raced>>
  <2>1. ring'[head] = new
    BY DEF klog_write, TypeOK
  <2> QED
    BY <2>1 DEF klog_write, io
<1>4. /\ count \in 0 .. SIZE /\ global_seq \in Nat /\ file_seq \in Nat
      /\ count <= global_seq /\ file_seq <= global_seq /\ m \in {count, count + 1}
  BY <1>1 DEF TypeOK, CounterInv, Counted
<1>5. AfterWrite(lvl) \in {"send", "flush", "idle"}
  BY DEF AfterWrite
<1>6. TypeOK'
  <2>1. new \in Entries
    BY <1>4 DEF Entries
  <2>2. ring' \in [Places -> Entries]
    BY <2>1 DEF klog_write, TypeOK
  <2>3. pc' \in [Threads -> {"idle", "flush", "append", "write", "mark", "send"}]
    BY <1>3, <1>5 DEF TypeOK
  <2>4. sending' \in [Threads -> Entries]
    BY <1>3, <2>1 DEF TypeOK
  <2> QED
    BY <1>2, <1>3, <1>4, <2>2, <2>3, <2>4 DEF TypeOK
<1>7. CounterInv'
  BY <1>2, <1>3, <1>4, KlogAssumption DEF CounterInv
<1>8. \A i \in 0 .. m - 1 : i = m - 1 \/ i \in 0 .. m - 2
  BY <1>2
<1>9. RingConsistent'
  <2>1. ASSUME NEW i \in 0 .. m - 1
        PROVE  Entry(i)'.seq = (global_seq + 1) - m + 1 + i
    <3>1. CASE i = m - 1
      BY <1>2, <1>4, <3>1
    <3>2. CASE i \in 0 .. m - 2
      <4>1. PICK j : j = i + count - m + 1
        OBVIOUS
      <4>2. j \in 0 .. count - 1 /\ Entry(i)' = Entry(j)
        BY <1>2, <3>2, <4>1
      <4>3. Entry(j).seq = global_seq - count + 1 + j
        BY <4>2 DEF RingConsistent, Entry
      <4> QED
        BY <1>2, <1>4, <4>1, <4>2, <4>3
    <3> QED
      BY <1>8, <3>1, <3>2
  <2> QED
    BY <1>2, <1>3, <2>1 DEF RingConsistent, Entry
<1>10. FlushedInFile'
  <2>1. ASSUME NEW i \in 0 .. m - 1, Entry(i)'.seq <= file_seq
        PROVE  Safe(Entry(i)'.seq)
    <3>1. i # m - 1
      BY <1>2, <1>4, <2>1
    <3>2. PICK j : j = i + count - m + 1
      OBVIOUS
    <3>3. j \in 0 .. count - 1 /\ Entry(i)' = Entry(j)
      BY <1>2, <1>8, <3>1, <3>2
    <3> QED
      BY <2>1, <3>3 DEF FlushedInFile, Entry, Safe
  <2> QED
    BY <1>2, <1>3, <2>1 DEF FlushedInFile, Entry, InFile, Safe
<1>11. \A u \in Threads : u # t => pc'[u] = pc[u]
  BY <1>3 DEF TypeOK
<1>12. pc'[t] = AfterWrite(lvl)
  BY <1>3 DEF TypeOK
<1>18. WriterInv' /\ \A q : Safe(q)' = Safe(q)
  BY <1>3, <1>5, <1>11, <1>12, FileSame
<1>13. SnapInv'
  <2>1. ASSUME NEW u \in Threads, pc'[u] \in {"append", "write", "mark"}
        PROVE  CopyInv(u)'
    <3>1. u # t /\ pc'[u] = pc[u] /\ CopyInv(u)
      BY <1>5, <1>11, <1>12, <2>1 DEF SnapInv
    <3>2. snap' = snap /\ left' = left /\ \A q : Safe(q) => Safe(q)'
      BY <1>3, <1>18
    <3> QED
      BY <1>2, <1>3, <1>4, <3>1, <3>2, CopyKept
  <2> QED
    BY <2>1 DEF SnapInv
<1>14. ModeInv'
  BY <1>3, <1>11, <1>12 DEF ModeInv, AfterWrite, sysvars
<1>15. WarnInv'
  <2>1. SUFFICES ASSUME ~syslogd, NEW i \in 0 .. m - 1, Entry(i)'.level = "WARN",
                        NEW q, q = Entry(i)'.seq
                 PROVE  Safe(q) \/ q \in unopened \/ OnItsWay(q)'
    BY <1>2, <1>3, <1>18 DEF WarnInv, Entry, OnItsWay
  <2>2. CASE i = m - 1
    <3>1. pc'[t] = "flush"
      BY <1>2, <1>12, <2>1, <2>2 DEF AfterWrite
    <3> QED
      BY <3>1 DEF OnItsWay
  <2>3. CASE i \in 0 .. m - 2
    <3>1. PICK j : j = i + count - m + 1
      OBVIOUS
    <3>2. j \in 0 .. count - 1 /\ Entry(i)' = Entry(j)
      BY <1>2, <2>3, <3>1
    <3>3. Safe(q) \/ q \in unopened \/ OnItsWay(q)
      BY <2>1, <3>2 DEF WarnInv
    <3>4. OnItsWay(q) => OnItsWay(q)'
      BY <1>3, <1>11, StillOnItsWay
    <3> QED
      BY <3>2, <3>3, <3>4
  <2> QED
    BY <1>8, <2>2, <2>3
<1>16. SysInv'
  BY <1>3, SysSame
<1>17. SendInv'
  <2>0. SUFFICES ASSUME syslogd PROVE SendInv'
    <3>1. CASE ~syslogd
      <4>1. \A u \in Threads : pc'[u] # "send"
        BY <1>3, <1>11, <1>12, <3>1 DEF ModeInv, AfterWrite
      <4>2. taken' = <<>>
        BY <3>1 DEF ModeInv, sysvars
      <4> QED
        BY <4>1, <4>2 DEF SendInv
    <3> QED
      BY <3>1
  <2>1. /\ taken' = taken /\ sending'[t].seq = global_seq + 1
        /\ \A u \in Threads : u # t => sending'[u] = sending[u]
        /\ \A k \in DOMAIN taken : taken[k].seq \in Nat
        /\ \A u \in Threads : sending[u].seq \in Nat
    <3>1. taken' = taken /\ taken \in Seq(Lines)
      BY DEF sysvars, SysInv, SysTypeOK
    <3>2. sending'[t].seq = global_seq + 1 /\ \A u \in Threads : u # t => sending'[u] = sending[u]
      BY <1>3, <2>0 DEF TypeOK
    <3>3. \A k \in DOMAIN taken : taken[k].seq \in Nat
      BY <3>1, LineType
    <3>4. \A u \in Threads : sending[u].seq \in Nat
      <4>1. sending \in [Threads -> Entries]
        BY DEF TypeOK
      <4> QED
        BY <4>1 DEF Entries
    <3> QED
      BY <3>1, <3>2, <3>3, <3>4
  <2>2. global_seq' = global_seq + 1 /\ global_seq \in Nat
    BY <1>3, <1>4
  <2>3. ASSUME NEW u \in Threads, pc'[u] = "send", u # t
        PROVE  /\ sending'[u].seq <= global_seq /\ pc[u] = "send"
               /\ \A k \in DOMAIN taken : taken[k].seq # sending'[u].seq
               /\ \A k \in DOMAIN taken : taken[k].by = u => taken[k].seq < sending'[u].seq
               /\ \A v \in Threads : v # u /\ v # t /\ pc'[v] = "send" => sending'[v].seq # sending'[u].seq
    BY <1>11, <2>1, <2>3 DEF SendInv
  <2>4. /\ \A k \in DOMAIN taken : taken[k].seq <= global_seq
        /\ \A j, k \in DOMAIN taken : taken[j].seq = taken[k].seq => j = k
    BY DEF SendInv
  <2> QED
    BY <2>1, <2>2, <2>3, <2>4 DEF SendInv
<1> QED
  BY <1>6, <1>7, <1>9, <1>10, <1>13, <1>14, <1>15, <1>16, <1>17, <1>18

(* A step that leaves the ring and the file alone. *)
LEMMA RingSame ==
  ASSUME CounterInv, RingConsistent, FlushedInFile,
         UNCHANGED <<ring, head, count, global_seq, file_seq, file, raced>>
  PROVE  CounterInv' /\ RingConsistent' /\ FlushedInFile' /\ \A q : Safe(q) => Safe(q)'
<1>1. CounterInv' /\ RingConsistent'
  BY DEF CounterInv, RingConsistent
<1>2. FlushedInFile' /\ \A q : Safe(q) => Safe(q)'
  BY DEF FlushedInFile, InFile, Safe
<1> QED
  BY <1>1, <1>2

(* klog_flush is called. *)
LEMMA FlushInv ==
  ASSUME IInv, NEW t \in Threads, klog_flush(t), UNCHANGED sysvars
  PROVE  IInv'
<1> USE DEF IInv, KlogInv
<1>1. /\ pc[t] = "idle" /\ ~syslogd /\ pc' = [pc EXCEPT ![t] = "flush"]
      /\ UNCHANGED <<ring, head, count, global_seq, file_seq, file, syslogd, sending, snap, unopened,
                     left, pos, raced>>
  BY DEF klog_flush, io
<1>2. TypeOK'
  BY <1>1 DEF TypeOK
<1>3. CounterInv' /\ RingConsistent' /\ FlushedInFile' /\ \A q : Safe(q) => Safe(q)'
  BY <1>1, RingSame
<1>4. pc'[t] = "flush" /\ \A u \in Threads : u # t => pc'[u] = pc[u]
  BY <1>1 DEF TypeOK
<1>5. SnapInv'
  <2>1. ASSUME NEW u \in Threads, pc'[u] \in {"append", "write", "mark"}
        PROVE  CopyInv(u)'
    <3>1. pc'[u] = pc[u] /\ CopyInv(u) /\ snap'[u] = snap[u]
      BY <1>1, <1>4, <2>1 DEF SnapInv
    <3> QED
      BY <1>1, <1>3, <3>1, CopyKept DEF TypeOK
  <2> QED
    BY <2>1 DEF SnapInv
<1>6. WarnInv'
  BY <1>4 DEF WarnInv, OnItsWay
<1>10. WriterInv'
  BY <1>1, <1>4, FileSame
<1>7. ModeInv'
  BY <1>1, <1>4 DEF ModeInv, sysvars
<1>8. SysInv'
  BY <1>1, SysSame
<1>9. SendInv'
  BY <1>1, <1>4, SendSame DEF sysvars
<1> QED
  BY <1>2, <1>3, <1>5, <1>6, <1>7, <1>8, <1>9, <1>10

(* klog_clear: what is no longer in the ring need not be written. *)
LEMMA ClearInv ==
  ASSUME IInv, NEW t \in Threads, klog_clear(t), UNCHANGED sysvars
  PROVE  IInv'
<1> USE DEF IInv, KlogInv
<1>1. /\ count' = 0 /\ head' = 0 /\ ring' = [p \in Places |-> Empty]
      /\ UNCHANGED <<global_seq, file_seq, file, pc, syslogd, sending, snap, unopened, left, pos, raced>>
  BY DEF klog_clear, io
<1>2. TypeOK'
  <2>1. ring' \in [Places -> Entries]
    BY <1>1 DEF Empty, Entries, Levels
  <2>2. head' \in Places /\ count' \in 0 .. SIZE
    BY <1>1, KlogAssumption DEF Places
  <2> QED
    BY <1>1, <2>1, <2>2 DEF TypeOK
<1>3. CounterInv' /\ RingConsistent' /\ FlushedInFile' /\ WarnInv'
  BY <1>1 DEF TypeOK, CounterInv, RingConsistent, FlushedInFile, WarnInv
<1>8. WriterInv' /\ \A q : Safe(q)' = Safe(q)
  BY <1>1, FileSame
<1>4. SnapInv'
  <2>1. ASSUME NEW u \in Threads, pc'[u] \in {"append", "write", "mark"}
        PROVE  CopyInv(u)'
    <3>1. pc'[u] = pc[u] /\ CopyInv(u) /\ snap'[u] = snap[u] /\ left' = left /\ \A q : Safe(q) => Safe(q)'
      BY <1>1, <1>8, <2>1 DEF SnapInv
    <3>2. /\ global_seq' \in Nat /\ count' \in 0 .. SIZE /\ file_seq' \in Nat
          /\ global_seq <= global_seq' /\ global_seq - count <= global_seq' - count' /\ file_seq <= file_seq'
      BY <1>1, <1>2 DEF TypeOK
    <3> QED
      BY <3>1, <3>2, CopyKept
  <2> QED
    BY <2>1 DEF SnapInv
<1>5. ModeInv'
  BY <1>1 DEF ModeInv, sysvars
<1>6. SysInv'
  BY <1>1, SysSame
<1>7. SendInv'
  BY <1>1, SendSame DEF sysvars
<1> QED
  BY <1>2, <1>3, <1>4, <1>5, <1>6, <1>7, <1>8

(* The copy that a flush takes, with something new in it. *)
LEMMA SnapshotInv ==
  ASSUME IInv, NEW t \in Threads, flush_snapshot(t), UNCHANGED sysvars
  PROVE  IInv'
<1> USE DEF IInv, KlogInv
<1> DEFINE s == [ring |-> ring, head |-> head, count |-> count, file_seq |-> file_seq]
<1>1. /\ pc[t] = "flush"
      /\ UNCHANGED <<ring, head, count, global_seq, file_seq, file, syslogd, sending, unopened,
                     left, pos, raced>>
      /\ \/ SomeNew(s) /\ pc' = [pc EXCEPT ![t] = "append"] /\ snap' = [snap EXCEPT ![t] = s]
         \/ ~SomeNew(s) /\ pc' = [pc EXCEPT ![t] = "idle"] /\ UNCHANGED snap
  BY DEF flush_snapshot, io
<1>2. /\ ~syslogd /\ taken = <<>> /\ buffer = <<>> /\ at = "wait"
  BY <1>1, NoSyslogd
<1>3. CounterInv' /\ RingConsistent' /\ FlushedInFile' /\ \A q : Safe(q) => Safe(q)'
  BY <1>1, RingSame
<1>4. /\ \A u \in Threads : u # t => pc'[u] = pc[u] /\ snap'[u] = snap[u]
      /\ pc'[t] \in {"append", "idle"}
  BY <1>1 DEF TypeOK
<1>5. s \in [ring : [Places -> Entries], head : Places, count : 0 .. SIZE, file_seq : Nat]
  BY DEF TypeOK
<1>6. TypeOK'
  <2>1. pc' \in [Threads -> {"idle", "flush", "append", "write", "mark", "send"}]
    BY <1>1 DEF TypeOK
  <2>2. snap' \in [Threads -> [ring : [Places -> Entries], head : Places, count : 0 .. SIZE, file_seq : Nat]]
    <3> HIDE DEF s
    <3> QED
      BY <1>1, <1>5 DEF TypeOK
  <2> QED
    BY <1>1, <2>1, <2>2 DEF TypeOK
<1>7. count \in 0 .. SIZE /\ global_seq \in Nat /\ file_seq \in Nat /\ count <= global_seq
  BY DEF TypeOK, CounterInv
<1>8. /\ \A i \in 0 .. count - 1 : CopyOf(s, i) = Entry(i)
      /\ s.count = count /\ s.file_seq = file_seq
  BY DEF CopyOf, Entry
<1>9. ASSUME count >= 1
      PROVE  Top(s) = global_seq
  <2>1. count - 1 \in 0 .. count - 1
    BY <1>7, <1>9, KlogAssumption
  <2>2. Entry(count - 1).seq = global_seq - count + 1 + (count - 1)
    BY <2>1 DEF RingConsistent, Entry
  <2>3. Top(s) = Entry(count - 1).seq
    BY <1>8, <2>1 DEF Top
  <2> QED
    BY <1>7, <2>2, <2>3, KlogAssumption
<1>10. pc'[t] = "append" => snap'[t] = s /\ SomeNew(s)
  <2> HIDE DEF s
  <2> QED
    BY <1>1 DEF TypeOK
<1>11. SomeNew(s) => count >= 1
  BY <1>7, <1>8, KlogAssumption DEF SomeNew
<1> HIDE DEF s
<1>12. SnapInv'
  <2>1. ASSUME NEW u \in Threads, pc'[u] \in {"append", "write", "mark"}
        PROVE  CopyInv(u)'
    <3>1. CASE u # t
      <4>1. pc'[u] = pc[u] /\ CopyInv(u) /\ snap'[u] = snap[u]
        BY <1>4, <2>1, <3>1 DEF SnapInv
      <4> QED
        BY <1>1, <1>3, <1>7, <4>1, CopyKept, KlogAssumption
    <3>2. CASE u = t
      <4>1. pc'[t] = "append" /\ snap'[t] = s /\ count >= 1
        BY <1>4, <1>10, <1>11, <2>1, <3>2
      <4>2. Top(s) = global_seq
        BY <1>9, <4>1
      <4>3. \A i \in 0 .. count - 1 : CopyOf(s, i).seq = global_seq - count + 1 + i
        BY <1>8 DEF RingConsistent, Entry
      <4>4. (snap[t].count >= 1)' /\ (Top(snap[t]) <= global_seq)' /\ (snap[t].file_seq <= file_seq)'
        BY <1>1, <1>7, <1>8, <4>1, <4>2
      <4>5. (\A i \in 0 .. snap[t].count - 1 : CopyOf(snap[t], i).seq = Top(snap[t]) - snap[t].count + 1 + i)'
        BY <1>8, <4>1, <4>2, <4>3
      <4>6. (Top(snap[t]) - snap[t].count + 1 <= global_seq - count + 1)'
        BY <1>1, <1>7, <1>8, <4>1, <4>2, KlogAssumption
      <4>7. pc'[t] # "mark" /\ pc'[t] # "write"
        BY <4>1
      <4> QED
        BY <3>2, <4>4, <4>5, <4>6, <4>7, Zenon DEF CopyInv
    <3> QED
      BY <3>1, <3>2
  <2> QED
    BY <2>1 DEF SnapInv
<1>17. WriterInv' /\ \A q : Safe(q)' = Safe(q)
  BY <1>1, <1>4, FileSame
<1>13. WarnInv'
  <2>1. SUFFICES ASSUME NEW i \in 0 .. count - 1, Entry(i).level = "WARN", NEW q, q = Entry(i).seq
                 PROVE  Safe(q) \/ q \in unopened \/ OnItsWay(q)'
    BY <1>1, <1>17 DEF WarnInv, Entry, OnItsWay
  <2>2. i \in Nat /\ i < count /\ q = global_seq - count + 1 + i
    BY <1>7, <2>1, KlogAssumption DEF RingConsistent, Entry
  <2>3. CASE q <= file_seq
    BY <2>1, <2>3 DEF FlushedInFile, Entry, Safe
  <2>4. CASE q > file_seq
    <3>1. SomeNew(s)
      BY <1>8, <2>1, <2>4 DEF SomeNew, IsNew, CopyOf
    <3>2. pc'[t] = "append" /\ snap'[t] = s
      BY <1>1, <3>1 DEF TypeOK
    <3>3. q \in Copied(s) /\ q > s.file_seq
      BY <1>7, <1>8, <1>9, <1>11, <2>2, <2>4, <3>1, KlogAssumption DEF Copied
    <3> QED
      BY <3>2, <3>3 DEF OnItsWay
  <2> QED
    BY <1>7, <2>2, <2>3, <2>4, KlogAssumption
<1>14. ModeInv'
  BY <1>1, <1>4 DEF ModeInv, sysvars
<1>15. SysInv'
  BY <1>1, SysSame
<1>16. SendInv'
  BY <1>1, <1>4, SendSame DEF sysvars
<1> QED
  BY <1>3, <1>6, <1>12, <1>13, <1>14, <1>15, <1>16, <1>17

(* What a copy has to write is among the lines of its flush. *)
LEMMA CopyWrites ==
  ASSUME TypeOK, NEW t \in Threads, CopyInv(t), NEW q \in Copied(snap[t]), q > snap[t].file_seq
  PROVE  /\ NewSeqs(snap[t]) \in Seq(Nat)
         /\ \E k \in DOMAIN NewSeqs(snap[t]) : NewSeqs(snap[t])[k] = q
<1>1. snap[t] \in [ring : [Places -> Entries], head : Places, count : 0 .. SIZE, file_seq : Nat]
  BY DEF TypeOK
<1>2. PICK tp : tp = Top(snap[t])
  OBVIOUS
<1>3. tp \in Nat /\ snap[t].count \in 1 .. SIZE
  BY <1>2, CopyType DEF CopyInv
<1>4. q \in tp - snap[t].count + 1 .. tp
  BY <1>2 DEF Copied
<1>5. PICK i : i = q - (tp - snap[t].count + 1)
  OBVIOUS
<1>6. i \in 0 .. snap[t].count - 1 /\ q = tp - snap[t].count + 1 + i
  BY <1>3, <1>4, <1>5, KlogAssumption
<1>7. CopyOf(snap[t], i).seq = q
  BY <1>2, <1>6 DEF CopyInv
<1> QED
  BY <1>1, <1>6, <1>7, NewSeqsAre

(* What a flush is to write are numbers. *)
LEMMA CopyNumbers ==
  ASSUME TypeOK, NEW t \in Threads
  PROVE  NewSeqs(snap[t]) \in Seq(Nat)
<1>1. snap[t] \in [ring : [Places -> Entries], head : Places, count : 0 .. SIZE, file_seq : Nat]
  BY DEF TypeOK
<1> QED
  BY <1>1, NewSeqsAre

(* fopen and fseek: the lines to write are set out, and when another file is  *)
(* open, all that both have to write may overlap.                           *)
LEMMA FopenInv ==
  ASSUME IInv, NEW t \in Threads, flush_open(t), UNCHANGED sysvars
  PROVE  IInv'
<1> USE DEF IInv, KlogInv
<1> DEFINE others == {u \in Threads : pc[u] = "write"}
<1>1. /\ pc[t] = "append" /\ pc' = [pc EXCEPT ![t] = "write"]
      /\ left' = [left EXCEPT ![t] = NewSeqs(snap[t])] /\ pos' = [pos EXCEPT ![t] = Len(file)]
      /\ UNCHANGED <<ring, head, count, global_seq, file_seq, file, syslogd, sending, snap, unopened>>
  BY DEF flush_open
<1>2. raced' = IF others = {} THEN raced
               ELSE raced \cup UNION {Listed(left'[u]) : u \in others \cup {t}}
  BY DEF flush_open
<1>3. /\ ~syslogd /\ taken = <<>> /\ buffer = <<>> /\ at = "wait"
  BY <1>1, NoSyslogd
<1>4. NewSeqs(snap[t]) \in Seq(Nat)
  BY CopyNumbers
<1>5. /\ pc'[t] = "write" /\ left'[t] = NewSeqs(snap[t]) /\ pos'[t] = Len(file)
      /\ \A u \in Threads : u # t => pc'[u] = pc[u] /\ left'[u] = left[u] /\ pos'[u] = pos[u]
  BY <1>1 DEF TypeOK
<1>6. file \in Seq(Nat) /\ Len(file) \in Nat /\ DOMAIN file = 1 .. Len(file)
  BY LenProperties DEF TypeOK
<1>7. left' \in [Threads -> Seq(Nat)] /\ pos' \in [Threads -> Nat]
  BY <1>1, <1>4, <1>6 DEF TypeOK
<1>8. raced \subseteq raced' /\ raced' \subseteq Nat
  <2>1. \A u \in Threads : Listed(left'[u]) \subseteq Nat
    <3>1. ASSUME NEW u \in Threads PROVE Listed(left'[u]) \subseteq Nat
      <4>1. left'[u] \in Seq(Nat)
        BY <1>7
      <4> QED
        BY <4>1 DEF Listed
    <3> QED
      BY <3>1
  <2>2. raced \subseteq Nat /\ others \cup {t} \subseteq Threads
    BY DEF TypeOK
  <2>3. UNION {Listed(left'[u]) : u \in others \cup {t}} \subseteq Nat
    BY <2>1, <2>2
  <2> HIDE DEF others
  <2> QED
    BY <1>2, <2>2, <2>3
<1>9. TypeOK'
  BY <1>1, <1>7, <1>8 DEF TypeOK
<1>10. CounterInv' /\ RingConsistent'
  BY <1>1 DEF CounterInv, RingConsistent
<1>11. \A q : Safe(q) => Safe(q)'
  BY <1>1, <1>8 DEF Safe, InFile
<1>12. FlushedInFile'
  <2>1. ASSUME NEW i \in 0 .. count - 1, Entry(i).seq <= file_seq, NEW q, q = Entry(i).seq
        PROVE  Safe(q)'
    BY <1>11, <2>1 DEF FlushedInFile, Entry, Safe
  <2> QED
    BY <1>1, <2>1 DEF FlushedInFile, Entry, Safe, InFile
<1>13. CopyInv(t)
  BY <1>1 DEF SnapInv
<1>14. ASSUME NEW q \in Copied(snap[t]), q > snap[t].file_seq
       PROVE  ToWrite(t, q)'
  <2>1. \E k \in DOMAIN NewSeqs(snap[t]) : NewSeqs(snap[t])[k] = q
    BY <1>13, <1>14, CopyWrites
  <2> QED
    BY <1>5, <2>1 DEF ToWrite
<1>15. SnapInv'
  <2>1. ASSUME NEW u \in Threads, pc'[u] \in {"append", "write", "mark"}
        PROVE  CopyInv(u)'
    <3>1. CASE u # t
      <4>1. pc'[u] = pc[u] /\ CopyInv(u) /\ snap'[u] = snap[u] /\ left'[u] = left[u]
        BY <1>1, <1>5, <2>1, <3>1 DEF SnapInv
      <4>2. global_seq \in Nat /\ count \in 0 .. SIZE /\ file_seq \in Nat
        BY DEF TypeOK
      <4> QED
        BY <1>1, <1>11, <4>1, <4>2, CopyKept, KlogAssumption
    <3>2. CASE u = t
      <4>1. snap' = snap /\ UNCHANGED <<global_seq, count, file_seq>> /\ pc'[t] # "mark"
        BY <1>1, <1>5
      <4>2. (\A q \in Copied(snap[t]) : q > snap[t].file_seq => Safe(q) \/ ToWrite(t, q))'
        BY <1>14, <4>1
      <4> QED
        BY <1>13, <3>2, <4>1, <4>2 DEF CopyInv
    <3> QED
      BY <3>1, <3>2
  <2> QED
    BY <2>1 DEF SnapInv
<1>16. WriterInv'
  <2>1. ASSUME NEW u \in Threads, pc'[u] = "write"
        PROVE  /\ pos'[u] <= Len(file) /\ \A k \in DOMAIN file : k > pos'[u] => file[k] \in raced'
    <3>1. CASE u = t
      BY <1>5, <1>6, <3>1
    <3>2. CASE u # t
      BY <1>5, <1>8, <2>1, <3>2 DEF WriterInv
    <3> QED
      BY <3>1, <3>2
  <2>2. ASSUME NEW u \in Threads, NEW v \in Threads, u # v, pc'[u] = "write", pc'[v] = "write",
               NEW k \in DOMAIN left'[u]
        PROVE  left'[u][k] \in raced'
    <3>1. (u # t => u \in others) /\ (v # t => v \in others)
      BY <1>5, <2>2
    <3>2. others # {} /\ u \in others \cup {t}
      BY <2>2, <3>1
    <3>3. left'[u][k] \in Listed(left'[u])
      BY DEF Listed
    <3> HIDE DEF others
    <3>4. Listed(left'[u]) \subseteq raced'
      BY <1>2, <3>2
    <3> QED
      BY <3>3, <3>4
  <2> QED
    BY <1>1, <2>1, <2>2 DEF WriterInv
<1>17. WarnInv'
  <2>1. SUFFICES ASSUME NEW i \in 0 .. count - 1, Entry(i).level = "WARN", NEW q, q = Entry(i).seq
                 PROVE  Safe(q)' \/ q \in unopened \/ OnItsWay(q)'
    BY <1>1 DEF WarnInv, Entry, Safe, InFile, OnItsWay
  <2>2. CASE Safe(q) \/ q \in unopened
    BY <1>11, <2>2
  <2>3. CASE OnItsWay(q)
    <3>1. PICK u \in Threads : \/ pc[u] = "flush"
                               \/ pc[u] = "append" /\ q \in Copied(snap[u]) /\ q > snap[u].file_seq
                               \/ pc[u] = "write" /\ ToWrite(u, q)
      BY <2>3 DEF OnItsWay
    <3>2. CASE u = t
      <4>1. ToWrite(t, q)'
        BY <1>1, <1>14, <3>1, <3>2
      <4> QED
        BY <1>5, <4>1 DEF OnItsWay
    <3>3. CASE u # t
      <4>1. pc'[u] = pc[u] /\ snap'[u] = snap[u] /\ left'[u] = left[u]
        BY <1>1, <1>5, <3>3
      <4> QED
        BY <3>1, <4>1 DEF OnItsWay, ToWrite
    <3> QED
      BY <3>2, <3>3
  <2> QED
    BY <1>3, <2>1, <2>2, <2>3 DEF WarnInv
<1>18. ModeInv'
  BY <1>1, <1>3, <1>5 DEF ModeInv, sysvars
<1>19. SysInv'
  BY <1>1, <1>3, SysNone
<1>20. SendInv'
  BY <1>1, <1>5, SendSame DEF sysvars
<1> QED
  BY <1>9, <1>10, <1>12, <1>15, <1>16, <1>17, <1>18, <1>19, <1>20

(* What one block of a flush does to the file and to the other open files: a  *)
(* line is overwritten only if flushes overlap.                              *)
LEMMA BlockFacts ==
  ASSUME TypeOK, WriterInv, NEW t \in Threads, flush_write(t)
  PROVE  /\ file' \in Seq(Nat) /\ pos' \in [Threads -> Nat] /\ left' \in [Threads -> Seq(Nat)]
         /\ \A q : Safe(q) => Safe(q)'
         /\ \A q : ToWrite(t, q) => InFile(q)' \/ (pc'[t] = "write" /\ ToWrite(t, q)')
         /\ pc'[t] \in {"write", "mark"}
         /\ \A u \in Threads : u # t => pc'[u] = pc[u] /\ left'[u] = left[u]
         /\ WriterInv'
<1>0. pc[t] = "write" /\ raced' = raced
  BY DEF flush_write
<1>1. PICK n \in 1 .. Len(left[t]), over \in pos[t] .. Len(file) :
        /\ file' = SubSeq(file, 1, pos[t]) \o SubSeq(left[t], 1, n) \o SubSeq(file, over + 1, Len(file))
        /\ left' = [left EXCEPT ![t] = SubSeq(left[t], n + 1, Len(left[t]))]
        /\ \E p \in [Threads -> 0 .. Len(file')] :
             /\ Moved(t, n, p)
             /\ \/ n < Len(left[t]) /\ pos' = p /\ UNCHANGED pc
                \/ /\ n = Len(left[t]) /\ pos' = [p EXCEPT ![t] = 0]
                   /\ pc' = [pc EXCEPT ![t] = "mark"]
  BY DEF flush_write
<1>2. PICK p \in [Threads -> 0 .. Len(file')] :
        /\ Moved(t, n, p)
        /\ \/ n < Len(left[t]) /\ pos' = p /\ UNCHANGED pc
           \/ n = Len(left[t]) /\ pos' = [p EXCEPT ![t] = 0] /\ pc' = [pc EXCEPT ![t] = "mark"]
  BY <1>1
<1>3. PICK x : x = left[t]
  OBVIOUS
<1>4. PICK s : s = pos[t]
  OBVIOUS
<1>6. file \in Seq(Nat) /\ x \in Seq(Nat) /\ s \in Nat /\ s <= Len(file)
  BY <1>0, <1>3, <1>4 DEF TypeOK, WriterInv
<1>7. PICK lx \in Nat : lx = Len(x) /\ DOMAIN x = 1 .. lx
  BY <1>6, LenProperties
<1>8. PICK lf \in Nat : lf = Len(file) /\ DOMAIN file = 1 .. lf /\ s <= lf
  BY <1>6, LenProperties
<1>9. n \in Nat /\ 1 <= n /\ n <= lx
  BY <1>1, <1>3, <1>7
<1>95. PICK g \in Seq(Nat), lg \in Nat :
        /\ g = file' /\ lg = Len(g) /\ DOMAIN g = 1 .. lg /\ lg >= s + n
        /\ \A k \in 1 .. s : g[k] = file[k]
        /\ \A k \in 1 .. n : g[s + k] = x[k]
        /\ \A k \in 1 .. lg : k > s + n => \E j \in 1 .. lf : j > s /\ g[k] = file[j]
  <2>1. over \in Nat /\ s <= over /\ over <= lf
    BY <1>1, <1>4, <1>6, <1>8
  <2>2. file' = SubSeq(file, 1, s) \o SubSeq(x, 1, n) \o SubSeq(file, over + 1, Len(file))
    BY <1>1, <1>3, <1>4
  <2>3. Rewritten(Nat, file, x, s, n,
                  SubSeq(file, 1, s) \o SubSeq(x, 1, n) \o SubSeq(file, over + 1, Len(file)))
    <3>1. n <= Len(x) /\ over <= Len(file) /\ s \in Nat /\ n \in Nat /\ over \in Nat /\ s <= over
      BY <1>6, <1>7, <1>8, <1>9, <2>1
    <3> QED
      BY <1>6, <3>1, Overwritten
  <2>4. PICK h \in Seq(Nat) :
           /\ h = file'
           /\ Len(h) >= s + n
           /\ \A k \in 1 .. s : h[k] = file[k]
           /\ \A k \in 1 .. n : h[s + k] = x[k]
           /\ \A k \in 1 .. Len(h) : k > s + n => \E j \in 1 .. Len(file) : j > s /\ h[k] = file[j]
    BY <2>2, <2>3, Zenon DEF Rewritten
  <2>5. Len(h) \in Nat /\ DOMAIN h = 1 .. Len(h)
    BY LenProperties
  <2> QED
    BY <1>8, <2>4, <2>5, Zenon
<1>96. /\ g = file' /\ DOMAIN g = 1 .. lg /\ DOMAIN file = 1 .. lf /\ DOMAIN x = 1 .. lx
  BY <1>7, <1>8, <1>95
<1>97. lg >= s + n /\ s <= lf
  BY <1>8, <1>95
<1>98. /\ \A k \in 1 .. s : g[k] = file[k]
       /\ \A k \in 1 .. n : g[s + k] = x[k]
       /\ \A k \in 1 .. lg : k > s + n => \E j \in 1 .. lf : j > s /\ g[k] = file[j]
  BY <1>95
<1>10. \A j \in 1 .. lf : j > s => file[j] \in raced
  BY <1>0, <1>4, <1>96 DEF WriterInv
<1>11. pos' \in [Threads -> Nat]
  <2>1. \A u \in Threads : p[u] \in Nat
    BY <1>95
  <2> QED
    BY <1>2, <2>1
<1>12. PICK y \in Seq(Nat), ly \in Nat :
         /\ y = SubSeq(x, n + 1, Len(x)) /\ DOMAIN y = 1 .. ly /\ ly = lx - n
         /\ \A k \in 1 .. ly : y[k] = x[n + k]
  <2>0. n + 1 \in Nat /\ 1 <= n + 1 /\ n + 1 <= lx + 1 /\ lx <= Len(x) /\ lx - n \in Nat
    BY <1>7, <1>9
  <2>1. PICK y : y = SubSeq(x, n + 1, lx)
    OBVIOUS
  <2>2. /\ y \in Seq(Nat) /\ Len(y) = lx + 1 - (n + 1)
        /\ \A k \in 1 .. lx + 1 - (n + 1) : y[k] = x[n + 1 + k - 1]
    <3>1. PICK S : S = Nat
      OBVIOUS
    <3>2. x \in Seq(S)
      BY <1>6, <3>1
    <3>3. /\ SubSeq(x, n + 1, lx) \in Seq(S) /\ Len(SubSeq(x, n + 1, lx)) = lx + 1 - (n + 1)
          /\ \A k \in 1 .. lx + 1 - (n + 1) : SubSeq(x, n + 1, lx)[k] = x[n + 1 + k - 1]
      BY <2>0, <3>2, Cut
    <3> QED
      BY <2>1, <3>1, <3>3, Zenon
  <2>3. lx + 1 - (n + 1) = lx - n /\ \A k \in 1 .. lx - n : n + 1 + k - 1 = n + k
    BY <1>9
  <2>4. /\ y \in Seq(Nat) /\ DOMAIN y = 1 .. lx - n
        /\ \A k \in 1 .. lx - n : y[k] = x[n + k]
    BY <2>2, <2>3, LenProperties
  <2> QED
    BY <1>7, <2>0, <2>1, <2>4, Zenon
<1>13. DOMAIN y = 1 .. ly /\ \A k \in 1 .. ly : y[k] = x[n + k]
  BY <1>12
<1>14. /\ left'[t] = y /\ left' \in [Threads -> Seq(Nat)]
       /\ \A u \in Threads : u # t => left'[u] = left[u]
  BY <1>1, <1>3, <1>12 DEF TypeOK
<1>15. /\ pc'[t] = IF n < lx THEN "write" ELSE "mark"
       /\ n < lx => pos' = p
       /\ \A u \in Threads : u # t => pc'[u] = pc[u] /\ pos'[u] = p[u]
  <2>1. CASE n < lx /\ pos' = p /\ UNCHANGED pc
    BY <1>0, <2>1
  <2>2. CASE n = lx /\ pos' = [p EXCEPT ![t] = 0] /\ pc' = [pc EXCEPT ![t] = "mark"]
    <3>1. ~(n < lx)
      BY <2>2
    <3> QED
      BY <2>2, <3>1 DEF TypeOK
  <2> QED
    BY <1>2, <1>3, <1>7, <2>1, <2>2
<1>16. ASSUME NEW q, Safe(q) PROVE Safe(q)'
  <2>1. CASE q \in raced
    BY <1>0, <2>1 DEF Safe
  <2>2. CASE InFile(q) /\ q \notin raced
    <3>1. PICK j \in 1 .. lf : file[j] = q
      BY <1>96, <2>2 DEF InFile
    <3>2. ~(j > s)
      BY <1>10, <2>2, <3>1
    <3>3. j \in 1 .. s /\ j \in 1 .. lg
      BY <1>6, <1>9, <1>97, <3>2
    <3>4. j \in DOMAIN g /\ g[j] = q
      BY <1>96, <1>98, <3>1, <3>3, Zenon
    <3> QED
      BY <1>96, <3>4 DEF Safe, InFile
  <2> QED
    BY <1>16, <2>1, <2>2 DEF Safe
<1>17. ASSUME NEW q, ToWrite(t, q)
       PROVE  InFile(q)' \/ (pc'[t] = "write" /\ ToWrite(t, q)')
  <2>1. PICK k \in 1 .. lx : x[k] = q
    BY <1>3, <1>96, <1>17 DEF ToWrite
  <2>2. CASE k <= n
    <3>0. k \in 1 .. n /\ s + k \in 1 .. lg
      BY <1>6, <1>9, <1>97, <2>2
    <3>1. s + k \in DOMAIN g /\ g[s + k] = q
      BY <1>96, <1>98, <2>1, <3>0, Zenon
    <3> QED
      BY <1>96, <3>1 DEF InFile
  <2>3. CASE k > n
    <3>1. k - n \in 1 .. lx - n /\ n + (k - n) = k /\ n < lx
      BY <1>9, <2>3
    <3>2. k - n \in DOMAIN y /\ y[k - n] = q
      BY <1>12, <2>1, <3>1
    <3> QED
      BY <1>14, <1>15, <3>1, <3>2 DEF ToWrite
  <2> QED
    BY <1>9, <2>2, <2>3
<1>18. WriterInv'
  <2>1. ASSUME NEW u \in Threads, u # t, pc[u] = "write"
        PROVE  \A k \in 1 .. lx : x[k] \in raced
    BY <1>0, <1>3, <1>96, <2>1 DEF WriterInv
  <2>2. ASSUME NEW u \in Threads, u # t, pc'[u] = "write", NEW k \in 1 .. lg, k > s
        PROVE  g[k] \in raced
    <3>1. CASE k <= s + n
      <4>1. k - s \in 1 .. n /\ s + (k - s) = k /\ k - s \in 1 .. lx
        BY <1>6, <1>9, <2>2, <3>1
      <4>2. g[k] = x[k - s]
        BY <1>98, <4>1
      <4> QED
        BY <1>15, <2>1, <2>2, <4>1, <4>2
    <3>2. CASE k > s + n
      BY <1>98, <1>10, <3>2
    <3> QED
      BY <1>6, <1>9, <3>1, <3>2
  <2>3. ASSUME NEW u \in Threads, pc'[u] = "write"
        PROVE  pos'[u] <= lg /\ \A k \in 1 .. lg : k > pos'[u] => g[k] \in raced
    <3>1. CASE u = t
      <4>1. n < lx /\ pos' = p /\ (p[t] = s + n \/ p[t] = lg)
        BY <1>2, <1>4, <1>15, <1>95, <2>3, <3>1 DEF Moved
      <4>2. ASSUME NEW k \in 1 .. lg, k > s + n PROVE g[k] \in raced
        <5>1. PICK j \in 1 .. lf : j > s /\ g[k] = file[j]
          BY <1>98, <4>2
        <5> QED
          BY <1>10, <5>1
      <4> QED
        BY <1>97, <3>1, <4>1, <4>2
    <3>2. CASE u # t
      <4>1. p[u] \in 0 .. lg
        BY <1>95
      <4>2. /\ pos'[u] = p[u] /\ p[u] \in Nat /\ p[u] <= lg /\ pc[u] = "write" /\ pos[u] \in Nat
            /\ IF pos[u] <= s THEN p[u] = pos[u] ELSE p[u] >= s
        <5>1. pos'[u] = p[u] /\ pc[u] = "write"
          BY <1>15, <2>3, <3>2
        <5>2. pos[u] \in Nat /\ IF pos[u] <= s THEN p[u] = pos[u] ELSE p[u] >= s
          BY <1>2, <1>4, <3>2 DEF Moved, TypeOK
        <5> QED
          BY <4>1, <5>1, <5>2
      <4>3. ASSUME NEW k \in 1 .. lg, k > p[u] PROVE g[k] \in raced
        <5>1. CASE k > s
          BY <2>2, <2>3, <3>2, <5>1
        <5>2. CASE k <= s
          <6>1. ~(p[u] >= s) /\ k \in 1 .. s /\ k \in 1 .. lf
            BY <1>6, <1>97, <4>2, <4>3, <5>2
          <6>2. p[u] = pos[u]
            BY <4>2, <6>1
          <6>3. file[k] \in raced
            BY <1>96, <4>2, <4>3, <6>1, <6>2 DEF WriterInv
          <6> QED
            BY <1>98, <6>1, <6>3
        <5> QED
          BY <1>6, <5>1, <5>2
      <4> QED
        BY <4>2, <4>3
    <3> QED
      BY <3>1, <3>2
  <2>4. ASSUME NEW u \in Threads, NEW v \in Threads, v # u, pc'[u] = "write", pc'[v] = "write",
               NEW k \in DOMAIN left'[u]
        PROVE  left'[u][k] \in raced
    <3>1. pc[u] = "write" /\ pc[v] = "write"
      BY <1>0, <1>15, <2>4
    <3>2. CASE u # t
      BY <1>14, <2>4, <3>1, <3>2 DEF WriterInv
    <3>3. CASE u = t
      <4>1. k \in 1 .. ly
        BY <1>13, <1>14, <2>4, <3>3
      <4>2. n + k \in 1 .. lx
        BY <1>9, <1>12, <4>1
      <4>3. y[k] = x[n + k] /\ x[n + k] \in raced
        BY <1>13, <2>1, <2>4, <3>1, <3>3, <4>1, <4>2
      <4> QED
        BY <1>14, <3>3, <4>3
    <3> QED
      BY <3>2, <3>3
  <2> QED
    BY <1>0, <1>95, <1>96, <2>3, <2>4 DEF WriterInv
<1> QED
  BY <1>95, <1>11, <1>14, <1>15, <1>16, <1>17, <1>18

(* A block of klog_flush is written. *)
LEMMA BlockInv ==
  ASSUME IInv, NEW t \in Threads, flush_write(t), UNCHANGED sysvars
  PROVE  IInv'
<1> USE DEF IInv, KlogInv
<1>1. /\ pc[t] = "write"
      /\ UNCHANGED <<ring, head, count, global_seq, file_seq, syslogd, sending, snap, unopened, raced>>
  BY DEF flush_write
<1>2. /\ ~syslogd /\ taken = <<>> /\ buffer = <<>> /\ at = "wait"
  BY <1>1, NoSyslogd
<1>3. /\ file' \in Seq(Nat) /\ pos' \in [Threads -> Nat] /\ left' \in [Threads -> Seq(Nat)]
      /\ \A q : Safe(q) => Safe(q)'
      /\ \A q : ToWrite(t, q) => InFile(q)' \/ (pc'[t] = "write" /\ ToWrite(t, q)')
      /\ pc'[t] \in {"write", "mark"}
      /\ \A u \in Threads : u # t => pc'[u] = pc[u] /\ left'[u] = left[u]
      /\ WriterInv'
  BY BlockFacts
<1>4. pc' \in [Threads -> {"idle", "flush", "append", "write", "mark", "send"}]
  BY DEF flush_write, TypeOK
<1>5. TypeOK'
  BY <1>1, <1>3, <1>4 DEF TypeOK
<1>6. CounterInv' /\ RingConsistent'
  BY <1>1 DEF CounterInv, RingConsistent
<1>7. FlushedInFile'
  <2>1. ASSUME NEW i \in 0 .. count - 1, Entry(i).seq <= file_seq, NEW q, q = Entry(i).seq
        PROVE  Safe(q)'
    BY <1>3, <2>1 DEF FlushedInFile, Entry, Safe
  <2> QED
    BY <1>1, <2>1 DEF FlushedInFile, Entry, Safe, InFile
<1>8. SnapInv'
  <2>1. ASSUME NEW u \in Threads, pc'[u] \in {"append", "write", "mark"}
        PROVE  CopyInv(u)'
    <3>1. CASE u # t
      <4>1. pc'[u] = pc[u] /\ CopyInv(u) /\ snap'[u] = snap[u] /\ left'[u] = left[u]
        BY <1>1, <1>3, <2>1, <3>1 DEF SnapInv
      <4>2. global_seq \in Nat /\ count \in 0 .. SIZE /\ file_seq \in Nat
        BY DEF TypeOK
      <4> QED
        BY <1>1, <1>3, <4>1, <4>2, CopyKept, KlogAssumption
    <3>2. CASE u = t
      <4>1. snap' = snap /\ UNCHANGED <<global_seq, count, file_seq>> /\ CopyInv(t)
        BY <1>1 DEF SnapInv
      <4>2. ASSUME NEW q \in Copied(snap[t]), q > snap[t].file_seq
            PROVE  Safe(q)' \/ (pc'[t] = "write" /\ ToWrite(t, q)')
        <5>1. Safe(q) \/ ToWrite(t, q)
          BY <1>1, <4>1, <4>2 DEF CopyInv
        <5> QED
          BY <1>3, <5>1 DEF Safe
      <4>3. /\ (pc[t] = "write" => \A q \in Copied(snap[t]) : q > snap[t].file_seq => Safe(q) \/ ToWrite(t, q))'
            /\ (pc[t] = "mark" => \A q \in Copied(snap[t]) : q > snap[t].file_seq => Safe(q))'
        BY <4>1, <4>2
      <4> QED
        BY <3>2, <4>1, <4>3 DEF CopyInv
    <3> QED
      BY <3>1, <3>2
  <2> QED
    BY <2>1 DEF SnapInv
<1>9. WarnInv'
  <2>1. SUFFICES ASSUME NEW i \in 0 .. count - 1, Entry(i).level = "WARN", NEW q, q = Entry(i).seq
                 PROVE  Safe(q)' \/ q \in unopened \/ OnItsWay(q)'
    BY <1>1 DEF WarnInv, Entry, Safe, InFile, OnItsWay
  <2>2. CASE Safe(q) \/ q \in unopened
    BY <1>3, <2>2
  <2>3. CASE OnItsWay(q)
    <3>1. PICK u \in Threads : \/ pc[u] = "flush"
                               \/ pc[u] = "append" /\ q \in Copied(snap[u]) /\ q > snap[u].file_seq
                               \/ pc[u] = "write" /\ ToWrite(u, q)
      BY <2>3 DEF OnItsWay
    <3>2. CASE u = t
      <4>1. InFile(q)' \/ (pc'[t] = "write" /\ ToWrite(t, q)')
        BY <1>1, <1>3, <3>1, <3>2
      <4> QED
        BY <4>1 DEF Safe, OnItsWay
    <3>3. CASE u # t
      <4>1. pc'[u] = pc[u] /\ snap'[u] = snap[u] /\ left'[u] = left[u]
        BY <1>1, <1>3, <3>3
      <4> QED
        BY <3>1, <4>1 DEF OnItsWay, ToWrite
    <3> QED
      BY <3>2, <3>3
  <2> QED
    BY <1>2, <2>1, <2>2, <2>3 DEF WarnInv
<1>10. ModeInv'
  BY <1>1, <1>2, <1>3 DEF ModeInv, sysvars
<1>11. SysInv'
  BY <1>1, <1>2, SysNone
<1>12. SendInv'
  BY <1>1, <1>3, SendSame DEF sysvars
<1> QED
  BY <1>3, <1>5, <1>6, <1>7, <1>8, <1>9, <1>10, <1>11, <1>12

(* fopen fails: what was to be written is noted as unwritten. *)
LEMMA NoFileInv ==
  ASSUME IInv, NEW t \in Threads, flush_no_file(t), UNCHANGED sysvars
  PROVE  IInv'
<1> USE DEF IInv, KlogInv
<1> DEFINE lost == Listed(NewSeqs(snap[t]))
<1>1. /\ pc[t] = "append" /\ pc' = [pc EXCEPT ![t] = "idle"] /\ snap' = [snap EXCEPT ![t] = NoSnap]
      /\ unopened' = unopened \cup lost
      /\ UNCHANGED <<ring, head, count, global_seq, file_seq, file, syslogd, sending, left, pos, raced>>
  BY DEF flush_no_file, io
<1>2. /\ ~syslogd /\ taken = <<>> /\ buffer = <<>> /\ at = "wait"
  BY <1>1, NoSyslogd
<1>3. CounterInv' /\ RingConsistent' /\ FlushedInFile' /\ \A q : Safe(q) => Safe(q)'
  BY <1>1, RingSame
<1>4. /\ \A u \in Threads : u # t => pc'[u] = pc[u] /\ snap'[u] = snap[u]
      /\ pc'[t] = "idle"
  BY <1>1 DEF TypeOK
<1>5. CopyInv(t)
  BY <1>1 DEF SnapInv
<1>6. global_seq \in Nat /\ count \in 0 .. SIZE /\ file_seq \in Nat
  BY DEF TypeOK
<1>7. ASSUME NEW q \in Copied(snap[t]), q > snap[t].file_seq
      PROVE  q \in lost
  <2>1. \E k \in DOMAIN NewSeqs(snap[t]) : NewSeqs(snap[t])[k] = q
    BY <1>5, <1>7, CopyWrites
  <2> QED
    BY <2>1 DEF Listed
<1> HIDE DEF lost
<1>8. TypeOK'
  <2>1. unopened' \subseteq Nat
    <3>1. lost \subseteq Nat
      BY CopyNumbers DEF lost, Listed
    <3> QED
      BY <1>1, <3>1 DEF TypeOK
  <2>2. NoSnap \in [ring : [Places -> Entries], head : Places, count : 0 .. SIZE, file_seq : Nat]
    BY KlogAssumption DEF NoSnap, Places, Empty, Entries, Levels
  <2>3. snap' \in [Threads -> [ring : [Places -> Entries], head : Places, count : 0 .. SIZE, file_seq : Nat]]
    BY <1>1, <2>2 DEF TypeOK
  <2>4. pc' \in [Threads -> {"idle", "flush", "append", "write", "mark", "send"}]
    BY <1>1 DEF TypeOK
  <2> QED
    BY <1>1, <2>1, <2>3, <2>4 DEF TypeOK
<1>9. SnapInv'
  <2>1. ASSUME NEW u \in Threads, pc'[u] \in {"append", "write", "mark"}
        PROVE  CopyInv(u)'
    <3>1. pc'[u] = pc[u] /\ CopyInv(u) /\ snap'[u] = snap[u]
      BY <1>4, <2>1 DEF SnapInv
    <3> QED
      BY <1>1, <1>3, <1>6, <3>1, CopyKept, KlogAssumption
  <2> QED
    BY <2>1 DEF SnapInv
<1>14. WriterInv' /\ \A q : Safe(q)' = Safe(q)
  BY <1>1, <1>4, FileSame
<1>10. WarnInv'
  <2>1. SUFFICES ASSUME NEW i \in 0 .. count - 1, Entry(i).level = "WARN", NEW q, q = Entry(i).seq
                 PROVE  Safe(q) \/ q \in unopened' \/ OnItsWay(q)'
    BY <1>1, <1>14 DEF WarnInv, Entry, OnItsWay
  <2>2. CASE Safe(q) \/ q \in unopened
    BY <1>1, <2>2
  <2>3. CASE OnItsWay(q)
    <3>1. PICK u \in Threads : \/ pc[u] = "flush"
                               \/ pc[u] = "append" /\ q \in Copied(snap[u]) /\ q > snap[u].file_seq
                               \/ pc[u] = "write" /\ ToWrite(u, q)
      BY <2>3 DEF OnItsWay
    <3>2. CASE u = t
      BY <1>1, <1>7, <3>1, <3>2
    <3>3. CASE u # t
      BY <1>1, <1>4, <3>1, <3>3 DEF OnItsWay, ToWrite
    <3> QED
      BY <3>2, <3>3
  <2> QED
    BY <1>2, <2>1, <2>2, <2>3 DEF WarnInv
<1>11. ModeInv'
  BY <1>1, <1>2, <1>4 DEF ModeInv, sysvars
<1>12. SysInv'
  BY <1>1, <1>2, SysNone
<1>13. SendInv'
  BY <1>1, <1>4, SendSame DEF sysvars
<1> QED
  BY <1>3, <1>8, <1>9, <1>10, <1>11, <1>12, <1>13, <1>14

(* The mark is raised to the last number of the copy. *)
LEMMA MarkInv ==
  ASSUME IInv, NEW t \in Threads, flush_mark(t), UNCHANGED sysvars
  PROVE  IInv'
<1> USE DEF IInv, KlogInv
<1>1. /\ pc[t] = "mark" /\ pc' = [pc EXCEPT ![t] = "idle"] /\ snap' = [snap EXCEPT ![t] = NoSnap]
      /\ file_seq' = Marked(snap[t])
      /\ UNCHANGED <<ring, head, count, global_seq, file, syslogd, sending, unopened, left, pos, raced>>
  BY DEF flush_mark, io
<1>2. /\ ~syslogd /\ taken = <<>> /\ buffer = <<>> /\ at = "wait"
  BY <1>1, NoSyslogd
<1>3. \A q : Safe(q)' = Safe(q)
  BY <1>1 DEF InFile, Safe
<1>4. /\ \A u \in Threads : u # t => pc'[u] = pc[u] /\ snap'[u] = snap[u]
      /\ pc'[t] = "idle"
  BY <1>1 DEF TypeOK
<1>5. CopyInv(t)
  BY <1>1 DEF SnapInv
<1>6. /\ global_seq \in Nat /\ count \in 0 .. SIZE /\ file_seq \in Nat
      /\ count <= global_seq /\ global_seq <= MaxSeq /\ file_seq <= global_seq
  BY DEF TypeOK, CounterInv
<1>7. PICK tp, c, f : tp = Top(snap[t]) /\ c = snap[t].count /\ f = snap[t].file_seq
  OBVIOUS
<1>8. /\ tp \in Nat /\ c \in 1 .. SIZE /\ f \in Nat /\ tp <= global_seq
      /\ tp - c + 1 <= global_seq - count + 1 /\ f <= file_seq
      /\ \A q \in tp - c + 1 .. tp : q > f => Safe(q)
  BY <1>1, <1>5, <1>7, CopyType DEF CopyInv, Copied
<1>9. file_seq' = IF tp > file_seq THEN tp ELSE file_seq
  BY <1>1, <1>7 DEF Marked, Top, CopyOf
<1>10. file_seq' \in Nat /\ file_seq <= file_seq' /\ file_seq' <= global_seq
  BY <1>6, <1>8, <1>9
<1>11. TypeOK'
  <2>1. NoSnap \in [ring : [Places -> Entries], head : Places, count : 0 .. SIZE, file_seq : Nat]
    BY KlogAssumption DEF NoSnap, Places, Empty, Entries, Levels
  <2>2. snap' \in [Threads -> [ring : [Places -> Entries], head : Places, count : 0 .. SIZE, file_seq : Nat]]
    BY <1>1, <2>1 DEF TypeOK
  <2>3. pc' \in [Threads -> {"idle", "flush", "append", "write", "mark", "send"}]
    BY <1>1 DEF TypeOK
  <2> QED
    BY <1>1, <1>10, <2>2, <2>3 DEF TypeOK
<1>12. CounterInv' /\ RingConsistent'
  BY <1>1, <1>6, <1>10 DEF CounterInv, RingConsistent
<1>13. FlushedInFile'
  <2>1. ASSUME NEW i \in 0 .. count - 1, NEW q, q = Entry(i).seq, q <= file_seq'
        PROVE  Safe(q)
    <3>1. i \in Nat /\ i < count /\ q = global_seq - count + 1 + i
      BY <1>6, <2>1, KlogAssumption DEF RingConsistent, Entry
    <3>2. CASE q <= file_seq
      BY <2>1, <3>2 DEF FlushedInFile, Entry, Safe
    <3>3. CASE q > file_seq
      <4>1. q \in Int /\ q <= tp /\ q > f
        BY <1>6, <1>8, <1>9, <2>1, <3>1, <3>3, KlogAssumption
      <4>2. q >= tp - c + 1
        BY <1>6, <1>8, <3>1, KlogAssumption
      <4>3. q \in tp - c + 1 .. tp
        BY <1>8, <4>1, <4>2, KlogAssumption
      <4> QED
        BY <1>8, <4>1, <4>3
    <3> QED
      BY <1>6, <3>1, <3>2, <3>3, KlogAssumption
  <2> QED
    BY <1>1, <2>1 DEF FlushedInFile, Entry, InFile, Safe
<1>14. SnapInv'
  <2>1. ASSUME NEW u \in Threads, pc'[u] \in {"append", "write", "mark"}
        PROVE  CopyInv(u)'
    <3>1. pc'[u] = pc[u] /\ CopyInv(u) /\ snap'[u] = snap[u]
      BY <1>4, <2>1 DEF SnapInv
    <3> QED
      BY <1>1, <1>3, <1>6, <1>10, <3>1, CopyKept, KlogAssumption
  <2> QED
    BY <2>1 DEF SnapInv
<1>19. WriterInv'
  BY <1>1, <1>4, FileSame
<1>15. WarnInv'
  <2>1. SUFFICES ASSUME NEW i \in 0 .. count - 1, Entry(i).level = "WARN", NEW q, q = Entry(i).seq
                 PROVE  Safe(q) \/ q \in unopened \/ OnItsWay(q)'
    BY <1>1, <1>3 DEF WarnInv, Entry, OnItsWay
  <2>2. OnItsWay(q) => OnItsWay(q)'
    BY <1>1, <1>4, StillOnItsWay
  <2> QED
    BY <1>2, <2>1, <2>2 DEF WarnInv
<1>16. ModeInv'
  BY <1>1, <1>2, <1>4 DEF ModeInv, sysvars
<1>17. SysInv'
  BY <1>1, SysSame
<1>18. SendInv'
  BY <1>1, <1>4, SendSame DEF sysvars
<1> QED
  BY <1>11, <1>12, <1>13, <1>14, <1>15, <1>16, <1>17, <1>18, <1>19

-----------------------------------------------------------------------------
(* The steps of syslogd *)

(* libklog does not notice what syslogd does: the file and the list of        *)
(* unwritten entries only grow.                                             *)
LEMMA KlogSame ==
  ASSUME IInv, syslogd, UNCHANGED <<ring, head, count, global_seq, file_seq, syslogd, sending, snap, io>>,
         file' \in Seq(Nat), \A q : InFile(q) => InFile(q)', unopened' \subseteq Nat,
         pc' \in [Threads -> {"idle", "send"}]
  PROVE  KlogInv' /\ ModeInv'
<1> USE DEF IInv, KlogInv
<1>1. \A t \in Threads : pc'[t] \in {"idle", "send"}
  OBVIOUS
<1>2. pc' \in [Threads -> {"idle", "flush", "append", "write", "mark", "send"}]
  OBVIOUS
<1>3. TypeOK'
  BY <1>2 DEF TypeOK, io
<1>4. CounterInv' /\ RingConsistent'
  BY DEF CounterInv, RingConsistent
<1>5. FlushedInFile'
  <2>1. ASSUME NEW i \in 0 .. count - 1, Entry(i).seq <= file_seq, NEW q, q = Entry(i).seq
        PROVE  Safe(q)'
    BY <2>1 DEF FlushedInFile, Entry, Safe, io
  <2> QED
    BY <2>1 DEF FlushedInFile, Entry, InFile, Safe
<1>6. SnapInv' /\ WriterInv'
  BY <1>1 DEF SnapInv, WriterInv
<1>7. WarnInv' /\ ModeInv'
  BY <1>1 DEF WarnInv, ModeInv
<1> QED
  BY <1>3, <1>4, <1>5, <1>6, <1>7

(* The numbers of the lines of a buffer. *)
LEMMA SeqsType ==
  ASSUME NEW ls \in Seq(Lines)
  PROVE  Seqs(ls) \in Seq(Nat) /\ Len(Seqs(ls)) = Len(ls) /\ DOMAIN Seqs(ls) = 1 .. Len(ls)
         /\ \A k \in 1 .. Len(ls) : Seqs(ls)[k] = ls[k].seq
<1>1. DOMAIN ls = 1 .. Len(ls) /\ Len(ls) \in Nat
  BY LenProperties
<1>2. \A k \in 1 .. Len(ls) : ls[k].seq \in Nat
  BY <1>1, LineType
<1> QED
  BY <1>1, <1>2 DEF Seqs

(* A message is received. *)
LEMMA ReceivedInv ==
  ASSUME IInv, NEW t \in Threads, log_received(t)
  PROVE  IInv'
<1> USE DEF IInv
<1>1. /\ pc[t] = "send" /\ pc' = [pc EXCEPT ![t] = "idle"] /\ at = "wait" /\ at' = "open"
      /\ UNCHANGED <<ring, head, count, global_seq, file_seq, syslogd, sending, snap, io,
                     file, unopened, fopened, written, buffer>>
  BY DEF log_received, klog_send
<1>2. PICK n \in LineLens :
        /\ line' = [seq |-> sending[t].seq, level |-> sending[t].level, by |-> t, len |-> n]
        /\ taken' = Append(taken, line')
  BY DEF log_received
<1>3. syslogd
  BY <1>1 DEF ModeInv
<1>4. /\ TypeOK /\ sending \in [Threads -> Entries] /\ pc \in [Threads -> {"idle", "send"}]
      /\ taken \in Seq(Lines) /\ file \in Seq(Nat) /\ unopened \subseteq Nat
  <2>1. TypeOK
    BY DEF KlogInv
  <2>2. \A u \in Threads : pc[u] \in {"idle", "send"}
    BY <1>3 DEF ModeInv
  <2> QED
    BY <2>1, <2>2 DEF TypeOK, SysInv, SysTypeOK
<1>5. KlogInv' /\ ModeInv'
  <2>1. pc' \in [Threads -> {"idle", "send"}]
    BY <1>1, <1>4
  <2>2. file' \in Seq(Nat) /\ unopened' \subseteq Nat /\ \A q : InFile(q) => InFile(q)'
    BY <1>1, <1>4 DEF InFile
  <2> QED
    BY <1>1, <1>3, <2>1, <2>2, KlogSame
<1>6. PICK l : l = line'
  OBVIOUS
<1>7. l \in Lines /\ l.seq = sending[t].seq /\ l.by = t /\ l.len \in LineLens /\ l.seq \in Nat
  <2>1. sending[t].seq \in Nat /\ sending[t].level \in Levels
    BY <1>4 DEF Entries
  <2> QED
    BY <1>2, <1>6, <2>1 DEF Lines
<1>8. PICK N : N = Len(taken)
  OBVIOUS
<1>9. /\ taken' \in Seq(Lines) /\ Len(taken') = N + 1 /\ DOMAIN taken' = 1 .. N + 1 /\ N \in Nat
      /\ DOMAIN taken = 1 .. N /\ taken'[N + 1] = l /\ \A k \in 1 .. N : taken'[k] = taken[k]
  BY <1>2, <1>4, <1>6, <1>7, <1>8, AppendProperties, LenProperties
<1>10. \A k \in 1 .. N + 1 : k = N + 1 \/ k \in 1 .. N
  BY <1>9
<1>11. SysTypeOK'
  BY <1>1, <1>6, <1>7, <1>9 DEF SysInv, SysTypeOK
<1>12. ServerInv'
  <2>1. taken' # <<>>
    BY <1>9
  <2> QED
    BY <1>1, <1>6, <1>7, <1>9, <2>1 DEF SysInv, ServerInv
<1>13. TakenKept'
  <2>1. ASSUME NEW k \in 1 .. N
        PROVE  \/ InFile(taken[k].seq) \/ taken[k].seq \in unopened
               \/ fopened /\ InBuffer(taken[k].seq)
    BY <1>1, <1>9 DEF SysInv, TakenKept
  <2>2. \A q : (InFile(q) => InFile(q)') /\ (InBuffer(q) => InBuffer(q)')
    BY <1>1 DEF InFile, InBuffer
  <2>3. ASSUME NEW k \in 1 .. N + 1, NEW q, q = taken'[k].seq
        PROVE  \/ InFile(q)' \/ q \in unopened'
               \/ fopened' /\ InBuffer(q)'
               \/ at' # "wait" /\ line'.seq = q
    <3>1. CASE k = N + 1
      BY <1>1, <1>6, <1>9, <2>3, <3>1
    <3>2. CASE k \in 1 .. N
      <4>1. q = taken[k].seq
        BY <1>9, <2>3, <3>2
      <4>2. InFile(q) \/ q \in unopened \/ (fopened /\ InBuffer(q))
        BY <2>1, <3>2, <4>1
      <4> QED
        BY <1>1, <2>2, <4>2
    <3> QED
      BY <1>10, <3>1, <3>2
  <2> QED
    BY <1>9, <2>3 DEF TakenKept, InFile, InBuffer
<1>14. DurableInv'
  <2>1. \A j, k \in 1 .. N : j <= k /\ taken[k].level = "WARN" /\ taken[k].seq \notin unopened
          => InFile(taken[j].seq) \/ taken[j].seq \in unopened
    BY <1>1, <1>9 DEF SysInv, DurableInv
  <2>2. ASSUME NEW j \in 1 .. N + 1, NEW k \in 1 .. N + 1, j <= k, k # N + 1
        PROVE  j \in 1 .. N /\ k \in 1 .. N
    BY <1>9, <2>2
  <2> QED
    BY <1>1, <1>9, <2>1, <2>2 DEF DurableInv, InFile
<1>15. BufferBounded'
  BY <1>1 DEF SysInv, BufferBounded
<1>16. OrderInv'
  <2>1. Log' = Log
    BY <1>1 DEF Log, Seqs
  <2>2. /\ \A j \in DOMAIN Log : \E k \in DOMAIN taken : taken[k].seq = Log[j]
        /\ \A j, k \in DOMAIN Log, u \in Threads :
             j < k /\ By(Log[j], u) /\ By(Log[k], u) => Log[j] < Log[k]
    BY <1>3 DEF SysInv, OrderInv
  <2>3. ASSUME NEW j \in DOMAIN Log
        PROVE  Log[j] # l.seq /\ \E k \in DOMAIN taken' : taken'[k].seq = Log[j]
    <3>1. PICK k \in DOMAIN taken : taken[k].seq = Log[j]
      BY <2>2
    <3>2. taken[k].seq # sending[t].seq
      BY <1>1, <3>1 DEF SendInv
    <3> QED
      BY <1>7, <1>9, <3>1, <3>2
  <2>4. ASSUME NEW j \in DOMAIN Log, NEW u \in Threads, By(Log[j], u)'
        PROVE  By(Log[j], u)
    <3>1. PICK k \in DOMAIN taken' : taken'[k].seq = Log'[j] /\ taken'[k].by = u
      BY <2>4 DEF By
    <3>2. k # N + 1
      BY <1>9, <2>1, <2>3, <3>1
    <3>3. k \in DOMAIN taken /\ taken[k].seq = Log[j] /\ taken[k].by = u
      BY <1>9, <1>10, <2>1, <3>1, <3>2
    <3> QED
      BY <3>3 DEF By
  <2>5. ASSUME NEW j \in DOMAIN Log, By(Log[j], t)'
        PROVE  Log[j] < l.seq
    <3>1. PICK k \in DOMAIN taken : taken[k].seq = Log[j] /\ taken[k].by = t
      BY <2>4, <2>5 DEF By
    <3> QED
      BY <1>1, <1>7, <3>1 DEF SendInv
  <2>6. /\ \A j \in DOMAIN Log' : \E k \in DOMAIN taken' : taken'[k].seq = Log'[j]
        /\ \A j, k \in DOMAIN Log', u \in Threads :
             j < k /\ By(Log[j], u)' /\ By(Log[k], u)' => Log'[j] < Log'[k]
        /\ \A j \in DOMAIN Log' : By(Log[j], line.by)' => Log'[j] < line'.seq
    <3>1. \A j \in DOMAIN Log' : \E k \in DOMAIN taken' : taken'[k].seq = Log'[j]
      BY <2>1, <2>3
    <3>2. ASSUME NEW j \in DOMAIN Log', NEW k \in DOMAIN Log', NEW u \in Threads,
                 j < k, By(Log[j], u)', By(Log[k], u)'
          PROVE  Log'[j] < Log'[k]
      BY <2>1, <2>2, <2>4, <3>2
    <3>3. ASSUME NEW j \in DOMAIN Log', By(Log[j], line.by)'
          PROVE  Log'[j] < line'.seq
      <4>1. By(Log[j], t)'
        BY <1>6, <1>7, <3>3 DEF By
      <4> QED
        BY <1>6, <2>1, <2>5, <4>1
    <3> QED
      BY <3>1, <3>2, <3>3
  <2> QED
    BY <2>6 DEF OrderInv
<1>17. SendInv'
  <2>1. pc'[t] = "idle" /\ \A u \in Threads : u # t => pc'[u] = pc[u]
    BY <1>1, <1>4
  <2>2. /\ l.seq <= global_seq /\ \A k \in 1 .. N : taken[k].seq # l.seq
        /\ \A u \in Threads : u # t /\ pc[u] = "send" => sending[u].seq # l.seq
    BY <1>1, <1>7, <1>9 DEF SendInv
  <2>3. \A k \in DOMAIN taken' : taken'[k].seq <= global_seq
    BY <1>9, <1>10, <2>2 DEF SendInv
  <2>4. \A j, k \in DOMAIN taken' : taken'[j].seq = taken'[k].seq => j = k
    BY <1>9, <1>10, <2>2 DEF SendInv
  <2>5. ASSUME NEW u \in Threads, pc'[u] = "send"
        PROVE  /\ u # t /\ pc[u] = "send" /\ sending[u].seq <= global_seq
               /\ \A k \in DOMAIN taken' : taken'[k].seq # sending[u].seq
               /\ \A k \in DOMAIN taken' : taken'[k].by = u => taken'[k].seq < sending[u].seq
               /\ \A v \in Threads : v # u /\ pc'[v] = "send" => sending[v].seq # sending[u].seq
    <3>1. u # t /\ pc[u] = "send"
      BY <2>1, <2>5
    <3>2. /\ sending[u].seq <= global_seq
          /\ \A k \in 1 .. N : taken[k].seq # sending[u].seq
          /\ \A k \in 1 .. N : taken[k].by = u => taken[k].seq < sending[u].seq
          /\ \A v \in Threads : v # u /\ pc[v] = "send" => sending[v].seq # sending[u].seq
      BY <1>9, <3>1 DEF SendInv
    <3>3. \A v \in Threads : pc'[v] = "send" => pc[v] = "send"
      BY <2>1
    <3> QED
      BY <1>7, <1>9, <1>10, <2>2, <3>1, <3>2, <3>3
  <2> QED
    BY <1>1, <2>3, <2>4, <2>5 DEF SendInv
<1> QED
  BY <1>5, <1>11, <1>12, <1>13, <1>14, <1>15, <1>16, <1>17 DEF SysInv

(* A message is lost. *)
LEMMA DroppedInv ==
  ASSUME IInv, NEW t \in Threads, log_dropped(t)
  PROVE  IInv'
<1> USE DEF IInv
<1>1. /\ pc[t] = "send" /\ pc' = [pc EXCEPT ![t] = "idle"]
      /\ UNCHANGED <<ring, head, count, global_seq, file_seq, syslogd, sending, snap, io, file, unopened>>
      /\ UNCHANGED sysvars
  BY DEF log_dropped, klog_send
<1>2. syslogd
  BY <1>1 DEF ModeInv
<1>3. pc \in [Threads -> {"idle", "send"}] /\ file \in Seq(Nat) /\ unopened \subseteq Nat
  <2>1. TypeOK
    BY DEF KlogInv
  <2>2. \A u \in Threads : pc[u] \in {"idle", "send"}
    BY <1>2 DEF ModeInv
  <2> QED
    BY <2>1, <2>2 DEF TypeOK
<1>4. pc' \in [Threads -> {"idle", "send"}] /\ \A u \in Threads : pc'[u] = "send" => pc[u] = "send"
  BY <1>1, <1>3
<1>5. file' \in Seq(Nat) /\ unopened' \subseteq Nat /\ \A q : InFile(q) => InFile(q)'
  BY <1>1, <1>3 DEF InFile
<1>6. KlogInv' /\ ModeInv'
  BY <1>1, <1>2, <1>4, <1>5, KlogSame
<1>7. SysInv'
  BY <1>1, SysSame
<1>8. SendInv'
  BY <1>1, <1>4, SendSame DEF sysvars
<1> QED
  BY <1>6, <1>7, <1>8

(* What a step of op_log must do to keep what was received: the file grows,   *)
(* the buffer goes to the file or stays, and the line in work is settled when *)
(* op_log returns.                                                          *)
Settles ==
  /\ file' \in Seq(Nat) /\ unopened' \subseteq Nat /\ unopened \subseteq unopened'
  /\ \A q : InFile(q) => InFile(q)'
  /\ \A q : fopened /\ InBuffer(q) => InFile(q)' \/ (fopened' /\ InBuffer(q)')
  /\ at' = "wait" => \/ line.seq \in unopened'
                     \/ line.level = "WARN" /\ \A q : InBuffer(q) => InFile(q)'
                     \/ line.level # "WARN" /\ fopened' /\ InBuffer(line.seq)'

(* Such a step keeps what was received, and the warnings on disk. *)
LEMMA KeptNext ==
  ASSUME IInv, Settles, at # "wait", UNCHANGED <<taken, line>>, at' = "wait" => at \in {"open", "flush"},
         at = "flush" /\ at' = "wait" /\ line.level = "WARN" => InBuffer(line.seq),
         at = "open" /\ at' = "wait" => line.seq \in unopened'
  PROVE  TakenKept' /\ DurableInv'
<1> USE DEF IInv, SysInv
<1>1. ASSUME NEW q, \/ InFile(q) \/ q \in unopened
                    \/ fopened /\ InBuffer(q)
                    \/ line.seq = q
      PROVE  \/ InFile(q)' \/ q \in unopened'
             \/ fopened' /\ InBuffer(q)'
             \/ at' # "wait" /\ line'.seq = q
  BY <1>1 DEF Settles
<1>2. TakenKept'
  <2>1. \A k \in DOMAIN taken : LET q == taken[k].seq
                                IN  \/ InFile(q) \/ q \in unopened
                                    \/ fopened /\ InBuffer(q)
                                    \/ line.seq = q
    BY DEF TakenKept
  <2>2. ASSUME NEW k \in DOMAIN taken, NEW q, q = taken[k].seq
        PROVE  \/ InFile(q)' \/ q \in unopened'
               \/ fopened' /\ InBuffer(q)'
               \/ at' # "wait" /\ line'.seq = q
    BY <1>1, <2>1, <2>2
  <2> QED
    BY <2>2 DEF TakenKept, InFile, InBuffer
<1>3. DurableInv'
  <2>1. ASSUME NEW j \in DOMAIN taken, NEW k \in DOMAIN taken, j <= k, taken[k].level = "WARN",
               taken[k].seq \notin unopened', NEW q, q = taken[j].seq
        PROVE  InFile(q)' \/ q \in unopened' \/ (at' # "wait" /\ k = Len(taken))
    <3>1. CASE InFile(q) \/ q \in unopened
      BY <3>1 DEF Settles
    <3>2. CASE ~(InFile(q) \/ q \in unopened) /\ at' = "wait"
      <4>1. taken[k].seq \notin unopened
        BY <2>1 DEF Settles
      <4>2. k = Len(taken)
        BY <2>1, <3>2, <4>1 DEF DurableInv
      <4>3. line = taken[k]
        BY <4>2 DEF ServerInv
      <4>4. line.level = "WARN" /\ line.seq \notin unopened'
        BY <2>1, <4>3
      <4>5. (\A x : InBuffer(x) => InFile(x)') /\ InBuffer(line.seq)
        BY <3>2, <4>4 DEF Settles
      <4>6. (fopened /\ InBuffer(q)) \/ line.seq = q
        BY <2>1, <3>2 DEF TakenKept
      <4> QED
        BY <4>5, <4>6
    <3>3. CASE ~(InFile(q) \/ q \in unopened) /\ at' # "wait"
      <4>1. taken[k].seq \notin unopened
        BY <2>1 DEF Settles
      <4>2. k = Len(taken)
        BY <2>1, <3>3, <4>1 DEF DurableInv
      <4> QED
        BY <3>3, <4>2
    <3> QED
      BY <3>1, <3>2, <3>3
  <2> QED
    BY <2>1 DEF DurableInv, InFile
<1> QED
  BY <1>2, <1>3

(* The lengths of lines. *)
Lens(ls) == [k \in DOMAIN ls |-> ls[k].len]

(* The numbers and the lengths of a buffer with one more line. *)
LEMMA BufferNext ==
  ASSUME NEW b \in Seq(Lines), NEW l \in Lines
  PROVE  /\ Append(b, l) \in Seq(Lines) /\ Seqs(Append(b, l)) = Append(Seqs(b), l.seq)
         /\ Lens(b) \in Seq(Nat) /\ Lens(Append(b, l)) = Append(Lens(b), l.len)
<1>1. /\ Append(b, l) \in Seq(Lines) /\ Len(Append(b, l)) = Len(b) + 1 /\ Len(b) \in Nat
      /\ DOMAIN Append(b, l) = 1 .. Len(b) + 1 /\ DOMAIN b = 1 .. Len(b)
      /\ Append(b, l)[Len(b) + 1] = l /\ \A k \in 1 .. Len(b) : Append(b, l)[k] = b[k]
  BY AppendProperties, LenProperties
<1>2. Seqs(b) \in Seq(Nat) /\ Len(Seqs(b)) = Len(b) /\ \A k \in 1 .. Len(b) : Seqs(b)[k] = b[k].seq
  BY SeqsType
<1>3. \A k \in 1 .. Len(b) : b[k].len \in Nat
  BY <1>1, LineType
<1>4. Lens(b) \in Seq(Nat) /\ Len(Lens(b)) = Len(b) /\ \A k \in 1 .. Len(b) : Lens(b)[k] = b[k].len
  BY <1>1, <1>3 DEF Lens
<1>5. l.seq \in Nat /\ l.len \in Nat
  <2>1. <<l>> \in Seq(Lines) /\ 1 \in DOMAIN <<l>> /\ <<l>>[1] = l
    OBVIOUS
  <2> QED
    BY <2>1, LineType
<1>6. Append(Seqs(b), l.seq) = [i \in 1 .. Len(b) + 1 |-> IF i = Len(b) + 1 THEN l.seq ELSE Seqs(b)[i]]
  BY <1>2, <1>5, AppendEntries
<1>7. Append(Lens(b), l.len) = [i \in 1 .. Len(b) + 1 |-> IF i = Len(b) + 1 THEN l.len ELSE Lens(b)[i]]
  BY <1>4, <1>5, AppendEntries
<1>8. Seqs(Append(b, l)) = [i \in 1 .. Len(b) + 1 |-> IF i = Len(b) + 1 THEN l.seq ELSE Seqs(b)[i]]
  <2>1. Seqs(Append(b, l)) = [i \in 1 .. Len(b) + 1 |-> Append(b, l)[i].seq]
    BY <1>1 DEF Seqs
  <2>2. \A i \in 1 .. Len(b) + 1 : Append(b, l)[i].seq = IF i = Len(b) + 1 THEN l.seq ELSE Seqs(b)[i]
    BY <1>1, <1>2
  <2> QED
    BY <2>1, <2>2
<1>9. Lens(Append(b, l)) = [i \in 1 .. Len(b) + 1 |-> IF i = Len(b) + 1 THEN l.len ELSE Lens(b)[i]]
  <2>1. Lens(Append(b, l)) = [i \in 1 .. Len(b) + 1 |-> Append(b, l)[i].len]
    BY <1>1 DEF Lens
  <2>2. \A i \in 1 .. Len(b) + 1 : Append(b, l)[i].len = IF i = Len(b) + 1 THEN l.len ELSE Lens(b)[i]
    BY <1>1, <1>4
  <2> QED
    BY <2>1, <2>2
<1> QED
  BY <1>1, <1>4, <1>6, <1>7, <1>8, <1>9

(* The same of the empty buffer. *)
LEMMA BufferNone == Seqs(<<>>) = <<>> /\ Lens(<<>>) = <<>> /\ <<>> \in Seq(Lines)
<1>1. Seqs(<<>>) = <<>>
  BY DEF Seqs
<1>2. Lens(<<>>) = <<>>
  BY DEF Lens
<1> QED
  BY <1>1, <1>2

(* What closing the file does. *)
LEMMA ReopenFacts ==
  ASSUME IInv, NEW ok, Reopened(ok)
  PROVE  /\ file' \in Seq(Nat) /\ buffer' = <<>> /\ written' = 0 /\ fopened' = ok
         /\ \A q : (InFile(q) => InFile(q)') /\ (InBuffer(q) => InFile(q)')
         /\ Log' = Log
<1>1. buffer \in Seq(Lines) /\ file \in Seq(Nat)
  BY DEF IInv, KlogInv, SysInv, TypeOK, SysTypeOK
<1>2. PICK x : x = Seqs(buffer)
  OBVIOUS
<1>3. x \in Seq(Nat) /\ DOMAIN x = DOMAIN buffer /\ \A k \in DOMAIN buffer : x[k] = buffer[k].seq
  <2>1. DOMAIN buffer = 1 .. Len(buffer)
    BY <1>1
  <2> QED
    BY <1>1, <1>2, <2>1, SeqsType
<1>4. file' = file \o x /\ buffer' = <<>> /\ written' = 0 /\ fopened' = ok
  BY <1>2 DEF Reopened
<1>5. file' \in Seq(Nat) /\ (\A q : InFile(q) => InFile(q)') /\ \A k \in DOMAIN x : InFile(x[k])'
  BY <1>1, <1>3, <1>4, FileGrows
<1>6. ASSUME NEW q, InBuffer(q)
      PROVE  InFile(q)'
  <2>1. PICK k \in DOMAIN buffer : buffer[k].seq = q
    BY <1>6 DEF InBuffer
  <2>2. k \in DOMAIN x /\ x[k] = q
    BY <1>3, <2>1
  <2>3. InFile(x[k])'
    BY <1>5, <2>2
  <2> QED
    BY <2>2, <2>3
<1>7. Log' = file' \o <<>>
  BY <1>4, BufferNone DEF Log
<1>8. Log' = file'
  BY <1>5, <1>7, ConcatEmptySeq
<1> QED
  BY <1>2, <1>4, <1>5, <1>6, <1>8 DEF Log

(* The order of the log does not change when the buffer is written out... *)
LEMMA OrderSame ==
  ASSUME OrderInv, Log' = Log, UNCHANGED <<taken, line, syslogd>>,
         at' \in {"open", "write"} => at \in {"open", "write"}
  PROVE  OrderInv'
BY DEF OrderInv, By

(* ... and a line goes to the end of it. *)
LEMMA OrderAppend ==
  ASSUME IInv, at = "write", at' = "flush", Log' = Append(Log, line.seq), UNCHANGED <<taken, line, syslogd>>
  PROVE  OrderInv'
<1> USE DEF IInv, SysInv
<1>1. SUFFICES ASSUME syslogd
               PROVE  /\ \A j \in DOMAIN Log' : \E k \in DOMAIN taken : taken[k].seq = Log'[j]
                      /\ \A j, k \in DOMAIN Log', t \in Threads :
                           j < k /\ By(Log'[j], t) /\ By(Log'[k], t) => Log'[j] < Log'[k]
  BY DEF OrderInv, By
<1>2. buffer \in Seq(Lines) /\ file \in Seq(Nat) /\ line \in Lines /\ taken \in Seq(Lines)
  BY DEF KlogInv, TypeOK, SysTypeOK
<1>3. Log \in Seq(Nat)
  BY <1>2, SeqsType, Joined DEF Log
<1>4. /\ taken # <<>> /\ line = taken[Len(taken)]
  BY DEF ServerInv
<1>5. Len(taken) \in DOMAIN taken /\ line.seq \in Nat
  <2>1. Len(taken) \in DOMAIN taken
    BY <1>2, <1>4
  <2> QED
    BY <1>2, <1>4, <2>1, LineType
<1>6. PICK N : N = Len(Log)
  OBVIOUS
<1>7. /\ DOMAIN Log = 1 .. N /\ N \in Nat /\ DOMAIN Log' = 1 .. N + 1
      /\ Log'[N + 1] = line.seq /\ \A j \in 1 .. N : Log'[j] = Log[j]
  BY <1>3, <1>5, <1>6, AppendProperties, LenProperties
<1>8. \A j \in 1 .. N + 1 : j = N + 1 \/ j \in 1 .. N
  BY <1>7
<1>9. ASSUME NEW j \in 1 .. N + 1
      PROVE  \E k \in DOMAIN taken : taken[k].seq = Log'[j]
  <2>1. CASE j = N + 1
    BY <1>4, <1>5, <1>7, <2>1
  <2>2. CASE j \in 1 .. N
    BY <1>1, <1>7, <2>2 DEF OrderInv
  <2> QED
    BY <1>8, <2>1, <2>2
<1>10. ASSUME NEW j \in 1 .. N + 1, NEW k \in 1 .. N + 1, NEW t \in Threads,
              j < k, By(Log'[j], t), By(Log'[k], t)
       PROVE  Log'[j] < Log'[k]
  <2>0. j \in 1 .. N
    BY <1>7, <1>10
  <2>1. CASE k \in 1 .. N
    BY <1>1, <1>7, <1>10, <2>0, <2>1 DEF OrderInv
  <2>2. CASE k = N + 1
    <3>1. PICK i \in DOMAIN taken : taken[i].seq = line.seq /\ taken[i].by = t
      BY <1>7, <1>10, <2>2 DEF By
    <3>2. i = Len(taken)
      BY <1>4, <1>5, <3>1 DEF SendInv
    <3>3. line.by = t
      BY <1>4, <3>1, <3>2
    <3>4. By(Log[j], line.by) /\ j \in DOMAIN Log
      BY <1>7, <1>10, <2>0, <3>3
    <3>5. Log[j] < line.seq
      BY <1>1, <3>4 DEF OrderInv
    <3> QED
      BY <1>7, <2>0, <2>2, <3>5
  <2> QED
    BY <1>8, <2>1, <2>2
<1> QED
  BY <1>7, <1>9, <1>10

(* Where the threads are while syslogd works. *)
LEMMA ServerBusy ==
  ASSUME IInv, at # "wait", Settles, at' \in {"wait", "open", "write", "flush"},
         UNCHANGED <<ring, head, count, global_seq, file_seq, pc, syslogd, sending, snap, io>>, taken' = taken
  PROVE  KlogInv' /\ ModeInv' /\ SendInv' /\ syslogd
<1> USE DEF IInv
<1>1. syslogd
  BY DEF ModeInv
<1>2. pc' \in [Threads -> {"idle", "send"}]
  <2>1. TypeOK
    BY DEF KlogInv
  <2>2. \A u \in Threads : pc[u] \in {"idle", "send"}
    BY <1>1 DEF ModeInv
  <2> QED
    BY <2>1, <2>2 DEF TypeOK
<1>3. KlogInv' /\ ModeInv'
  BY <1>1, <1>2, KlogSame DEF Settles
<1>4. SendInv'
  BY SendSame
<1> QED
  BY <1>1, <1>3, <1>4

(* What has been counted since the last reopen. *)
BoundOf(w, b) ==
  /\ Total(Lens(b)) <= w
  /\ \A n \in LineLens : (\A m \in LineLens : m <= n) => w < REOPEN_BYTES + n

(* BufferBounded in these terms; an empty buffer is bounded... *)
LEMMA BoundIs == (BufferBounded <=> BoundOf(written, buffer)) /\ BoundOf(0, <<>>)
<1>1. BufferBounded <=> BoundOf(written, buffer)
  BY DEF BufferBounded, BoundOf, Lens
<1>2. Total(Lens(<<>>)) = 0
  BY BufferNone, TotalAppend
<1>3. \A n \in LineLens : 0 < REOPEN_BYTES + n
  BY SyslogdAssumption
<1> QED
  BY <1>1, <1>2, <1>3 DEF BoundOf

(* ... and the same of the next state. *)
LEMMA BoundIsNext == (BufferBounded <=> BoundOf(written, buffer))'
BY BoundIs, PTL

(* op_log opens or reopens the file. *)
LEMMA OpenInv ==
  ASSUME IInv, op_log_open,
         UNCHANGED <<ring, head, count, global_seq, file_seq, pc, syslogd, sending, snap, io>>
  PROVE  IInv'
<1> USE DEF IInv, SysInv
<1>1. PICK ok \in BOOLEAN :
        /\ \/ MustReopen /\ Reopened(ok)
           \/ ~MustReopen /\ fopened /\ ok /\ UNCHANGED <<fopened, written, buffer, file>>
           \/ ~MustReopen /\ ~fopened /\ fopened' = ok /\ UNCHANGED <<written, buffer, file>>
        /\ \/ ok /\ at' = "write" /\ UNCHANGED unopened
           \/ ~ok /\ at' = "wait" /\ unopened' = unopened \cup {line.seq}
  BY DEF op_log_open
<1>2. at = "open" /\ UNCHANGED <<line, taken>>
  BY DEF op_log_open
<1>3. /\ TypeOK /\ SysTypeOK /\ ServerInv /\ buffer \in Seq(Lines) /\ file \in Seq(Nat)
      /\ line \in Lines /\ unopened \subseteq Nat /\ written \in Nat
  BY DEF KlogInv, TypeOK, SysTypeOK
<1>4. line.seq \in Nat
  BY <1>3 DEF Lines
<1>5. /\ file' \in Seq(Nat) /\ buffer' \in Seq(Lines) /\ written' \in Nat /\ fopened' = ok
      /\ \A q : InFile(q) => InFile(q)'
      /\ \A q : fopened /\ InBuffer(q) => InFile(q)' \/ (fopened' /\ InBuffer(q)')
      /\ (~ok => buffer' = <<>>) /\ written' < REOPEN_BYTES /\ Log' = Log
      /\ BoundOf(written', buffer')
  <2>1. CASE MustReopen /\ Reopened(ok)
    <3>1. /\ file' \in Seq(Nat) /\ buffer' = <<>> /\ written' = 0 /\ fopened' = ok /\ Log' = Log
          /\ \A q : (InFile(q) => InFile(q)') /\ (InBuffer(q) => InFile(q)')
      BY <2>1, ReopenFacts
    <3>2. written' < REOPEN_BYTES
      BY <3>1, SyslogdAssumption
    <3>3. BoundOf(written', buffer')
      BY <3>1, BoundIs
    <3>4. buffer' \in Seq(Lines) /\ written' \in Nat
      BY <3>1
    <3> QED
      BY <3>1, <3>2, <3>3, <3>4
  <2>2. CASE ~MustReopen /\ UNCHANGED <<written, buffer, file>> /\ fopened' = ok /\ (fopened => ok)
    <3>1. \A q : (InFile(q) => InFile(q)') /\ (InBuffer(q) => InBuffer(q)')
      BY <2>2 DEF InFile, InBuffer
    <3>2. written' < REOPEN_BYTES
      BY <1>3, <2>2, SyslogdAssumption DEF MustReopen
    <3>3. Log' = Log
      BY <2>2 DEF Log, Seqs
    <3>4. BoundOf(written', buffer')
      BY <2>2, BoundIs
    <3>5. ~ok => buffer' = <<>>
      BY <1>3, <2>2 DEF ServerInv
    <3>6. \A q : fopened /\ InBuffer(q) => fopened' /\ InBuffer(q)'
      BY <2>2, <3>1
    <3>7. file' \in Seq(Nat) /\ buffer' \in Seq(Lines) /\ written' \in Nat
      BY <1>3, <2>2
    <3> QED
      BY <2>2, <3>1, <3>2, <3>3, <3>4, <3>5, <3>6, <3>7
  <2>3. CASE ~MustReopen /\ fopened /\ ok /\ UNCHANGED <<fopened, written, buffer, file>>
    <3>1. fopened = ok
      BY <1>3, <2>3, Zenon DEF SysTypeOK
    <3> QED
      BY <2>2, <2>3, <3>1
  <2>4. CASE ~MustReopen /\ ~fopened /\ fopened' = ok /\ UNCHANGED <<written, buffer, file>>
    BY <2>2, <2>4
  <2> QED
    BY <1>1, <2>1, <2>3, <2>4
<1>6. /\ unopened' \subseteq Nat /\ unopened \subseteq unopened' /\ at' \in {"write", "wait"}
      /\ at' = "wait" => ~ok /\ line.seq \in unopened'
      /\ at' = "write" => ok
  BY <1>1, <1>3, <1>4
<1>7. Settles
  BY <1>5, <1>6 DEF Settles
<1>8. TakenKept' /\ DurableInv'
  BY <1>2, <1>6, <1>7, KeptNext
<1>9. KlogInv' /\ ModeInv' /\ SendInv'
  BY <1>2, <1>6, <1>7, ServerBusy
<1>10. SysTypeOK'
  BY <1>2, <1>3, <1>5, <1>6 DEF SysTypeOK
<1>11. ServerInv'
  BY <1>2, <1>3, <1>5, <1>6 DEF ServerInv
<1>12. BufferBounded'
  BY <1>5, BoundIsNext
<1>13. OrderInv'
  BY <1>2, <1>5, OrderSame
<1> QED
  BY <1>8, <1>9, <1>10, <1>11, <1>12, <1>13

(* op_log writes the line to the stream. *)
LEMMA WriteLineInv ==
  ASSUME IInv, op_log_write,
         UNCHANGED <<ring, head, count, global_seq, file_seq, pc, syslogd, sending, snap, io>>
  PROVE  IInv'
<1> USE DEF IInv, SysInv
<1>1. /\ at = "write" /\ at' = "flush" /\ written' = written + line.len
      /\ UNCHANGED <<line, fopened, taken, unopened>>
      /\ \/ buffer' = Append(buffer, line) /\ UNCHANGED file
         \/ buffer' = <<line>> /\ file' = file \o Seqs(buffer)
  BY DEF op_log_write, Written, CountedBytes
<1>2. /\ TypeOK /\ SysTypeOK /\ ServerInv /\ buffer \in Seq(Lines) /\ file \in Seq(Nat)
      /\ line \in Lines /\ unopened \subseteq Nat /\ written \in Nat
  BY DEF KlogInv, TypeOK, SysTypeOK
<1>3. /\ fopened /\ line.len \in LineLens /\ line.len \in Nat /\ line.seq \in Nat
      /\ written < REOPEN_BYTES /\ taken # <<>> /\ line = taken[Len(taken)]
  <2>1. line.len \in LineLens /\ line.seq \in Nat
    BY <1>1, <1>2 DEF ServerInv, Lines
  <2>2. line.len \in Nat
    BY <2>1, SyslogdAssumption
  <2> QED
    BY <1>1, <1>2, <2>1, <2>2 DEF ServerInv
<1>4. Seqs(buffer) \in Seq(Nat) /\ Log \in Seq(Nat)
  BY <1>2, SeqsType, Joined DEF Log
<1>5. <<line.seq>> \in Seq(Nat)
  BY <1>3
<1>6. ASSUME NEW s \in Seq(Nat)
      PROVE  Append(s, line.seq) = s \o <<line.seq>>
  BY <1>3
<1>7. Total(Lens(buffer)) \in Nat /\ Total(Lens(buffer)) <= written
  BY <1>2, <1>3, BoundIs, BufferNext, TotalAppend DEF BoundOf
<1>8. \A n \in LineLens : (\A m \in LineLens : m <= n) => written + line.len < REOPEN_BYTES + n
  BY <1>2, <1>3, SyslogdAssumption
<1>9. /\ file' \in Seq(Nat) /\ buffer' \in Seq(Lines) /\ InBuffer(line.seq)'
      /\ \A q : InFile(q) => InFile(q)'
      /\ \A q : InBuffer(q) => InFile(q)' \/ InBuffer(q)'
      /\ Log' = Append(Log, line.seq) /\ Total(Lens(buffer')) <= written + line.len
  <2>1. CASE buffer' = Append(buffer, line) /\ UNCHANGED file
    <3>1. /\ buffer' \in Seq(Lines) /\ Seqs(buffer') = Append(Seqs(buffer), line.seq)
          /\ Lens(buffer) \in Seq(Nat) /\ Lens(buffer') = Append(Lens(buffer), line.len)
      BY <1>2, <2>1, BufferNext
    <3>2. /\ DOMAIN buffer' = 1 .. Len(buffer) + 1 /\ DOMAIN buffer = 1 .. Len(buffer) /\ Len(buffer) \in Nat
          /\ buffer'[Len(buffer) + 1] = line /\ \A k \in 1 .. Len(buffer) : buffer'[k] = buffer[k]
      BY <1>2, <2>1, AppendProperties, LenProperties
    <3>3. InBuffer(line.seq)' /\ \A q : InBuffer(q) => InBuffer(q)'
      BY <1>1, <3>2 DEF InBuffer
    <3>4. \A q : InFile(q) => InFile(q)'
      BY <2>1 DEF InFile
    <3>5. Log' = file \o (Seqs(buffer) \o <<line.seq>>)
      BY <1>4, <1>6, <2>1, <3>1 DEF Log
    <3>6. Log' = (file \o Seqs(buffer)) \o <<line.seq>>
      BY <1>2, <1>4, <1>5, <3>5, ConcatAssociative, SMTT(30)
    <3>7. Log' = Append(Log, line.seq)
      BY <1>4, <1>6, <3>6 DEF Log
    <3>8. Total(Lens(buffer')) = Total(Lens(buffer)) + line.len
      BY <1>3, <3>1, TotalAppend
    <3>9. Total(Lens(buffer')) <= written + line.len
      BY <1>2, <1>3, <1>7, <3>8
    <3> QED
      BY <1>2, <2>1, <3>1, <3>3, <3>4, <3>7, <3>9
  <2>2. CASE buffer' = <<line>> /\ file' = file \o Seqs(buffer)
    <3>1. <<>> \in Seq(Lines) /\ <<line>> = Append(<<>>, line)
      OBVIOUS
    <3>2. /\ buffer' \in Seq(Lines) /\ Seqs(buffer') = Append(<<>>, line.seq)
          /\ Lens(buffer') = Append(<<>>, line.len)
      BY <1>2, <2>2, <3>1, BufferNext, BufferNone
    <3>3. Total(<<>>) = 0 /\ <<>> \in Seq(Nat)
      BY TotalAppend
    <3>4. Total(Lens(buffer')) = 0 + line.len
      BY <1>3, <3>2, <3>3, TotalAppend
    <3>5. InBuffer(line.seq)'
      BY <1>1, <2>2 DEF InBuffer
    <3>6. PICK x : x = Seqs(buffer)
      OBVIOUS
    <3>7. /\ file' \in Seq(Nat) /\ (\A q : InFile(q) => InFile(q)')
          /\ \A k \in DOMAIN x : InFile(x[k])'
      BY <1>2, <1>4, <2>2, <3>6, FileGrows
    <3>8. ASSUME NEW q, InBuffer(q)
          PROVE  InFile(q)'
      <4>1. PICK k \in DOMAIN buffer : buffer[k].seq = q
        BY <3>8 DEF InBuffer
      <4>2. k \in DOMAIN x /\ x[k] = q
        BY <3>6, <4>1 DEF Seqs
      <4>3. InFile(x[k])'
        BY <3>7, <4>2
      <4> QED
        BY <4>2, <4>3
    <3>9. Log' = Log \o <<line.seq>>
      <4>1. Append(<<>>, line.seq) = <<line.seq>>
        BY <1>3
      <4>2. Seqs(buffer') = <<line.seq>>
        BY <3>2, <4>1
      <4> QED
        BY <2>2, <4>2 DEF Log
    <3>10. Log' = Append(Log, line.seq)
      BY <1>4, <1>6, <3>9
    <3>11. Total(Lens(buffer')) <= written + line.len
      BY <1>2, <1>3, <3>4
    <3> QED
      BY <3>2, <3>5, <3>7, <3>8, <3>10, <3>11
  <2> QED
    BY <1>1, <2>1, <2>2
<1>10. Settles
  BY <1>1, <1>2, <1>9 DEF Settles
<1>11. TakenKept' /\ DurableInv'
  BY <1>1, <1>10, KeptNext
<1>12. KlogInv' /\ ModeInv' /\ SendInv'
  BY <1>1, <1>10, ServerBusy
<1>13. SysTypeOK'
  BY <1>1, <1>2, <1>3, <1>9 DEF SysTypeOK
<1>14. ServerInv'
  BY <1>1, <1>2, <1>3, <1>9 DEF ServerInv, InBuffer
<1>15. BufferBounded'
  BY <1>1, <1>8, <1>9, BoundIsNext DEF BoundOf
<1>16. OrderInv'
  BY <1>1, <1>9, OrderAppend
<1> QED
  BY <1>11, <1>12, <1>13, <1>14, <1>15, <1>16

(* op_log flushes after a warning. *)
LEMMA FlushLineInv ==
  ASSUME IInv, op_log_flush,
         UNCHANGED <<ring, head, count, global_seq, file_seq, pc, syslogd, sending, snap, io>>
  PROVE  IInv'
<1> USE DEF IInv, SysInv
<1>1. at = "flush" /\ at' = "wait" /\ UNCHANGED <<line, taken, unopened>>
  BY DEF op_log_flush
<1>2. /\ TypeOK /\ SysTypeOK /\ ServerInv /\ buffer \in Seq(Lines) /\ file \in Seq(Nat)
      /\ unopened \subseteq Nat /\ written \in Nat /\ fopened /\ InBuffer(line.seq)
  BY <1>1 DEF KlogInv, TypeOK, SysTypeOK, ServerInv
<1> DEFINE Done ==
      /\ file' \in Seq(Nat) /\ buffer' \in Seq(Lines) /\ written' \in Nat /\ fopened' \in BOOLEAN
      /\ \A q : InFile(q) => InFile(q)'
      /\ \A q : InBuffer(q) => InFile(q)' \/ (fopened' /\ InBuffer(q)')
      /\ \/ line.level = "WARN" /\ \A q : InBuffer(q) => InFile(q)'
         \/ line.level # "WARN" /\ fopened' /\ InBuffer(line.seq)'
      /\ (~fopened' => buffer' = <<>>) /\ Log' = Log /\ BoundOf(written', buffer')
<1>3. Done
  <2>1. ASSUME NEW ok \in BOOLEAN, IsUrgent, Reopened(ok)
        PROVE  Done
    <3>1. /\ file' \in Seq(Nat) /\ buffer' = <<>> /\ written' = 0 /\ fopened' = ok /\ Log' = Log
          /\ \A q : (InFile(q) => InFile(q)') /\ (InBuffer(q) => InFile(q)')
      BY <2>1, ReopenFacts
    <3>2. BoundOf(written', buffer')
      BY <3>1, BoundIs
    <3>3. buffer' \in Seq(Lines) /\ written' \in Nat
      BY <3>1
    <3> QED
      BY <2>1, <3>1, <3>2, <3>3 DEF IsUrgent
  <2>2. ASSUME ~IsUrgent, UNCHANGED <<fopened, written, buffer, file>>
        PROVE  Done
    <3>1. \A q : (InFile(q) => InFile(q)') /\ (InBuffer(q) => InBuffer(q)')
      BY <2>2 DEF InFile, InBuffer
    <3>2. BoundOf(written', buffer')
      BY <2>2, BoundIs
    <3>3. Log' = Log
      BY <2>2 DEF Log, Seqs
    <3>4. InBuffer(line.seq)' /\ fopened'
      BY <1>1, <1>2, <2>2 DEF InBuffer
    <3> QED
      BY <1>2, <2>2, <3>1, <3>2, <3>3, <3>4 DEF IsUrgent, SysTypeOK
  <2> HIDE DEF Done
  <2> QED
    BY <2>1, <2>2, Zenon DEF op_log_flush
<1>4. Settles
  BY <1>1, <1>2, <1>3 DEF Settles
<1>5. TakenKept' /\ DurableInv'
  BY <1>1, <1>2, <1>4, KeptNext
<1>6. KlogInv' /\ ModeInv' /\ SendInv'
  BY <1>1, <1>4, ServerBusy
<1>7. SysTypeOK'
  BY <1>1, <1>2, <1>3 DEF SysTypeOK
<1>8. ServerInv'
  BY <1>1, <1>2, <1>3 DEF ServerInv
<1>9. BufferBounded'
  BY <1>3, BoundIsNext
<1>10. OrderInv'
  BY <1>1, <1>3, OrderSame
<1> QED
  BY <1>5, <1>6, <1>7, <1>8, <1>9, <1>10

-----------------------------------------------------------------------------
(* The specification *)

(* An empty log satisfies the invariant. *)
LEMMA InitInv == LogInit => IInv
<1> SUFFICES ASSUME LogInit PROVE IInv
  OBVIOUS
<1> USE DEF LogInit, Init, SysInit
<1>1. Empty \in Entries /\ 0 \in Places /\ Places # {} /\ 0 \in 0 .. SIZE
  <2>1. Empty \in Entries
    BY DEF Empty, Entries, Levels
  <2>2. 0 \in Places /\ 0 \in 0 .. SIZE
    BY KlogAssumption DEF Places
  <2> QED
    BY <2>1, <2>2
<1>2. NoSnap \in [ring : [Places -> Entries], head : Places, count : 0 .. SIZE, file_seq : Nat]
  BY <1>1 DEF NoSnap
<1>3. TypeOK
  BY <1>1, <1>2 DEF TypeOK
<1>4. CounterInv /\ RingConsistent /\ FlushedInFile /\ WarnInv
  BY KlogAssumption DEF CounterInv, RingConsistent, FlushedInFile, WarnInv
<1>5. SnapInv /\ WriterInv /\ ModeInv
  BY DEF SnapInv, WriterInv, ModeInv
<1>6. NoLine \in Lines
  <2>1. (CHOOSE t \in Threads : TRUE) \in Threads
    BY KlogAssumption, Zenon
  <2>2. PICK u \in Threads : NoLine = [seq |-> 0, level |-> "WARN", by |-> u, len |-> 0]
    BY <2>1, Zenon DEF NoLine
  <2>3. [seq |-> 0, level |-> "WARN", by |-> u, len |-> 0] \in Lines
    <3>1. 0 \in Nat /\ "WARN" \in Levels /\ 0 \in LineLens \cup {0}
      BY DEF Levels
    <3> QED
      BY <2>2, <3>1, Zenon DEF Lines
  <2> QED
    BY <2>2, <2>3, Zenon
<1>7. SysTypeOK /\ ServerInv
  <2>1. /\ at = "wait" /\ line = NoLine /\ fopened = FALSE /\ written = 0
        /\ buffer = <<>> /\ taken = <<>>
    OBVIOUS
  <2>2. <<>> \in Seq(Lines) /\ 0 \in Nat
    OBVIOUS
  <2>3. SysTypeOK
    BY <1>6, <2>1, <2>2, Zenon DEF SysTypeOK
  <2>4. ServerInv
    BY <2>1 DEF ServerInv
  <2> QED
    BY <2>3, <2>4
<1>8. TakenKept /\ DurableInv /\ SendInv
  BY DEF TakenKept, DurableInv, SendInv
<1>9. BufferBounded
  BY BoundIs
<1>10. OrderInv
  <2>1. Log = <<>>
    BY BufferNone DEF Log
  <2> QED
    BY <2>1 DEF OrderInv
<1> QED
  BY <1>3, <1>4, <1>5, <1>7, <1>8, <1>9, <1>10 DEF IInv, KlogInv, SysInv

(* A step that changes nothing. *)
LEMMA StutterInv ==
  ASSUME IInv, UNCHANGED <<vars, sysvars>>
  PROVE  IInv'
<1>1. /\ UNCHANGED <<ring, head, count, global_seq, file_seq, file, pc, syslogd, sending, snap, unopened>>
      /\ UNCHANGED <<left, pos, raced>> /\ UNCHANGED sysvars
  BY DEF vars, io
<1>2. UNCHANGED <<at, line, fopened, written, buffer, taken>>
  BY <1>1 DEF sysvars
<1>3. SysInv'
  BY <1>1, SysSame DEF IInv
<1>4. SendInv'
  BY <1>1, <1>2, SendSame DEF IInv
<1>5. ModeInv'
  BY <1>1, <1>2 DEF IInv, ModeInv
<1>6. TypeOK' /\ CounterInv' /\ RingConsistent' /\ FlushedInFile'
  BY <1>1 DEF IInv, KlogInv, TypeOK, CounterInv, RingConsistent, FlushedInFile, InFile
<1>7. SnapInv'
  <2>1. ASSUME NEW t \in Threads, pc[t] \in {"append", "write", "mark"} PROVE CopyInv(t)'
    <3>1. CopyInv(t)
      BY <2>1 DEF IInv, KlogInv, SnapInv
    <3> QED
      BY <1>1, <3>1, Zenon DEF CopyInv, CopyOf, Top, Copied, Safe, InFile, ToWrite
  <2> QED
    BY <1>1, <2>1 DEF SnapInv
<1>9. WriterInv'
  BY <1>1, FileSame DEF IInv, KlogInv
<1>8. WarnInv'
  BY <1>1 DEF IInv, KlogInv, WarnInv, Entry, OnItsWay, Copied, Top, CopyOf, Safe, InFile, ToWrite
<1> QED
  BY <1>3, <1>4, <1>5, <1>6, <1>7, <1>8, <1>9 DEF IInv, KlogInv

(* Every step preserves the invariant. *)
LEMMA NextInv == IInv /\ [LogNext]_<<vars, sysvars>> => IInv'
<1> SUFFICES ASSUME IInv, [LogNext]_<<vars, sysvars>> PROVE IInv'
  OBVIOUS
<1>1. ASSUME NEW t \in Threads, LocalStep(t), UNCHANGED sysvars
      PROVE  IInv'
  <2>1. ASSUME NEW lvl \in Levels, klog_write(t, lvl)
        PROVE  IInv'
    BY <1>1, <2>1, WriteInv
  <2>2. CASE klog_flush(t)
    BY <1>1, <2>2, FlushInv
  <2>3. CASE klog_clear(t)
    BY <1>1, <2>3, ClearInv
  <2>4. CASE flush_snapshot(t)
    BY <1>1, <2>4, SnapshotInv
  <2>5. CASE flush_open(t)
    BY <1>1, <2>5, FopenInv
  <2>8. CASE flush_write(t)
    BY <1>1, <2>8, BlockInv
  <2>6. CASE flush_no_file(t)
    BY <1>1, <2>6, NoFileInv
  <2>7. CASE flush_mark(t)
    BY <1>1, <2>7, MarkInv
  <2> QED
    BY <1>1, <2>1, <2>2, <2>3, <2>4, <2>5, <2>6, <2>7, <2>8, Zenon DEF LocalStep
<1>2. ASSUME NEW t \in Threads, log_received(t)
      PROVE  IInv'
  BY <1>2, ReceivedInv
<1>3. ASSUME NEW t \in Threads, log_dropped(t)
      PROVE  IInv'
  BY <1>3, DroppedInv
<1>4. CASE op_log
  <2>1. /\ op_log_open \/ op_log_write \/ op_log_flush
        /\ UNCHANGED <<ring, head, count, global_seq, file_seq, pc, syslogd, sending, snap, io>>
    BY <1>4, Zenon DEF op_log
  <2> QED
    BY <2>1, OpenInv, WriteLineInv, FlushLineInv, Zenon
<1>5. CASE UNCHANGED <<vars, sysvars>>
  BY <1>5, StutterInv
<1> QED
  BY <1>1, <1>2, <1>3, <1>4, <1>5, Zenon DEF LogNext

(* The invariant holds in every state of libklog with syslogd. *)
THEOREM Invariance == LogSpec => []IInv
<1>1. LogInit => IInv
  BY InitInv
<1>2. IInv /\ [LogNext]_<<vars, sysvars>> => IInv'
  BY NextInv
<1> QED
  BY <1>1, <1>2, PTL DEF LogSpec

(* The ring of klog.cc shows the last entries without a gap, for any size of   *)
(* the ring and any number of wraps, clears and writers.                      *)
THEOREM RingIsConsistent == LogSpec => []RingConsistent
<1>1. IInv => RingConsistent
  BY DEF IInv, KlogInv
<1> QED
  BY <1>1, Invariance, PTL

(* An entry that g_file_seq counts as written is in the log file, or flushes   *)
(* overlapped while it was written: klog_flush of any number of threads,      *)
(* interleaved in any way, never marks what it did not write, and overwrites  *)
(* nothing that was written while one file was open.                         *)
THEOREM FlushedIsInFile == LogSpec => []FlushedInFile
<1>1. IInv => FlushedInFile
  BY DEF IInv, KlogInv
<1> QED
  BY <1>1, Invariance, PTL

(* A warning is on disk once no thread is in klog_flush, unless fopen failed    *)
(* for it or flushes overlapped.                                             *)
THEOREM WarningsOnDisk == LogSpec => []WarnOnDisk
<1>1. IInv => WarnOnDisk
  <2> SUFFICES ASSUME IInv, ~syslogd, \A t \in Threads : pc[t] = "idle",
                      NEW i \in 0 .. count - 1, Entry(i).level = "WARN"
               PROVE  Safe(Entry(i).seq) \/ Entry(i).seq \in unopened
    BY DEF WarnOnDisk, Entry, Safe
  <2>1. ~OnItsWay(Entry(i).seq)
    BY DEF OnItsWay
  <2> QED
    BY <2>1 DEF IInv, KlogInv, WarnInv
<1> QED
  BY <1>1, Invariance, PTL

(* What syslogd received it keeps; its warnings, and all before them, are on    *)
(* disk when op_log is done; what it buffers is bounded.                      *)
THEOREM SyslogIsKept == LogSpec => []SyslogKept
<1>1. IInv => SyslogKept
  <2> SUFFICES ASSUME IInv PROVE SyslogKept
    OBVIOUS
  <2>1. TakenKept /\ BufferBounded
    BY DEF IInv, SysInv
  <2>2. WarnDurable
    BY DEF IInv, SysInv, DurableInv, WarnDurable
  <2> QED
    BY <2>1, <2>2 DEF SyslogKept
<1> QED
  BY <1>1, Invariance, PTL

(* A thread's entries are in the log in the order in which it wrote them.       *)
THEOREM ThreadsInOrder == LogSpec => []ThreadOrder
<1>1. IInv => ThreadOrder
  BY DEF IInv, SysInv, OrderInv, ThreadOrder, Log, By
<1> QED
  BY <1>1, Invariance, PTL

=============================================================================
