----------------------------- MODULE FileProofs -----------------------------
(***************************************************************************)
(* Proofs about the file systems, for any number of clients, files, names  *)
(* and readers: Ext4Files (appends, cached sizes, server objects, reads),  *)
(* TmpfsFile (inodes, and that it implements PosixFiles), Devfs (a listing *)
(* is a snapshot) and TmpfsDir (the tree and its listings).                *)
(***************************************************************************)
EXTENDS Ext4Files, TmpfsFile, TmpfsDir, Devfs, DataLemmas, FiniteSetTheorems

-----------------------------------------------------------------------------
(* ext4: the invariant *)

HandleRec == [st : {"none", "found", "valid", "invalid"}, size : Nat, fsize : Nat,
              append : BOOLEAN]
OpRec     == [kind : {"none", "read", "did_read", "write"}, pos : Nat, data : Seq(Nat),
              want : Nat, calls : Nat]
HistRec   == [kept : SUBSET Nat, overrun : SUBSET Nat, unseen : [Clients -> SUBSET Nat], stray : Nat,
              alone : SUBSET Clients, cut : SUBSET Clients, steady : SUBSET Clients]

Ext4Types ==
  /\ file \in Seq(Nat) /\ handle \in [Clients -> HandleRec] /\ op \in [Clients -> OpRec]
  /\ hist \in HistRec /\ 0 \in hist.overrun /\ fresh \in Nat /\ svr_objs \in Nat

Open == {c \in Clients : handle[c].st # "none"}

(* what a handle h of client c knows of the size of a file f, by the history r: *)
(* beyond the end that its server object remembers there is only what others    *)
(* wrote since, and holes                                                      *)
HandleOK(c, h, f, r) ==
  h.st = "valid" =>
    /\ h.size <= Len(f) \/ c \in r.cut
    /\ c \in r.alone => h.size = Len(f) /\ h.fsize = Len(f)
    /\ \A i \in 1 .. Len(f) : i > h.fsize => f[i] \in r.unseen[c] \cup {0}

(* what a read o has of a file f that has only grown since it began *)
ReadOK(o, f) ==
  LET n == Len(o.data)
  IN  /\ n <= o.pos /\ o.pos <= Len(f)
      /\ \A i \in 1 .. n : o.data[i] = f[o.pos - n + i]

Reading(o) == o.kind \in {"read", "did_read"}

(* only a handle that works has an operation under way *)
BusyOK(o, h) == o.kind # "none" => h.st = "valid"

(* how many RPCs a read or write has made: each but the last moves a full     *)
(* buffer                                                                   *)
CallsOK(o) ==
  /\ o.kind = "read" => o.calls * BUF_SIZE + o.want <= MaxRw /\ o.want > 0
  /\ o.kind = "write" => o.calls * BUF_SIZE + Len(o.data) <= MaxRw /\ o.data # <<>>
  /\ (o.calls - 1) * BUF_SIZE < MaxRw

Ext4Inv ==
  /\ Ext4Types /\ SeenAppendsKept /\ ObjectsAccounted
  /\ \A c \in Clients : HandleOK(c, handle[c], file, hist)
  /\ \A c \in Clients : Reading(op[c]) /\ c \in hist.steady => ReadOK(op[c], file)
  /\ \A c \in Clients : CallsOK(op[c]) /\ BusyOK(op[c], handle[c])

-----------------------------------------------------------------------------
(* ext4: the bytes of a file *)

(* What lwext4 makes of a file when bytes are written into it. *)
LEMMA OverlayIs ==
  ASSUME NEW f \in Seq(Nat), NEW off \in Nat, NEW s \in Seq(Nat)
  PROVE  /\ Overlay(f, off, s) \in Seq(Nat)
         /\ Len(Overlay(f, off, s)) = Larger(Len(f), off + Len(s))
         /\ \A i \in 1 .. Larger(Len(f), off + Len(s)) :
              Overlay(f, off, s)[i] = IF i > off /\ i <= off + Len(s) THEN s[i - off]
                                      ELSE IF i <= Len(f) THEN f[i] ELSE 0
<1>0. Len(f) \in Nat /\ Len(s) \in Nat
  OBVIOUS
<1>1. PICK m \in Nat : m = Larger(Len(f), off + Len(s))
  BY <1>0 DEF Larger
<1>2. ASSUME NEW i \in 1 .. m
      PROVE  (IF i > off /\ i <= off + Len(s) THEN s[i - off] ELSE IF i <= Len(f) THEN f[i] ELSE 0) \in Nat
  <2>1. CASE i > off /\ i <= off + Len(s)
    <3>1. i - off \in 1 .. Len(s)
      BY <1>0, <2>1
    <3> QED
      BY <2>1, <3>1
  <2>2. CASE ~(i > off /\ i <= off + Len(s))
    <3>1. i <= Len(f) => i \in 1 .. Len(f)
      BY <1>0
    <3> QED
      BY <2>2, <3>1
  <2> QED
    BY <2>1, <2>2
<1>3. Overlay(f, off, s) = [i \in 1 .. m |-> IF i > off /\ i <= off + Len(s) THEN s[i - off]
                                             ELSE IF i <= Len(f) THEN f[i] ELSE 0]
  BY <1>1 DEF Overlay
<1>4. PICK g : g = [i \in 1 .. m |-> IF i > off /\ i <= off + Len(s) THEN s[i - off]
                                     ELSE IF i <= Len(f) THEN f[i] ELSE 0]
  OBVIOUS
<1>5. g \in [1 .. m -> Nat]
  BY <1>2, <1>4
<1>6. g \in Seq(Nat) /\ Len(g) = m
  <2>1. g \in Seq(Nat)
    BY <1>5, SeqDef
  <2>2. DOMAIN g = 1 .. m
    BY <1>4
  <2> QED
    BY <2>1, <2>2
<1> QED
  BY <1>1, <1>3, <1>4, <1>6

(* f is g with bytes of s written at off: nothing is cut, what is before off    *)
(* stays, and every byte is one of s, the one there was, or that of a hole.     *)
Over(f, g, off, s) ==
  /\ f \in Seq(Nat) /\ Len(g) <= Len(f)
  /\ \A i \in 1 .. Len(g) : i <= off => f[i] = g[i]
  /\ \A i \in 1 .. Len(f) : f[i] \in Bytes(s) \cup {0} \/ (i <= Len(g) /\ f[i] = g[i])

(* It is so of all bytes of s, which are all there then. *)
LEMMA OverlayOver ==
  ASSUME NEW g \in Seq(Nat), NEW off \in Nat, NEW s \in Seq(Nat)
  PROVE  Over(Overlay(g, off, s), g, off, s) /\ Bytes(s) \subseteq Bytes(Overlay(g, off, s))
<1>0. Len(g) \in Nat /\ Len(s) \in Nat
  OBVIOUS
<1>1. PICK f \in Seq(Nat) : f = Overlay(g, off, s)
  BY OverlayIs
<1>2. PICK m \in Nat : m = Larger(Len(g), off + Len(s)) /\ Len(g) <= m /\ off + Len(s) <= m
  <2>1. \A x, y \in Nat : Larger(x, y) \in Nat /\ x <= Larger(x, y) /\ y <= Larger(x, y)
    BY DEF Larger
  <2>2. off + Len(s) \in Nat
    BY <1>0
  <2> QED
    BY <1>0, <2>1, <2>2
<1>3. /\ Len(f) = m
      /\ \A i \in 1 .. m : f[i] = IF i > off /\ i <= off + Len(s) THEN s[i - off]
                                 ELSE IF i <= Len(g) THEN g[i] ELSE 0
  <2>1. /\ Len(Overlay(g, off, s)) = Larger(Len(g), off + Len(s))
        /\ \A i \in 1 .. Larger(Len(g), off + Len(s)) :
              Overlay(g, off, s)[i] = IF i > off /\ i <= off + Len(s) THEN s[i - off]
                                      ELSE IF i <= Len(g) THEN g[i] ELSE 0
    BY OverlayIs
  <2>2. m = Larger(Len(g), off + Len(s))
    BY <1>2
  <2> QED
    BY <1>1, <2>1, <2>2, Zenon
<1>4. DOMAIN s = 1 .. Len(s) /\ DOMAIN f = 1 .. m
  BY <1>3
<1>5. ASSUME NEW i \in 1 .. Len(g), i <= off PROVE f[i] = g[i]
  <2>1. i \in 1 .. m /\ ~(i > off) /\ i <= Len(g)
    BY <1>0, <1>2, <1>5
  <2> QED
    BY <1>3, <2>1
<1>6. ASSUME NEW i \in 1 .. m PROVE f[i] \in Bytes(s) \cup {0} \/ (i <= Len(g) /\ f[i] = g[i])
  <2>1. CASE i > off /\ i <= off + Len(s)
    <3>1. i - off \in DOMAIN s
      BY <1>0, <1>4, <2>1
    <3>2. f[i] = s[i - off]
      BY <1>3, <2>1
    <3> QED
      BY <3>1, <3>2 DEF Bytes
  <2>2. CASE ~(i > off /\ i <= off + Len(s))
    BY <1>3, <2>2
  <2> QED
    BY <2>1, <2>2
<1>7. ASSUME NEW i \in DOMAIN s PROVE s[i] \in Bytes(f)
  <2>1. off + i \in 1 .. m /\ off + i > off /\ off + i <= off + Len(s) /\ (off + i) - off = i
    BY <1>0, <1>2, <1>4, SMTT(30)
  <2>2. f[off + i] = s[i]
    BY <1>3, <2>1
  <2> QED
    BY <1>4, <2>1, <2>2 DEF Bytes
<1>8. Over(f, g, off, s)
  BY <1>2, <1>3, <1>5, <1>6 DEF Over
<1>9. Bytes(s) \subseteq Bytes(f)
  BY <1>7 DEF Bytes
<1> QED
  BY <1>1, <1>8, <1>9

(* It is so of the first bytes of s, too. *)
LEMMA PartOver ==
  ASSUME NEW g \in Seq(Nat), NEW off \in Nat, NEW s \in Seq(Nat), NEW t \in Seq(Nat),
         Bytes(t) \subseteq Bytes(s)
  PROVE  Over(Overlay(g, off, t), g, off, s)
BY OverlayOver, SMTT(30) DEF Over

(* It is so of the file itself. *)
LEMMA SameOver ==
  ASSUME NEW g \in Seq(Nat), NEW off \in Nat, NEW s \in Seq(Nat)
  PROVE  Over(g, g, off, s)
BY DEF Over

(* A piece of a file. *)
LEMMA PieceOf ==
  ASSUME NEW f \in Seq(Nat), NEW a \in Nat, NEW b \in Nat, a <= b, a < b => b <= Len(f)
  PROVE  /\ SubSeq(f, a + 1, b) \in Seq(Nat) /\ Len(SubSeq(f, a + 1, b)) = b - a
         /\ \A i \in 1 .. b - a : SubSeq(f, a + 1, b)[i] = f[a + i]
<1>1. PICK m \in Int : m = a + 1
  OBVIOUS
<1>2. \A i \in m .. b : f[i] \in Nat
  <2>1. TAKE i \in m .. b
  <2>2. i \in 1 .. Len(f)
    BY <1>1
  <2> QED
    BY <2>2
<1>3. /\ SubSeq(f, m, b) \in Seq(Nat)
      /\ Len(SubSeq(f, m, b)) = IF m <= b THEN b - m + 1 ELSE 0
      /\ \A i \in 1 .. b - m + 1 : SubSeq(f, m, b)[i] = f[m + i - 1]
  BY <1>2, SubSeqProperties
<1>4. b - m + 1 = b - a /\ (m <= b <=> a < b)
  BY <1>1
<1>5. \A i \in 1 .. b - a : m + i - 1 = a + i
  BY <1>1
<1>6. PICK t : t = SubSeq(f, m, b)
  OBVIOUS
<1>7. t \in Seq(Nat) /\ \A i \in 1 .. b - a : t[i] = f[a + i]
  BY <1>3, <1>4, <1>5, <1>6
<1>8. Len(t) = b - a
  BY <1>3, <1>4, <1>6
<1>9. t = SubSeq(f, a + 1, b)
  BY <1>1, <1>6
<1> QED
  BY <1>7, <1>8, <1>9

(* Two sequences of bytes, joined. *)
LEMMA JoinOf ==
  ASSUME NEW d \in Seq(Nat), NEW t \in Seq(Nat)
  PROVE  /\ d \o t \in Seq(Nat) /\ Len(d \o t) = Len(d) + Len(t)
         /\ \A i \in 1 .. Len(d) : (d \o t)[i] = d[i]
         /\ \A i \in 1 .. Len(t) : (d \o t)[Len(d) + i] = t[i]
<1>1. /\ d \o t \in Seq(Nat) /\ Len(d \o t) = Len(d) + Len(t)
      /\ \A i \in 1 .. Len(d) + Len(t) : (d \o t)[i] = IF i <= Len(d) THEN d[i] ELSE t[i - Len(d)]
  BY ConcatProperties
<1>2. Len(d) \in Nat /\ Len(t) \in Nat
  OBVIOUS
<1>3. ASSUME NEW i \in 1 .. Len(d) PROVE (d \o t)[i] = d[i]
  <2>1. i \in 1 .. Len(d) + Len(t) /\ i <= Len(d)
    BY <1>2
  <2> QED
    BY <1>1, <2>1
<1>4. ASSUME NEW i \in 1 .. Len(t) PROVE (d \o t)[Len(d) + i] = t[i]
  <2>1. Len(d) + i \in 1 .. Len(d) + Len(t) /\ ~(Len(d) + i <= Len(d)) /\ (Len(d) + i) - Len(d) = i
    BY <1>2
  <2> QED
    BY <1>1, <2>1
<1> QED
  BY <1>1, <1>3, <1>4

-----------------------------------------------------------------------------
(* ext4: steps that leave the file alone *)

(* Client c goes on with handle h and operation o; nothing else changes but   *)
(* what is remembered of c.                                                 *)
Quiet(c, h, o) ==
  /\ file' = file /\ fresh' \in Nat /\ svr_objs' \in Nat
  /\ handle' = [handle EXCEPT ![c] = h] /\ op' = [op EXCEPT ![c] = o]
  /\ hist' \in HistRec /\ hist'.kept = hist.kept /\ hist'.overrun = hist.overrun
  /\ \A d \in Clients \ {c} :
       /\ hist'.unseen[d] = hist.unseen[d]
       /\ d \in hist'.cut <=> d \in hist.cut
       /\ d \in hist'.alone <=> d \in hist.alone
       /\ d \in hist'.steady <=> d \in hist.steady

(* Functions of clients after a change at one of them. *)
LEMMA ClientFunction ==
  ASSUME NEW R, NEW f \in [Clients -> R], NEW c \in Clients, NEW v \in R,
         NEW g, g = [f EXCEPT ![c] = v]
  PROVE  g \in [Clients -> R] /\ g[c] = v /\ \A d \in Clients \ {c} : g[d] = f[d]
OBVIOUS

(* Such a step keeps the invariant, if c's new state is right and the server's *)
(* objects are accounted for.                                                *)
LEMMA QuietKeeps ==
  ASSUME Ext4Inv, NEW c \in Clients, NEW h \in HandleRec, NEW o \in OpRec, Quiet(c, h, o),
         HandleOK(c, h, file, hist'),
         Reading(o) /\ c \in hist'.steady => ReadOK(o, file),
         CallsOK(o), BusyOK(o, h), ObjectsAccounted'
  PROVE  Ext4Inv'
<1>0. Ext4Types
  BY DEF Ext4Inv
<1>1. /\ handle' \in [Clients -> HandleRec] /\ handle'[c] = h
      /\ \A d \in Clients \ {c} : handle'[d] = handle[d]
  <2>1. PICK f \in [Clients -> HandleRec] : f = handle
    BY <1>0 DEF Ext4Types
  <2>2. PICK g : g = handle' /\ g = [f EXCEPT ![c] = h]
    BY <2>1 DEF Quiet
  <2>3. g \in [Clients -> HandleRec] /\ g[c] = h /\ \A d \in Clients \ {c} : g[d] = f[d]
    BY <2>2, ClientFunction
  <2> QED
    BY <2>1, <2>2, <2>3
<1>2. /\ op' \in [Clients -> OpRec] /\ op'[c] = o
      /\ \A d \in Clients \ {c} : op'[d] = op[d]
  <2>1. PICK f \in [Clients -> OpRec] : f = op
    BY <1>0 DEF Ext4Types
  <2>2. PICK g : g = op' /\ g = [f EXCEPT ![c] = o]
    BY <2>1 DEF Quiet
  <2>3. g \in [Clients -> OpRec] /\ g[c] = o /\ \A d \in Clients \ {c} : g[d] = f[d]
    BY <2>2, ClientFunction
  <2> QED
    BY <2>1, <2>2, <2>3
<1>3. Ext4Types'
  BY <1>0, <1>1, <1>2 DEF Ext4Types, Quiet
<1>4. SeenAppendsKept'
  BY DEF Ext4Inv, SeenAppendsKept, Quiet, Bytes
<1>5. ASSUME NEW d \in Clients
      PROVE  /\ HandleOK(d, handle'[d], file', hist')
             /\ Reading(op'[d]) /\ d \in hist'.steady => ReadOK(op'[d], file')
             /\ CallsOK(op'[d]) /\ BusyOK(op'[d], handle'[d])
  <2>0. file' = file
    BY DEF Quiet
  <2>1. CASE d = c
    BY <1>1, <1>2, <2>0, <2>1
  <2>2. CASE d # c
    <3>1. handle'[d] = handle[d] /\ op'[d] = op[d]
      BY <1>1, <1>2, <2>2
    <3>2. /\ hist'.unseen[d] = hist.unseen[d]
          /\ d \in hist'.cut <=> d \in hist.cut
          /\ d \in hist'.alone <=> d \in hist.alone
          /\ d \in hist'.steady <=> d \in hist.steady
      BY <2>2 DEF Quiet
    <3>3. /\ HandleOK(d, handle[d], file, hist)
          /\ Reading(op[d]) /\ d \in hist.steady => ReadOK(op[d], file)
          /\ CallsOK(op[d]) /\ BusyOK(op[d], handle[d])
      BY DEF Ext4Inv
    <3>4. HandleOK(d, handle[d], file, hist')
      BY <3>2, <3>3 DEF HandleOK
    <3> QED
      BY <2>0, <3>1, <3>2, <3>3, <3>4
  <2> QED
    BY <2>1, <2>2
<1>6. \A d \in Clients : HandleOK(d, handle[d], file, hist)'
  BY <1>5 DEF HandleOK
<1>7. \A d \in Clients : (Reading(op[d]) /\ d \in hist.steady => ReadOK(op[d], file))'
  BY <1>5 DEF Reading, ReadOK
<1>8. \A d \in Clients : (CallsOK(op[d]) /\ BusyOK(op[d], handle[d]))'
  BY <1>5 DEF CallsOK, BusyOK
<1> QED
  BY <1>3, <1>4, <1>6, <1>7, <1>8 DEF Ext4Inv

(* The open handles after a change at one client, and their number. *)
LEMMA OpenAfter ==
  ASSUME Ext4Types, NEW c \in Clients, NEW h, handle' = [handle EXCEPT ![c] = h]
  PROVE  /\ Cardinality(Open) \in Nat /\ Cardinality(Open') \in Nat
         /\ (h.st # "none" <=> handle[c].st # "none") => Cardinality(Open') = Cardinality(Open)
         /\ h.st # "none" /\ handle[c].st = "none" => Cardinality(Open') = Cardinality(Open) + 1
         /\ h.st = "none" /\ handle[c].st # "none" => Cardinality(Open') = Cardinality(Open) - 1
<1>0. PICK A, B : A = Open /\ B = Open'
  OBVIOUS
<1>1. IsFiniteSet(Clients) /\ A \subseteq Clients /\ B \subseteq Clients
  BY <1>0, Ext4Assumption DEF Open
<1>2. IsFiniteSet(A) /\ IsFiniteSet(B)
  BY <1>1, FS_Subset
<1>3. Cardinality(A) \in Nat /\ Cardinality(B) \in Nat
  BY <1>2, FS_CardinalityType
<1>4. /\ handle'[c] = h /\ \A d \in Clients \ {c} : handle'[d] = handle[d]
  BY DEF Ext4Types
<1>5. /\ \A d \in Clients \ {c} : d \in B <=> d \in A
      /\ (c \in A <=> handle[c].st # "none") /\ (c \in B <=> h.st # "none")
  BY <1>0, <1>4 DEF Open
<1>6. CASE c \in A <=> c \in B
  <2>1. A = B
    BY <1>1, <1>5, <1>6
  <2> QED
    BY <1>0, <1>3, <1>5, <1>6, <2>1
<1>7. CASE c \notin A /\ c \in B
  <2>1. B = A \cup {c}
    BY <1>1, <1>5, <1>7
  <2>2. Cardinality(B) = Cardinality(A) + 1
    BY <1>2, <1>7, <2>1, FS_AddElement
  <2> QED
    BY <1>0, <1>3, <1>5, <1>7, <2>2
<1>8. CASE c \in A /\ c \notin B
  <2>1. B = A \ {c}
    BY <1>1, <1>5, <1>8
  <2>2. Cardinality(B) = Cardinality(A) - 1
    BY <1>2, <1>8, <2>1, FS_RemoveElement
  <2> QED
    BY <1>0, <1>3, <1>5, <1>8, <2>2
<1> QED
  BY <1>6, <1>7, <1>8

(* The records of one client. *)
LEMMA ClientRecords ==
  ASSUME Ext4Types, NEW c \in Clients
  PROVE  /\ handle[c] \in HandleRec /\ op[c] \in OpRec
         /\ handle = [handle EXCEPT ![c] = handle[c]] /\ op = [op EXCEPT ![c] = op[c]]
BY DEF Ext4Types

(* No handle and no operation. *)
LEMMA NoneOK ==
  NoHandle \in HandleRec /\ NoOp \in OpRec /\ CallsOK(NoOp) /\ ~Reading(NoOp) /\ NoOp.kind = "none"
<1>1. NoHandle \in HandleRec /\ NoOp \in OpRec /\ ~Reading(NoOp) /\ NoOp.kind = "none"
  BY DEF NoHandle, NoOp, HandleRec, OpRec, Reading
<1>2. (NoOp.calls - 1) * BUF_SIZE < MaxRw
  <2>1. (0 - 1) * BUF_SIZE = 0 - BUF_SIZE
    BY Ext4Assumption
  <2>2. 0 - BUF_SIZE < MaxRw
    BY Ext4Assumption
  <2> QED
    BY <2>1, <2>2 DEF NoOp
<1> QED
  BY <1>1, <1>2 DEF CallsOK, NoOp

(* The empty file, before anybody has it open. *)
LEMMA Ext4Start == Ext4Init => Ext4Inv
<1> SUFFICES ASSUME Ext4Init PROVE Ext4Inv
  OBVIOUS
<1>1. Ext4Types
  <2>1. hist \in HistRec /\ 0 \in hist.overrun
    BY DEF Ext4Init, HistRec
  <2>2. handle \in [Clients -> HandleRec] /\ op \in [Clients -> OpRec]
    BY NoneOK DEF Ext4Init
  <2> QED
    BY <2>1, <2>2 DEF Ext4Init, Ext4Types
<1>2. \A c \in Clients : handle[c] = NoHandle /\ op[c] = NoOp
  BY DEF Ext4Init
<1>3. {c \in Clients : handle[c].st # "none"} = {} /\ hist.stray = 0 /\ svr_objs = 0
  BY <1>2 DEF NoHandle, Ext4Init
<1>4. ObjectsAccounted
  BY <1>3, FS_EmptySet DEF ObjectsAccounted
<1>5. \A c \in Clients : HandleOK(c, handle[c], file, hist)
  BY <1>2 DEF HandleOK, NoHandle
<1>6. SeenAppendsKept
  BY DEF SeenAppendsKept, Ext4Init
<1> QED
  BY <1>1, <1>2, <1>4, <1>5, <1>6, NoneOK DEF Ext4Inv, BusyOK

(* Lookups of the file. *)
LEMMA LookupKeeps ==
  ASSUME Ext4Inv, op_query_partly \/ \E c \in Clients : op_query(c)
  PROVE  Ext4Inv'
<1>0. Ext4Types /\ ObjectsAccounted
  BY DEF Ext4Inv
<1>1. CASE op_query_partly
  <2>1. UNCHANGED <<file, handle, op, fresh>> /\ svr_objs' = svr_objs + 1 /\ hist' = [hist EXCEPT !.stray = @ + 1]
    BY <1>1 DEF op_query_partly
  <2>2. /\ hist' \in HistRec /\ hist'.stray = hist.stray + 1 /\ hist.stray \in Nat /\ svr_objs \in Nat
        /\ hist'.kept = hist.kept /\ hist'.cut = hist.cut /\ hist'.alone = hist.alone /\ hist'.steady = hist.steady
        /\ hist'.overrun = hist.overrun /\ hist'.unseen = hist.unseen
    <3>1. PICK r \in HistRec : r = hist
      BY <1>0 DEF Ext4Types
    <3>2. PICK n \in Nat : n = r.stray + 1 /\ r.stray \in Nat
      BY <3>1 DEF HistRec
    <3>3. hist' = [r EXCEPT !.stray = n]
      BY <2>1, <3>1, <3>2
    <3>4. svr_objs \in Nat
      BY <1>0 DEF Ext4Types
    <3> QED
      BY <3>1, <3>2, <3>3, <3>4 DEF HistRec
  <2>3. ObjectsAccounted'
    <3>1. PICK n : n = Cardinality({c \in Clients : handle[c].st # "none"}) /\ n = Cardinality({c \in Clients : handle'[c].st # "none"})
      BY <2>1
    <3>2. n \in Nat
      <4>1. IsFiniteSet({c \in Clients : handle[c].st # "none"})
        BY Ext4Assumption, FS_Subset
      <4> QED
        BY <3>1, <4>1, FS_CardinalityType
    <3>3. svr_objs = n + hist.stray
      BY <1>0, <3>1 DEF ObjectsAccounted
    <3>4. svr_objs' = n + hist'.stray
      BY <2>1, <2>2, <3>2, <3>3
    <3> QED
      BY <3>1, <3>4 DEF ObjectsAccounted
  <2>4. Ext4Types'
    BY <1>0, <2>1, <2>2 DEF Ext4Types
  <2>5. SeenAppendsKept'
    BY <2>1, <2>2 DEF Ext4Inv, SeenAppendsKept, Bytes
  <2>6. \A c \in Clients : /\ HandleOK(c, handle'[c], file', hist')
                           /\ Reading(op'[c]) /\ c \in hist'.steady => ReadOK(op'[c], file')
                           /\ CallsOK(op'[c]) /\ BusyOK(op'[c], handle'[c])
    <3>1. ASSUME NEW c \in Clients PROVE HandleOK(c, handle'[c], file', hist')
      <4>1. HandleOK(c, handle[c], file, hist)
        BY DEF Ext4Inv
      <4> QED
        BY <2>1, <2>2, <4>1 DEF HandleOK
    <3> QED
      BY <2>1, <2>2, <3>1 DEF Ext4Inv
  <2>7. /\ \A d \in Clients : HandleOK(d, handle[d], file, hist)'
        /\ \A d \in Clients : (Reading(op[d]) /\ d \in hist.steady => ReadOK(op[d], file))'
        /\ \A d \in Clients : (CallsOK(op[d]) /\ BusyOK(op[d], handle[d]))'
    BY <2>6 DEF HandleOK, Reading, ReadOK, CallsOK, BusyOK
  <2> QED
    BY <2>3, <2>4, <2>5, <2>7 DEF Ext4Inv
<1>2. ASSUME NEW c \in Clients, op_query(c)
      PROVE  Ext4Inv'
  <2>1. handle[c] \in HandleRec /\ handle[c].st = "none" /\ svr_objs \in Nat
    BY <1>0, <1>2, ClientRecords DEF op_query, Ext4Types
  <2>2. PICK h : h = [handle[c] EXCEPT !.st = "found"]
    OBVIOUS
  <2>3. h \in HandleRec /\ h.st = "found"
    BY <2>1, <2>2 DEF HandleRec
  <2>4. PICK o \in OpRec : o = op[c]
    BY <1>0, ClientRecords
  <2>5. handle' = [handle EXCEPT ![c] = h] /\ op' = [op EXCEPT ![c] = o]
    BY <1>0, <1>2, <2>2, <2>4, ClientRecords DEF op_query
  <2>6. Quiet(c, h, o)
    <3>1. file' = file /\ fresh' = fresh /\ hist' = hist /\ svr_objs' = svr_objs + 1
      BY <1>2 DEF op_query
    <3>2. fresh' \in Nat /\ svr_objs' \in Nat /\ hist' \in HistRec
      BY <1>0, <2>1, <3>1 DEF Ext4Types
    <3> QED
      BY <2>5, <3>1, <3>2 DEF Quiet
  <2>7. ObjectsAccounted'
    <3>1. Cardinality(Open') = Cardinality(Open) + 1 /\ Cardinality(Open) \in Nat
      BY <1>0, <2>1, <2>3, <2>5, OpenAfter
    <3>2. svr_objs = Cardinality(Open) + hist.stray /\ hist.stray \in Nat
      BY <1>0 DEF ObjectsAccounted, Open, Ext4Types, HistRec
    <3>3. svr_objs' = Cardinality(Open') + hist'.stray
      BY <1>2, <3>1, <3>2 DEF op_query
    <3> QED
      BY <3>3 DEF ObjectsAccounted, Open
  <2>8. HandleOK(c, h, file, hist')
    BY <2>3 DEF HandleOK
  <2>9. CallsOK(o) /\ (Reading(o) /\ c \in hist'.steady => ReadOK(o, file)) /\ BusyOK(o, h)
    BY <1>2, <2>1, <2>4 DEF Ext4Inv, op_query, BusyOK
  <2> QED
    BY <2>3, <2>4, <2>6, <2>7, <2>8, <2>9, QuietKeeps
<1> QED
  BY <1>1, <1>2

(* Opening: setup. *)
LEMMA SetupKeeps ==
  ASSUME Ext4Inv, NEW c \in Clients, op_setup(c)
  PROVE  Ext4Inv'
<1>0. Ext4Types /\ ObjectsAccounted
  BY DEF Ext4Inv
<1>1. handle[c] \in HandleRec /\ handle[c].st = "found" /\ Len(file) \in Nat
  BY <1>0, ClientRecords DEF op_setup, Ext4Types
<1>2. PICK h \in HandleRec : /\ handle' = [handle EXCEPT ![c] = h] /\ h.st # "none"
                             /\ h.st = "valid" => h.size = Len(file) /\ h.fsize = Len(file)
  <2>1. CASE \E a \in BOOLEAN : handle' = [handle EXCEPT ![c] = [st |-> "valid", size |-> Len(file), fsize |-> Len(file), append |-> a]]
    <3>1. PICK a \in BOOLEAN : handle' = [handle EXCEPT ![c] = [st |-> "valid", size |-> Len(file), fsize |-> Len(file), append |-> a]]
      BY <2>1
    <3>2. PICK h : h = [st |-> "valid", size |-> Len(file), fsize |-> Len(file), append |-> a]
      OBVIOUS
    <3>3. h \in HandleRec /\ h.st = "valid" /\ h.size = Len(file) /\ h.fsize = Len(file)
      BY <1>1, <3>2 DEF HandleRec
    <3> QED
      BY <3>1, <3>2, <3>3
  <2>2. CASE handle' = [handle EXCEPT ![c].st = "invalid"]
    <3>1. PICK h : h = [handle[c] EXCEPT !.st = "invalid"]
      OBVIOUS
    <3>2. h \in HandleRec /\ h.st = "invalid"
      BY <1>1, <3>1 DEF HandleRec
    <3>3. handle' = [handle EXCEPT ![c] = h]
      BY <2>2, <3>1
    <3> QED
      BY <3>2, <3>3
  <2> QED
    BY <2>1, <2>2 DEF op_setup
<1>3. PICK o \in OpRec : o = op[c]
  BY <1>0, ClientRecords
<1>4. UNCHANGED <<file, op, svr_objs, opens, fresh>> /\ hist' = [hist EXCEPT !.alone = @ \cup {c}]
  BY DEF op_setup
<1>5. /\ hist' \in HistRec /\ hist'.kept = hist.kept /\ hist'.stray = hist.stray /\ hist'.cut = hist.cut
      /\ hist'.steady = hist.steady /\ hist'.alone = hist.alone \cup {c}
      /\ hist'.overrun = hist.overrun /\ hist'.unseen = hist.unseen
  BY <1>0, <1>4 DEF Ext4Types, HistRec
<1>6. Quiet(c, h, o)
  <2>1. op' = [op EXCEPT ![c] = o]
    BY <1>0, <1>3, <1>4, ClientRecords
  <2> QED
    BY <1>0, <1>2, <1>4, <1>5, <2>1 DEF Quiet, Ext4Types
<1>7. ObjectsAccounted'
  <2>1. Cardinality(Open') = Cardinality(Open)
    BY <1>0, <1>1, <1>2, OpenAfter
  <2>2. svr_objs' = Cardinality(Open') + hist'.stray
    BY <1>0, <1>4, <1>5, <2>1 DEF ObjectsAccounted, Open
  <2> QED
    BY <2>2 DEF ObjectsAccounted, Open
<1>8. HandleOK(c, h, file, hist')
  BY <1>1, <1>2 DEF HandleOK
<1>9. CallsOK(o) /\ (Reading(o) /\ c \in hist'.steady => ReadOK(o, file)) /\ BusyOK(o, h)
  BY <1>1, <1>3, <1>5 DEF Ext4Inv, BusyOK
<1> QED
  BY <1>2, <1>3, <1>6, <1>7, <1>8, <1>9, QuietKeeps

(* Closing, and the death of a client. *)
LEMMA CloseKeeps ==
  ASSUME Ext4Inv, NEW c \in Clients, op_release(c) \/ client_dies(c)
  PROVE  Ext4Inv'
<1>0. Ext4Types /\ ObjectsAccounted
  BY DEF Ext4Inv
<1>1. PICK h \in HandleRec : h = NoHandle /\ h.st = "none"
  BY NoneOK DEF NoHandle
<1>2. PICK k \in {0, 1} : hist' = Forgotten(c, k) /\ (k = 0 <=> svr_objs' = svr_objs - 1) /\ (k = 1 <=> svr_objs' = svr_objs)
  <2>0. svr_objs \in Nat
    BY <1>0 DEF Ext4Types
  <2>1. CASE op_release(c)
    <3>1. hist' = Forgotten(c, 0) /\ svr_objs' = svr_objs - 1
      BY <2>1 DEF op_release, released
    <3> QED
      BY <2>0, <3>1
  <2>2. CASE client_dies(c)
    <3>1. hist' = Forgotten(c, 1) /\ svr_objs' = svr_objs
      BY <2>2 DEF client_dies
    <3> QED
      BY <2>0, <3>1
  <2> QED
    BY <2>1, <2>2
<1>3. /\ file' = file /\ fresh' = fresh /\ handle' = [handle EXCEPT ![c] = h] /\ handle[c].st # "none"
  BY <1>1 DEF op_release, client_dies
<1>4. PICK o \in OpRec : /\ op' = [op EXCEPT ![c] = o] /\ CallsOK(o) /\ ~(Reading(o) /\ c \in hist'.steady)
                         /\ BusyOK(o, h)
  <2>0. c \notin hist'.steady
    BY <1>0, <1>2 DEF Ext4Types, HistRec, Forgotten
  <2>1. CASE op_release(c)
    <3>1. op' = [op EXCEPT ![c] = op[c]] /\ op[c] \in OpRec /\ op[c].kind = "none"
      BY <1>0, <2>1, ClientRecords DEF op_release
    <3> QED
      BY <2>0, <3>1 DEF Ext4Inv, BusyOK
  <2>2. CASE client_dies(c)
    BY <2>0, <2>2, NoneOK DEF client_dies, BusyOK
  <2> QED
    BY <2>1, <2>2
<1>5. /\ hist' \in HistRec /\ hist'.kept = hist.kept /\ hist'.stray = hist.stray + k /\ hist.stray \in Nat
      /\ hist'.cut = hist.cut \ {c} /\ hist'.steady = hist.steady \ {c} /\ hist'.alone = hist.alone \ {c}
      /\ hist'.overrun = hist.overrun /\ \A d \in Clients \ {c} : hist'.unseen[d] = hist.unseen[d]
  <2>1. PICK r \in HistRec : r = hist
    BY <1>0 DEF Ext4Types
  <2>2. PICK n \in Nat : n = r.stray + k /\ r.stray \in Nat
    BY <2>1 DEF HistRec
  <2>3. PICK u \in [Clients -> SUBSET Nat] : u = r.unseen
    BY <2>1 DEF HistRec
  <2>4. PICK v : v = [u EXCEPT ![c] = {}]
    OBVIOUS
  <2>5. v \in [Clients -> SUBSET Nat] /\ \A d \in Clients \ {c} : v[d] = u[d]
    BY <2>4
  <2>6. hist' = [r EXCEPT !.alone = @ \ {c}, !.cut = @ \ {c}, !.steady = @ \ {c}, !.unseen = v, !.stray = n]
    BY <1>2, <2>1, <2>2, <2>3, <2>4 DEF Forgotten
  <2>7. /\ hist' \in HistRec /\ hist'.unseen = v /\ hist'.kept = r.kept /\ hist'.overrun = r.overrun
        /\ hist'.stray = n /\ hist'.cut = r.cut \ {c} /\ hist'.steady = r.steady \ {c}
        /\ hist'.alone = r.alone \ {c}
    BY <2>2, <2>5, <2>6 DEF HistRec
  <2> QED
    BY <2>1, <2>2, <2>3, <2>5, <2>7
<1>6. Cardinality(Open') = Cardinality(Open) - 1 /\ Cardinality(Open) \in Nat /\ Cardinality(Open') \in Nat
  BY <1>0, <1>1, <1>3, OpenAfter
<1>7. svr_objs = Cardinality(Open) + hist.stray
  BY <1>0 DEF ObjectsAccounted, Open
<1>8. svr_objs' = Cardinality(Open') + hist'.stray /\ svr_objs' \in Nat
  <2>1. CASE k = 0
    BY <1>2, <1>5, <1>6, <1>7, <2>1
  <2>2. CASE k = 1
    BY <1>2, <1>5, <1>6, <1>7, <2>2
  <2> QED
    BY <2>1, <2>2
<1>9. ObjectsAccounted'
  BY <1>8 DEF ObjectsAccounted, Open
<1>10. Quiet(c, h, o)
  BY <1>0, <1>3, <1>4, <1>5, <1>8 DEF Quiet, Ext4Types
<1>11. HandleOK(c, h, file, hist')
  BY <1>1 DEF HandleOK
<1> QED
  BY <1>1, <1>4, <1>9, <1>10, <1>11, QuietKeeps

(* Steps of an operation that leave handles and objects alone. *)
LEMMA OperationKeeps ==
  ASSUME Ext4Inv, NEW c \in Clients, NEW o \in OpRec, op' = [op EXCEPT ![c] = o],
         UNCHANGED <<file, handle, svr_objs>>, fresh' \in Nat,
         NEW S \in SUBSET Clients, hist' = [hist EXCEPT !.steady = S],
         \A d \in Clients \ {c} : d \in S <=> d \in hist.steady,
         Reading(o) /\ c \in S => ReadOK(o, file), CallsOK(o), BusyOK(o, handle[c])
  PROVE  Ext4Inv'
<1>0. Ext4Types /\ ObjectsAccounted
  BY DEF Ext4Inv
<1>1. PICK h \in HandleRec : h = handle[c] /\ handle' = [handle EXCEPT ![c] = h]
  BY <1>0, ClientRecords
<1>2. PICK r \in HistRec : r = hist
  BY <1>0 DEF Ext4Types
<1>3. hist' = [r EXCEPT !.steady = S]
  BY <1>2
<1>4. /\ hist' \in HistRec /\ hist'.kept = hist.kept /\ hist'.stray = hist.stray /\ hist'.cut = hist.cut
      /\ hist'.alone = hist.alone /\ hist'.steady = S
      /\ hist'.overrun = hist.overrun /\ hist'.unseen = hist.unseen
  BY <1>2, <1>3 DEF HistRec
<1>5. svr_objs' \in Nat /\ file' = file
  BY <1>0 DEF Ext4Types
<1>6. Quiet(c, h, o)
  BY <1>1, <1>4, <1>5 DEF Quiet
<1>7. ObjectsAccounted'
  BY <1>0, <1>4 DEF ObjectsAccounted
<1>8. HandleOK(c, h, file, hist')
  <2>1. HandleOK(c, h, file, hist)
    BY <1>1 DEF Ext4Inv
  <2> QED
    BY <1>4, <2>1 DEF HandleOK
<1>9. (Reading(o) /\ c \in hist'.steady => ReadOK(o, file)) /\ BusyOK(o, h)
  BY <1>1, <1>4
<1> QED
  BY <1>6, <1>7, <1>8, <1>9, QuietKeeps

(* The same, when the server object looks at the size in the inode. *)
LEMMA SyncKeeps ==
  ASSUME Ext4Inv, NEW c \in Clients, NEW o \in OpRec, op' = [op EXCEPT ![c] = o],
         UNCHANGED <<file, svr_objs, fresh>>, NEW S \in SUBSET Clients, Synced(c, S),
         \A d \in Clients \ {c} : d \in S <=> d \in hist.steady,
         Reading(o) /\ c \in S => ReadOK(o, file), CallsOK(o), BusyOK(o, handle[c])
  PROVE  Ext4Inv'
<1>0. Ext4Types /\ ObjectsAccounted
  BY DEF Ext4Inv
<1>1. PICK q \in HandleRec : q = handle[c]
  BY <1>0, ClientRecords
<1>2. PICK n \in Nat : n = Len(file)
  BY <1>0 DEF Ext4Types
<1>3. PICK h : h = [q EXCEPT !.fsize = n]
  OBVIOUS
<1>4. h \in HandleRec /\ h.st = q.st /\ h.size = q.size /\ h.fsize = n
  BY <1>3 DEF HandleRec
<1>5. handle' = [handle EXCEPT ![c] = h]
  BY <1>1, <1>2, <1>3 DEF Synced
<1>6. PICK r \in HistRec, u \in [Clients -> SUBSET Nat] : r = hist /\ u = r.unseen
  BY <1>0 DEF Ext4Types, HistRec
<1>7. PICK v : v = [u EXCEPT ![c] = {}]
  OBVIOUS
<1>8. v \in [Clients -> SUBSET Nat] /\ \A d \in Clients \ {c} : v[d] = u[d]
  BY <1>7
<1>9. hist' = [r EXCEPT !.unseen = v, !.steady = S]
  BY <1>6, <1>7 DEF Synced
<1>10. /\ hist' \in HistRec /\ hist'.kept = r.kept /\ hist'.stray = r.stray /\ hist'.cut = r.cut
       /\ hist'.alone = r.alone /\ hist'.overrun = r.overrun /\ hist'.unseen = v /\ hist'.steady = S
  BY <1>8, <1>9 DEF HistRec
<1>11. Quiet(c, h, o)
  BY <1>0, <1>5, <1>6, <1>8, <1>10 DEF Quiet, Ext4Types
<1>12. ObjectsAccounted'
  <2>1. Cardinality(Open') = Cardinality(Open)
    BY <1>0, <1>1, <1>4, <1>5, OpenAfter
  <2>2. svr_objs' = Cardinality(Open') + hist'.stray
    BY <1>0, <1>6, <1>10, <2>1 DEF ObjectsAccounted, Open
  <2> QED
    BY <2>2 DEF ObjectsAccounted, Open
<1>13. HandleOK(c, h, file, hist')
  <2>1. HandleOK(c, q, file, r)
    BY <1>1, <1>6 DEF Ext4Inv
  <2>2. \A i \in 1 .. Len(file) : ~(i > h.fsize)
    BY <1>2, <1>4
  <2> QED
    BY <1>2, <1>4, <1>10, <2>1, <2>2 DEF HandleOK
<1>14. (Reading(o) /\ c \in hist'.steady => ReadOK(o, file)) /\ BusyOK(o, h)
  BY <1>1, <1>4, <1>10 DEF BusyOK
<1> QED
  BY <1>4, <1>11, <1>12, <1>13, <1>14, QuietKeeps

(* What is remembered of steady readers. *)
LEMMA SteadyIs ==
  ASSUME Ext4Types
  PROVE  hist.steady \in SUBSET Clients /\ hist = [hist EXCEPT !.steady = hist.steady]
<1>1. PICK r \in HistRec : r = hist
  BY DEF Ext4Types
<1>2. r.steady \in SUBSET Clients /\ r = [r EXCEPT !.steady = r.steady]
  BY DEF HistRec
<1> QED
  BY <1>1, <1>2

(* preadv and pwritev begin. *)
LEMMA BeginKeeps ==
  ASSUME Ext4Inv, NEW c \in Clients, NEW off \in Nat,
         preadv(c, off, MaxRw) \/ \E n \in 1 .. MaxRw : pwritev(c, off, n)
  PROVE  Ext4Inv'
<1>0. Ext4Types /\ MaxRw \in Nat \ {0} /\ BUF_SIZE \in Nat \ {0}
  BY Ext4Assumption DEF Ext4Inv
<1>1. file \in Seq(Nat) /\ Len(file) \in Nat /\ fresh \in Nat
  BY <1>0 DEF Ext4Types
<1>2. hist.steady \in SUBSET Clients /\ hist = [hist EXCEPT !.steady = hist.steady]
  BY <1>0, SteadyIs
<1>3. /\ 0 * BUF_SIZE = 0 /\ (0 - 1) * BUF_SIZE = 0 - BUF_SIZE /\ 0 - BUF_SIZE < MaxRw
  BY <1>0
<1>4. CASE preadv(c, off, MaxRw)
  <2>1. PICK o : o = [NoOp EXCEPT !.kind = "read", !.pos = off, !.want = MaxRw]
    OBVIOUS
  <2>2. o = [kind |-> "read", pos |-> off, data |-> <<>>, want |-> MaxRw, calls |-> 0]
    BY <2>1 DEF NoOp
  <2>3. o \in OpRec
    BY <1>0, <1>1, <2>2 DEF OpRec
  <2>4. CallsOK(o)
    BY <1>0, <1>3, <2>2 DEF CallsOK
  <2>5. off <= Len(file) => ReadOK(o, file)
    BY <1>1, <2>2 DEF ReadOK
  <2>6. PICK S \in SUBSET Clients : S = IF off <= Len(file) THEN hist.steady \cup {c} ELSE hist.steady \ {c}
    BY <1>2
  <2>7. op' = [op EXCEPT ![c] = o] /\ UNCHANGED <<file, handle, svr_objs>> /\ fresh' \in Nat
    BY <1>1, <1>4, <2>1 DEF preadv
  <2>8. hist' = [hist EXCEPT !.steady = S] /\ \A d \in Clients \ {c} : d \in S <=> d \in hist.steady
    BY <1>4, <2>6 DEF preadv
  <2>9. (Reading(o) /\ c \in S => ReadOK(o, file)) /\ BusyOK(o, handle[c])
    BY <1>4, <2>5, <2>6 DEF preadv, BusyOK
  <2> QED
    BY <2>3, <2>4, <2>7, <2>8, <2>9, OperationKeeps
<1>5. ASSUME NEW n \in 1 .. MaxRw, pwritev(c, off, n)
      PROVE  Ext4Inv'
  <2>1. PICK t : t = [i \in 1 .. n |-> fresh + i]
    OBVIOUS
  <2>2. t \in Seq(Nat) /\ Len(t) = n /\ t # <<>>
    <3>1. t \in [1 .. n -> Nat] /\ n \in Nat \ {0}
      BY <1>0, <1>1, <2>1
    <3>2. t \in Seq(Nat)
      BY <3>1, SeqDef
    <3>3. DOMAIN t = 1 .. n
      BY <2>1
    <3> QED
      BY <3>1, <3>2, <3>3
  <2>3. PICK o : o = [NoOp EXCEPT !.kind = "write", !.pos = off, !.data = t]
    OBVIOUS
  <2>4. o = [kind |-> "write", pos |-> off, data |-> t, want |-> 0, calls |-> 0]
    BY <2>3 DEF NoOp
  <2>5. o \in OpRec
    BY <1>1, <2>2, <2>4 DEF OpRec
  <2>6. CallsOK(o)
    <3>1. o.kind = "write" /\ o.calls = 0 /\ o.data = t
      BY <2>4
    <3>2. 0 + n <= MaxRw
      BY <1>0
    <3> QED
      BY <1>3, <2>2, <3>1, <3>2 DEF CallsOK
  <2>7. ~Reading(o) /\ BusyOK(o, handle[c])
    BY <1>5, <2>4 DEF Reading, pwritev, BusyOK
  <2>8. op' = [op EXCEPT ![c] = o] /\ UNCHANGED <<file, handle, svr_objs>> /\ fresh' \in Nat /\ hist' = hist
    <3>1. op' = [op EXCEPT ![c] = o]
      BY <1>5, <2>1, <2>3 DEF pwritev
    <3>2. UNCHANGED <<file, handle, svr_objs>> /\ hist' = hist /\ fresh' = fresh + n
      BY <1>5 DEF pwritev
    <3>3. fresh + n \in Nat
      BY <1>0, <1>1
    <3> QED
      BY <3>1, <3>2, <3>3
  <2>9. PICK S \in SUBSET Clients : S = hist.steady /\ hist' = [hist EXCEPT !.steady = S]
    BY <1>2, <2>8
  <2> QED
    BY <2>5, <2>6, <2>7, <2>8, <2>9, OperationKeeps
<1> QED
  BY <1>4, <1>5

(* preadv returns. *)
LEMMA ReadReturnKeeps ==
  ASSUME Ext4Inv, NEW c \in Clients, read_return(c)
  PROVE  Ext4Inv'
<1>0. Ext4Types
  BY DEF Ext4Inv
<1>1. PICK o \in OpRec : o = NoOp /\ CallsOK(o) /\ ~Reading(o) /\ BusyOK(o, handle[c])
  BY NoneOK DEF BusyOK
<1>2. PICK S \in SUBSET Clients : S = hist.steady \ {c}
  BY <1>0, SteadyIs
<1>3. op' = [op EXCEPT ![c] = o] /\ UNCHANGED <<file, handle, svr_objs>> /\ fresh' \in Nat
  BY <1>0, <1>1 DEF read_return, Ext4Types
<1>4. hist' = [hist EXCEPT !.steady = S] /\ \A d \in Clients \ {c} : d \in S <=> d \in hist.steady
  BY <1>2 DEF read_return
<1> QED
  BY <1>1, <1>3, <1>4, OperationKeeps

(* One call more, counted in bytes. *)
LEMMA OneCallMore ==
  ASSUME NEW k \in Nat
  PROVE  /\ k * BUF_SIZE \in Nat /\ (k + 1) * BUF_SIZE = k * BUF_SIZE + BUF_SIZE
         /\ (k + 1) - 1 = k
<1>1. BUF_SIZE \in Nat
  BY Ext4Assumption
<1> QED
  BY <1>1

(* What one RPC of preadv that got t makes of the operation. *)
Fetched(o, p, t) ==
  LET chunk == Smaller(o.want, BUF_SIZE)
      left  == o.want - Len(t)
  IN  p = [kind |-> IF read_done(Len(t), chunk, left) THEN "did_read" ELSE "read",
           pos  |-> read_on(o, Len(t)), data |-> o.data \o t,
           want |-> left, calls |-> o.calls + 1]

(* What lwext4 has of n bytes at off: not more, and less only at the end; within *)
(* the file, the bytes of the file.                                            *)
LEMMA BytesAtIs ==
  ASSUME NEW f \in Seq(Nat), f = file, NEW off \in Nat, NEW n \in Nat, NEW t \in BytesAt(off, n)
  PROVE  /\ t \in Seq(Nat) /\ Len(t) <= n
         /\ Len(t) < n => Len(f) <= off + Len(t)
         /\ off <= Len(f) => off + Len(t) <= Len(f) /\ \A i \in 1 .. Len(t) : t[i] = f[off + i]
<1>0. PICK len \in Nat : len = Len(f)
  OBVIOUS
<1>1. CASE off <= len
  <2>0. PICK j \in Nat : j = len - off
    BY <1>1
  <2>1. PICK k \in Nat : k = Smaller(n, len - off) /\ k <= n /\ off + k <= len /\ (k < n => len <= off + k)
    <3>1. PICK k \in Nat : k = Smaller(n, j) /\ k <= n /\ k <= j /\ (k < n => k = j)
      BY DEF Smaller
    <3> QED
      BY <2>0, <3>1
  <2>2. PICK e \in Nat : e = off + k
    OBVIOUS
  <2>3. off <= e /\ (off < e => e <= Len(f)) /\ e - off = k
    BY <1>0, <2>1, <2>2
  <2>4. /\ SubSeq(f, off + 1, e) \in Seq(Nat) /\ Len(SubSeq(f, off + 1, e)) = e - off
        /\ \A i \in 1 .. e - off : SubSeq(f, off + 1, e)[i] = f[off + i]
    BY <2>3, PieceOf
  <2>5. t = SubSeq(f, off + 1, e)
    BY <1>0, <1>1, <2>1, <2>2 DEF BytesAt
  <2>6. t \in Seq(Nat) /\ Len(t) = k /\ \A i \in 1 .. k : t[i] = f[off + i]
    BY <2>3, <2>4, <2>5
  <2> QED
    BY <1>0, <2>1, <2>6
<1>2. CASE ~(off <= len)
  <2>1. t \in {<<>>, [i \in 1 .. n |-> 0]}
    BY <1>0, <1>2 DEF BytesAt
  <2>2. CASE t = <<>>
    BY <1>0, <1>2, <2>2
  <2>3. CASE t = [i \in 1 .. n |-> 0]
    <3>1. t \in [1 .. n -> Nat]
      BY <2>3
    <3>2. t \in Seq(Nat)
      BY <3>1, SeqDef
    <3>3. DOMAIN t = 1 .. n
      BY <2>3
    <3>4. Len(t) = n
      BY <3>2, <3>3
    <3> QED
      BY <1>0, <1>2, <3>2, <3>4
  <2> QED
    BY <2>1, <2>2, <2>3
<1> QED
  BY <1>1, <1>2

(* It continues the bytes read so far, is within the number of calls, and is   *)
(* the last one with bytes still wanted only at the end of the file.          *)
LEMMA FetchedOK ==
  ASSUME NEW o \in OpRec, NEW f \in Seq(Nat), f = file, NEW t \in BytesAt(o.pos, Smaller(o.want, BUF_SIZE)),
         NEW p, Fetched(o, p, t), o.kind = "read", CallsOK(o)
  PROVE  /\ p \in OpRec /\ CallsOK(p)
         /\ ReadOK(o, f) => ReadOK(p, f)
         /\ p.kind = "did_read" /\ p.want > 0 => Len(f) <= p.pos
<1>0. /\ o.pos \in Nat /\ o.want \in Nat /\ o.calls \in Nat /\ o.data \in Seq(Nat)
      /\ Len(f) \in Nat /\ Len(o.data) \in Nat /\ BUF_SIZE \in Nat \ {0} /\ MaxRw \in Nat \ {0}
  BY Ext4Assumption DEF OpRec
<1>1. PICK chunk \in Nat : chunk = Smaller(o.want, BUF_SIZE) /\ chunk <= o.want /\ chunk <= BUF_SIZE
                           /\ (chunk = o.want \/ chunk = BUF_SIZE)
  BY <1>0 DEF Smaller
<1>20. PICK off \in Nat : off = o.pos
  BY <1>0
<1>21. t \in BytesAt(off, chunk)
  BY <1>1, <1>20
<1>22. /\ t \in Seq(Nat) /\ Len(t) <= chunk /\ (Len(t) < chunk => Len(f) <= off + Len(t))
       /\ off <= Len(f) => off + Len(t) <= Len(f) /\ \A i \in 1 .. Len(t) : t[i] = f[off + i]
  BY <1>21, BytesAtIs
<1>2. PICK got \in Nat : got = Len(t)
  BY <1>22
<1>23. /\ got <= chunk /\ (got < chunk => Len(f) <= o.pos + got)
       /\ o.pos <= Len(f) => o.pos + got <= Len(f)
  BY <1>2, <1>20, <1>22
<1>3. PICK left \in Nat : left = o.want - got
  BY <1>0, <1>1, <1>23
<1>5. t \in Seq(Nat) /\ (o.pos <= Len(f) => \A i \in 1 .. got : t[i] = f[o.pos + i])
  BY <1>2, <1>20, <1>22
<1>6. PICK e : e = o.data \o t
  OBVIOUS
<1>7. /\ e \in Seq(Nat) /\ Len(e) = Len(o.data) + got
      /\ \A i \in 1 .. Len(o.data) : e[i] = o.data[i]
      /\ \A i \in 1 .. got : e[Len(o.data) + i] = t[i]
  <2>1. PICK d \in Seq(Nat) : d = o.data
    BY <1>0
  <2>2. /\ d \o t \in Seq(Nat) /\ Len(d \o t) = Len(d) + Len(t)
        /\ \A i \in 1 .. Len(d) : (d \o t)[i] = d[i]
        /\ \A i \in 1 .. Len(t) : (d \o t)[Len(d) + i] = t[i]
    BY <1>5, JoinOf
  <2>3. e = d \o t /\ Len(t) = got
    BY <1>2, <1>6, <2>1
  <2> QED
    BY <2>1, <2>2, <2>3
<1>8. p = [kind |-> IF read_done(got, chunk, left) THEN "did_read" ELSE "read", pos |-> o.pos + got,
           data |-> e, want |-> left, calls |-> o.calls + 1]
  BY <1>1, <1>2, <1>3, <1>6 DEF Fetched, read_on
<1>9. /\ p.pos = o.pos + got /\ p.data = e /\ p.want = left /\ p.calls = o.calls + 1
      /\ p.kind = IF read_done(got, chunk, left) THEN "did_read" ELSE "read"
  BY <1>8
<1>10. p \in OpRec
  <2>1. o.pos + got \in Nat /\ o.calls + 1 \in Nat
    BY <1>0
  <2>2. (IF read_done(got, chunk, left) THEN "did_read" ELSE "read") \in {"none", "read", "did_read", "write"}
    OBVIOUS
  <2> QED
    BY <1>3, <1>7, <1>8, <2>1, <2>2 DEF OpRec
<1>11. PICK b \in Nat : b = o.calls * BUF_SIZE /\ (o.calls + 1) * BUF_SIZE = b + BUF_SIZE /\ (o.calls + 1) - 1 = o.calls
  BY <1>0, OneCallMore
<1>12. b + o.want <= MaxRw /\ o.want > 0
  BY <1>11 DEF CallsOK
<1>13. CallsOK(p)
  <2>1. p.kind = "read" => b + BUF_SIZE + left <= MaxRw /\ left > 0
    <3>1. SUFFICES ASSUME p.kind = "read" PROVE b + BUF_SIZE + left <= MaxRw /\ left > 0
      OBVIOUS
    <3>2. got = chunk /\ left # 0
      BY <1>23, <1>9, <3>1 DEF read_done
    <3>3. chunk # o.want
      BY <1>0, <1>3, <3>2
    <3>4. chunk = BUF_SIZE
      BY <1>1, <3>3
    <3> QED
      BY <1>0, <1>3, <1>12, <3>2, <3>4
  <2>2. b < MaxRw
    BY <1>0, <1>12
  <2>3. p.kind # "write"
    BY <1>9
  <2> QED
    BY <1>9, <1>11, <2>1, <2>2, <2>3 DEF CallsOK
<1>14. p.kind = "did_read" /\ p.want > 0 => Len(f) <= p.pos
  <2>1. SUFFICES ASSUME p.kind = "did_read", p.want > 0 PROVE Len(f) <= p.pos
    OBVIOUS
  <2>2. read_done(got, chunk, left) /\ left > 0
    BY <1>9, <2>1
  <2>3. got < chunk
    BY <1>0, <1>1, <1>23, <1>3, <1>12, <2>2 DEF read_done
  <2> QED
    BY <1>23, <1>9, <2>3
<1>15. ASSUME ReadOK(o, f) PROVE ReadOK(p, f)
  <2>0. PICK n \in Nat : n = Len(o.data)
    BY <1>0
  <2>1. n <= o.pos /\ o.pos <= Len(f) /\ \A i \in 1 .. n : o.data[i] = f[o.pos - n + i]
    BY <1>15, <2>0 DEF ReadOK
  <2>2. Len(e) = n + got /\ n + got <= o.pos + got /\ o.pos + got <= Len(f)
    BY <1>0, <1>7, <1>23, <2>0, <2>1
  <2>3. (o.pos + got) - (n + got) = o.pos - n
    BY <1>0
  <2>4. ASSUME NEW i \in 1 .. n + got
        PROVE  e[i] = f[o.pos - n + i]
    <3>1. CASE i <= n
      <4>1. i \in 1 .. n
        BY <3>1
      <4>2. e[i] = o.data[i]
        BY <1>7, <2>0, <4>1
      <4> QED
        BY <2>1, <4>1, <4>2
    <3>2. CASE i > n
      <4>1. i - n \in 1 .. got /\ n + (i - n) = i /\ o.pos + (i - n) = o.pos - n + i
        BY <1>0, <3>2
      <4>2. PICK k \in 1 .. got : k = i - n
        BY <4>1
      <4>3. e[n + k] = t[k] /\ t[k] = f[o.pos + k]
        BY <1>5, <1>7, <2>0, <2>1
      <4> QED
        BY <4>1, <4>2, <4>3
    <3> QED
      BY <3>1, <3>2
  <2> QED
    BY <1>9, <2>2, <2>3, <2>4 DEF ReadOK
<1> QED
  BY <1>10, <1>13, <1>14, <1>15

(* An RPC of preadv. *)
LEMMA ReadChunkIs ==
  ASSUME NEW c \in Clients, read_chunk(c)
  PROVE  /\ op[c].kind = "read" /\ UNCHANGED <<file, svr_objs, fresh>>
         /\ \/ /\ Synced(c, hist.steady)
               /\ \E t \in BytesAt(op[c].pos, Smaller(op[c].want, BUF_SIZE)) :
                    \E p : op' = [op EXCEPT ![c] = p] /\ Fetched(op[c], p, t)
            \/ /\ op' = [op EXCEPT ![c] = NoOp]
               /\ \/ Synced(c, hist.steady \ {c})
                  \/ handle' = handle /\ hist' = [hist EXCEPT !.steady = @ \ {c}]
BY DEF read_chunk, Fetched

(* It keeps the invariant. *)
LEMMA ReadChunkKeeps ==
  ASSUME Ext4Inv, NEW c \in Clients, read_chunk(c)
  PROVE  Ext4Inv'
<1>0. Ext4Types /\ hist.steady \in SUBSET Clients /\ hist.steady \ {c} \in SUBSET Clients
  BY SteadyIs DEF Ext4Inv
<1>1. op[c].kind = "read" /\ UNCHANGED <<file, svr_objs, fresh>>
  BY ReadChunkIs
<1>2. PICK o \in OpRec, f \in Seq(Nat) : o = op[c] /\ f = file
  BY <1>0, ClientRecords DEF Ext4Types
<1>3. o.kind = "read" /\ CallsOK(o) /\ (c \in hist.steady => ReadOK(o, f))
  BY <1>1, <1>2 DEF Ext4Inv, Reading
<1>4. ASSUME Synced(c, hist.steady), NEW t \in BytesAt(op[c].pos, Smaller(op[c].want, BUF_SIZE)),
             NEW p, op' = [op EXCEPT ![c] = p], Fetched(op[c], p, t)
      PROVE  Ext4Inv'
  <2>1. t \in BytesAt(o.pos, Smaller(o.want, BUF_SIZE)) /\ Fetched(o, p, t)
    BY <1>2, <1>4
  <2>2. p \in OpRec /\ CallsOK(p) /\ (ReadOK(o, f) => ReadOK(p, f)) /\ BusyOK(p, handle[c])
    <3>1. handle[c].st = "valid"
      BY <1>1 DEF Ext4Inv, BusyOK
    <3> QED
      BY <1>2, <1>3, <2>1, <3>1, FetchedOK DEF BusyOK
  <2>3. PICK S \in SUBSET Clients : S = hist.steady
    BY <1>0
  <2>4. Synced(c, S) /\ \A d \in Clients \ {c} : d \in S <=> d \in hist.steady
    BY <1>4, <2>3
  <2>5. Reading(p) /\ c \in S => ReadOK(p, file)
    BY <1>2, <1>3, <2>2, <2>3
  <2> QED
    BY <1>1, <1>4, <2>2, <2>4, <2>5, SyncKeeps
<1>5. ASSUME op' = [op EXCEPT ![c] = NoOp],
             Synced(c, hist.steady \ {c}) \/ (handle' = handle /\ hist' = [hist EXCEPT !.steady = @ \ {c}])
      PROVE  Ext4Inv'
  <2>1. PICK p \in OpRec : p = NoOp /\ CallsOK(p) /\ ~Reading(p) /\ BusyOK(p, handle[c])
    BY NoneOK DEF BusyOK
  <2>2. PICK S \in SUBSET Clients : S = hist.steady \ {c}
    BY <1>0
  <2>3. op' = [op EXCEPT ![c] = p] /\ \A d \in Clients \ {c} : d \in S <=> d \in hist.steady
    BY <1>5, <2>1, <2>2
  <2>4. CASE Synced(c, S)
    BY <1>1, <2>1, <2>3, <2>4, SyncKeeps
  <2>5. CASE handle' = handle /\ hist' = [hist EXCEPT !.steady = S]
    <3>1. fresh' \in Nat
      BY <1>0, <1>1 DEF Ext4Types
    <3> QED
      BY <1>1, <2>1, <2>3, <2>5, <3>1, OperationKeeps
  <2> QED
    BY <1>5, <2>2, <2>4, <2>5
<1> QED
  BY <1>4, <1>5, ReadChunkIs

-----------------------------------------------------------------------------
(* ext4: steps that change the file *)

(* beyond the end that handle h remembers, file f has only bytes of u and holes *)
Beyond(h, f, u) == \A i \in 1 .. Len(f) : i > h.fsize => f[i] \in u \cup {0}

(* Client c makes f of the file and goes on with handle h and operation o. *)
Stores(c, h, o, f) ==
  /\ file' = f /\ UNCHANGED <<svr_objs, fresh>>
  /\ handle' = [handle EXCEPT ![c] = h] /\ op' = [op EXCEPT ![c] = o]
  /\ hist' \in HistRec /\ 0 \in hist'.overrun /\ hist'.stray = hist.stray
  /\ hist'.kept \ hist'.overrun \subseteq Bytes(f)
  /\ \A d \in Clients \ {c} : handle[d].st = "valid" =>
       /\ d \in hist.cut \/ Len(f) < Len(file) => d \in hist'.cut
       /\ d \in hist'.alone => d \in hist.alone /\ f = file
       /\ Beyond(handle[d], f, hist'.unseen[d])
  /\ hist'.steady \subseteq {d \in hist.steady : Extends(f, file)}

(* A file that has only grown still holds what a read has of it. *)
LEMMA GrownReadOK ==
  ASSUME NEW o \in OpRec, NEW f \in Seq(Nat), NEW g \in Seq(Nat), Extends(f, g), ReadOK(o, g)
  PROVE  ReadOK(o, f)
<1>1. PICK n \in Nat, p \in Nat, d \in Seq(Nat) : n = Len(o.data) /\ p = o.pos /\ d = o.data
  BY DEF OpRec
<1>2. n <= p /\ p <= Len(g) /\ \A i \in 1 .. n : d[i] = g[p - n + i]
  BY <1>1 DEF ReadOK
<1>3. Len(g) <= Len(f) /\ \A i \in 1 .. Len(g) : f[i] = g[i]
  BY DEF Extends
<1>0. Len(f) \in Nat /\ Len(g) \in Nat
  OBVIOUS
<1>4. ASSUME NEW i \in 1 .. n PROVE d[i] = f[p - n + i]
  <2>0. n > 0 /\ n <= p /\ p <= Len(g)
    BY <1>2
  <2>1. p - n + i \in 1 .. Len(g)
    BY <1>0, <2>0
  <2>2. f[p - n + i] = g[p - n + i]
    BY <1>3, <2>1
  <2> QED
    BY <1>2, <2>2
<1>5. p <= Len(f)
  BY <1>0, <1>2, <1>3
<1> QED
  BY <1>1, <1>2, <1>4, <1>5 DEF ReadOK

(* Such a step keeps the invariant: the others' handles and reads are as good  *)
(* as what the history says of them.                                        *)
LEMMA StoreKeeps ==
  ASSUME Ext4Inv, NEW c \in Clients, NEW h \in HandleRec, NEW o \in OpRec, NEW f \in Seq(Nat),
         Stores(c, h, o, f), h.st = handle[c].st, HandleOK(c, h, f, hist'),
         ~Reading(o), CallsOK(o), BusyOK(o, h)
  PROVE  Ext4Inv'
<1>0. Ext4Types /\ ObjectsAccounted
  BY DEF Ext4Inv
<1>1. /\ handle' \in [Clients -> HandleRec] /\ handle'[c] = h
      /\ \A d \in Clients \ {c} : handle'[d] = handle[d]
  <2>1. PICK e \in [Clients -> HandleRec] : e = handle
    BY <1>0 DEF Ext4Types
  <2>2. PICK g : g = handle' /\ g = [e EXCEPT ![c] = h]
    BY <2>1 DEF Stores
  <2>3. g \in [Clients -> HandleRec] /\ g[c] = h /\ \A d \in Clients \ {c} : g[d] = e[d]
    BY <2>2, ClientFunction
  <2> QED
    BY <2>1, <2>2, <2>3
<1>2. /\ op' \in [Clients -> OpRec] /\ op'[c] = o
      /\ \A d \in Clients \ {c} : op'[d] = op[d]
  <2>1. PICK e \in [Clients -> OpRec] : e = op
    BY <1>0 DEF Ext4Types
  <2>2. PICK g : g = op' /\ g = [e EXCEPT ![c] = o]
    BY <2>1 DEF Stores
  <2>3. g \in [Clients -> OpRec] /\ g[c] = o /\ \A d \in Clients \ {c} : g[d] = e[d]
    BY <2>2, ClientFunction
  <2> QED
    BY <2>1, <2>2, <2>3
<1>3. file' = f /\ svr_objs' = svr_objs /\ fresh' = fresh /\ hist' \in HistRec /\ 0 \in hist'.overrun
  BY DEF Stores
<1>4. Ext4Types'
  BY <1>0, <1>1, <1>2, <1>3 DEF Ext4Types
<1>5. SeenAppendsKept'
  BY <1>3 DEF SeenAppendsKept, Stores, Bytes
<1>6. ObjectsAccounted'
  <2>1. \A d \in Clients : handle'[d].st # "none" <=> handle[d].st # "none"
    BY <1>1
  <2>2. {d \in Clients : handle'[d].st # "none"} = {d \in Clients : handle[d].st # "none"}
    BY <2>1
  <2>3. svr_objs' = svr_objs /\ hist'.stray = hist.stray
    BY DEF Stores
  <2> QED
    BY <1>0, <2>2, <2>3 DEF ObjectsAccounted
<1>7. ASSUME NEW d \in Clients, d # c
      PROVE  /\ HandleOK(d, handle[d], f, hist')
             /\ Reading(op[d]) /\ d \in hist'.steady => ReadOK(op[d], f)
  <2>0. PICK g \in Seq(Nat) : g = file /\ Len(g) \in Nat /\ Len(f) \in Nat
    BY <1>0 DEF Ext4Types
  <2>1. HandleOK(d, handle[d], g, hist)
    BY <2>0 DEF Ext4Inv
  <2>2. HandleOK(d, handle[d], f, hist')
    <3>1. SUFFICES ASSUME handle[d].st = "valid"
                   PROVE  /\ handle[d].size <= Len(f) \/ d \in hist'.cut
                          /\ d \in hist'.alone => handle[d].size = Len(f) /\ handle[d].fsize = Len(f)
                          /\ Beyond(handle[d], f, hist'.unseen[d])
      BY DEF HandleOK, Beyond
    <3>2. /\ handle[d].size <= Len(g) \/ d \in hist.cut
          /\ d \in hist.alone => handle[d].size = Len(g) /\ handle[d].fsize = Len(g)
      BY <2>1, <3>1 DEF HandleOK
    <3>3. d \in hist'.alone => d \in hist.alone /\ f = g
      BY <1>7, <2>0, <3>1 DEF Stores
    <3>4. (d \in hist.cut \/ Len(f) < Len(g) => d \in hist'.cut) /\ Beyond(handle[d], f, hist'.unseen[d])
      BY <1>7, <2>0, <3>1 DEF Stores
    <3>5. handle[d].size \in Nat
      BY <1>0, ClientRecords DEF HandleRec
    <3>6. handle[d].size <= Len(g) => handle[d].size <= Len(f) \/ Len(f) < Len(g)
      BY <2>0, <3>5
    <3> QED
      BY <3>2, <3>3, <3>4, <3>6
  <2>3. ASSUME Reading(op[d]), d \in hist'.steady PROVE ReadOK(op[d], f)
    <3>1. d \in hist.steady /\ Extends(f, g)
      BY <2>0, <2>3 DEF Stores
    <3>2. PICK r \in OpRec : r = op[d]
      BY <1>0, ClientRecords
    <3>3. ReadOK(r, g)
      BY <2>0, <2>3, <3>1, <3>2 DEF Ext4Inv
    <3>4. ReadOK(r, f)
      BY <3>1, <3>3, GrownReadOK
    <3> QED
      BY <3>2, <3>4
  <2> QED
    BY <2>2, <2>3
<1>8. ASSUME NEW d \in Clients
      PROVE  /\ HandleOK(d, handle'[d], file', hist')
             /\ Reading(op'[d]) /\ d \in hist'.steady => ReadOK(op'[d], file')
             /\ CallsOK(op'[d]) /\ BusyOK(op'[d], handle'[d])
  <2>1. CASE d = c
    BY <1>1, <1>2, <1>3, <2>1
  <2>2. CASE d # c
    <3>1. handle'[d] = handle[d] /\ op'[d] = op[d]
      BY <1>1, <1>2, <2>2
    <3>2. CallsOK(op[d]) /\ BusyOK(op[d], handle[d])
      BY DEF Ext4Inv
    <3> QED
      BY <1>3, <1>7, <2>2, <3>1, <3>2
  <2> QED
    BY <2>1, <2>2
<1>9. /\ \A d \in Clients : HandleOK(d, handle[d], file, hist)'
      /\ \A d \in Clients : (Reading(op[d]) /\ d \in hist.steady => ReadOK(op[d], file))'
      /\ \A d \in Clients : (CallsOK(op[d]) /\ BusyOK(op[d], handle[d]))'
  BY <1>8 DEF HandleOK, Reading, ReadOK, CallsOK, BusyOK
<1> QED
  BY <1>4, <1>5, <1>6, <1>9 DEF Ext4Inv

(* What the history r says of a change of the file to f by c, which wrote s. *)
Remembers(r, c, f, s, end, a) ==
  /\ r \in HistRec /\ r.stray = hist.stray
  /\ r.kept = IF a THEN hist.kept ELSE hist.kept \ (Bytes(file) \ Bytes(f))
  /\ r.overrun = IF a THEN hist.overrun \cup (hist.kept \cap hist.unseen[c]) ELSE hist.overrun
  /\ \A d \in Clients \ {c} : handle[d].st = "valid" =>
       r.unseen[d] = Bytes(f) \cap (hist.unseen[d] \cup Bytes(s))
  /\ r.unseen[c] = IF end = Len(f) THEN {} ELSE hist.unseen[c]
  /\ r.cut = hist.cut \cup {d \in Clients : handle[d].st = "valid" /\ d # c /\ Len(f) < Len(file)}
  /\ r.alone = {d \in hist.alone : d = c \/ f = file}
  /\ r.steady = {d \in hist.steady : Extends(f, file)}

(* The bytes of a file are numbers. *)
LEMMA BytesAreNumbers ==
  ASSUME NEW f \in Seq(Nat)
  PROVE  Bytes(f) \in SUBSET Nat
BY DEF Bytes

(* It is so of the history that the actions that change the file leave. *)
LEMMA ChangedIs ==
  ASSUME Ext4Types, NEW c \in Clients, NEW f \in Seq(Nat), NEW s \in Seq(Nat), NEW end,
         NEW a \in BOOLEAN, NEW r, r = Changed(c, f, s, end, a)
  PROVE  Remembers(r, c, f, s, end, a)
<1>1. PICK q \in HistRec : q = hist
  BY DEF Ext4Types
<1>2. PICK k : k = IF a THEN q.kept ELSE q.kept \ (Bytes(file) \ Bytes(f))
  OBVIOUS
<1>3. PICK al : al = {d \in q.alone : d = c \/ f = file}
  OBVIOUS
<1>4. PICK cu : cu = q.cut \cup {d \in Clients : handle[d].st = "valid" /\ d # c /\ Len(f) < Len(file)}
  OBVIOUS
<1>5. PICK st : st = {d \in q.steady : Extends(f, file)}
  OBVIOUS
<1>6. PICK ov : ov = IF a THEN q.overrun \cup (q.kept \cap q.unseen[c]) ELSE q.overrun
  OBVIOUS
<1>7. PICK B, D : B = Bytes(s) /\ D = Bytes(f) /\ B \in SUBSET Nat /\ D \in SUBSET Nat
  BY BytesAreNumbers
<1>8. PICK x \in [Clients -> SUBSET Nat] : x = q.unseen
  BY DEF HistRec
<1>9. PICK un : un = [d \in Clients |->
                   IF d # c THEN D \cap (x[d] \cup (IF handle[d].st = "valid" THEN B ELSE {}))
                   ELSE IF end = Len(f) THEN {} ELSE x[c]]
  OBVIOUS
<1>10. r = [q EXCEPT !.kept = k, !.overrun = ov, !.unseen = un, !.alone = al, !.cut = cu, !.steady = st]
  BY <1>1, <1>2, <1>3, <1>4, <1>5, <1>6, <1>7, <1>8, <1>9 DEF Changed
<1>11. k \in SUBSET Nat /\ al \in SUBSET Clients /\ cu \in SUBSET Clients /\ st \in SUBSET Clients
  BY <1>2, <1>3, <1>4, <1>5 DEF HistRec
<1>12. ov \in SUBSET Nat
  BY <1>6 DEF HistRec
<1>13. un \in [Clients -> SUBSET Nat]
  <2>1. ASSUME NEW d \in Clients
        PROVE  (IF d # c THEN D \cap (x[d] \cup (IF handle[d].st = "valid" THEN B ELSE {}))
                ELSE IF end = Len(f) THEN {} ELSE x[c]) \in SUBSET Nat
    <3>1. x[d] \in SUBSET Nat /\ x[c] \in SUBSET Nat
      OBVIOUS
    <3> QED
      BY <1>7, <3>1
  <2> QED
    BY <1>9, <2>1
<1>14. /\ r \in HistRec /\ r.stray = q.stray /\ r.kept = k /\ r.alone = al /\ r.cut = cu /\ r.steady = st
       /\ r.overrun = ov /\ r.unseen = un
  BY <1>10, <1>11, <1>12, <1>13 DEF HistRec
<1>15. /\ \A d \in Clients \ {c} : handle[d].st = "valid" =>
            r.unseen[d] = Bytes(f) \cap (hist.unseen[d] \cup Bytes(s))
       /\ r.unseen[c] = IF end = Len(f) THEN {} ELSE hist.unseen[c]
  BY <1>1, <1>7, <1>8, <1>9, <1>14
<1>16. r.overrun = IF a THEN hist.overrun \cup (hist.kept \cap hist.unseen[c]) ELSE hist.overrun
  BY <1>1, <1>6, <1>14
<1>17. /\ r.kept = IF a THEN hist.kept ELSE hist.kept \ (Bytes(file) \ Bytes(f))
       /\ r.cut = hist.cut \cup {d \in Clients : handle[d].st = "valid" /\ d # c /\ Len(f) < Len(file)}
       /\ r.alone = {d \in hist.alone : d = c \/ f = file}
       /\ r.steady = {d \in hist.steady : Extends(f, file)}
  BY <1>1, <1>2, <1>3, <1>4, <1>5, <1>14
<1> QED
  BY <1>1, <1>14, <1>15, <1>16, <1>17 DEF Remembers

(* The others' ends, if f has only bytes of s, of the file at the same places,  *)
(* and of holes.                                                               *)
LEMMA OthersSee ==
  ASSUME Ext4Inv, NEW c \in Clients, NEW f \in Seq(Nat), NEW s \in Seq(Nat), NEW end, NEW a \in BOOLEAN,
         NEW r, Remembers(r, c, f, s, end, a), NEW d \in Clients \ {c}, handle[d].st = "valid",
         \A i \in 1 .. Len(f) : f[i] \in Bytes(s) \cup {0} \/ (i <= Len(file) /\ f[i] = file[i])
  PROVE  Beyond(handle[d], f, r.unseen[d])
<1>1. PICK u : u = hist.unseen[d] /\ \A i \in 1 .. Len(file) : i > handle[d].fsize => file[i] \in u \cup {0}
  BY DEF Ext4Inv, HandleOK
<1>2. r.unseen[d] = Bytes(f) \cap (u \cup Bytes(s))
  BY <1>1 DEF Remembers
<1>3. Len(f) \in Nat /\ Len(file) \in Nat
  BY DEF Ext4Inv, Ext4Types
<1>4. ASSUME NEW i \in 1 .. Len(f), i > handle[d].fsize
      PROVE  f[i] \in r.unseen[d] \cup {0}
  <2>1. f[i] \in Bytes(f)
    BY DEF Bytes
  <2>2. CASE f[i] \in Bytes(s) \cup {0}
    BY <1>2, <2>1, <2>2
  <2>3. CASE i <= Len(file) /\ f[i] = file[i]
    <3>1. i \in 1 .. Len(file)
      BY <1>3, <2>3
    <3>2. file[i] \in u \cup {0}
      BY <1>1, <1>4, <3>1
    <3> QED
      BY <1>2, <2>1, <2>3, <3>2
  <2> QED
    BY <2>2, <2>3
<1> QED
  BY <1>4 DEF Beyond


(* What is left of file g after a truncation. *)
LEMMA CutOf ==
  ASSUME NEW g \in Seq(Nat), NEW m \in Nat, m <= Len(g)
  PROVE  SubSeq(g, 1, m) \in Seq(Nat) /\ Len(SubSeq(g, 1, m)) = m /\ \A i \in 1 .. m : SubSeq(g, 1, m)[i] = g[i]
<1>1. PICK a \in Nat : a = 0
  OBVIOUS
<1>2. a <= m /\ (a < m => m <= Len(g)) /\ m - a = m /\ a + 1 = 1
  BY <1>1
<1>3. /\ SubSeq(g, a + 1, m) \in Seq(Nat) /\ Len(SubSeq(g, a + 1, m)) = m - a
      /\ \A i \in 1 .. m - a : SubSeq(g, a + 1, m)[i] = g[a + i]
  BY <1>2, PieceOf
<1>4. \A i \in 1 .. m : a + i = i
  BY <1>1
<1> QED
  BY <1>2, <1>3, <1>4

(* What ftruncate can do: it cuts the file to m, or leaves it, if n is not less  *)
(* than its length; end is the size the server object remembers.                *)
LEMMA TruncatedIs ==
  ASSUME NEW g \in Seq(Nat), g = file, NEW n \in Nat, NEW w \in Truncated(n)
  PROVE  /\ w.ok \in BOOLEAN /\ w.end \in Nat
         /\ \E m \in Nat : /\ m <= Len(g) /\ m <= w.end /\ w.f = SubSeq(g, 1, m)
                           /\ w.ok => m = w.end /\ (n <= Len(g) => m = n)
<1>1. PICK len \in Nat : len = Len(g)
  OBVIOUS
<1>2. PICK m \in Nat : m = Smaller(n, len) /\ m <= len /\ m <= n /\ (n <= len => m = n)
  BY DEF Smaller
<1>3. CASE w = [f |-> SubSeq(file, 1, m), ok |-> TRUE, end |-> m]
  <2>1. w.f = SubSeq(g, 1, m) /\ w.ok = TRUE /\ w.end = m
    BY <1>3
  <2>2. m <= Len(g) /\ m <= w.end /\ (n <= Len(g) => m = n)
    BY <1>1, <1>2, <2>1
  <2> QED
    BY <2>1, <2>2
<1>4. ASSUME NEW k \in m .. len, w = [f |-> SubSeq(file, 1, k), ok |-> FALSE, end |-> len]
      PROVE  /\ w.ok \in BOOLEAN /\ w.end \in Nat
             /\ \E i \in Nat : /\ i <= Len(g) /\ i <= w.end /\ w.f = SubSeq(g, 1, i)
                               /\ w.ok => i = w.end /\ (n <= Len(g) => i = n)
  <2>1. w.f = SubSeq(g, 1, k) /\ w.ok = FALSE /\ w.end = len /\ k \in Nat /\ k <= len
    BY <1>2, <1>4
  <2> QED
    BY <1>1, <2>1
<1> QED
  BY <1>1, <1>2, <1>3, <1>4 DEF Truncated

(* ftruncate. *)
LEMMA TruncateKeeps ==
  ASSUME Ext4Inv, NEW c \in Clients, NEW n \in Nat, ftruncate(c, n)
  PROVE  Ext4Inv'
<1>0. Ext4Types
  BY DEF Ext4Inv
<1>1. PICK g \in Seq(Nat) : g = file /\ Len(g) \in Nat
  BY <1>0 DEF Ext4Types
<1>2. /\ handle[c].st = "valid" /\ op[c].kind = "none" /\ UNCHANGED <<op, svr_objs, opens, fresh>>
  BY DEF ftruncate
<1>3. PICK w \in Truncated(n) :
        /\ file' = w.f
        /\ handle' = [handle EXCEPT ![c].size = IF w.ok THEN n ELSE @, ![c].fsize = w.end]
        /\ hist' = [Changed(c, w.f, <<>>, w.end, FALSE) EXCEPT
                      !.alone = IF w.ok /\ n <= Len(file) THEN @ ELSE @ \ {c},
                      !.cut   = IF w.ok /\ n <= Len(file) THEN @ ELSE @ \cup {c}]
  BY DEF ftruncate
<1>4. PICK ok \in BOOLEAN, end \in Nat, m \in Nat :
        /\ ok = w.ok /\ end = w.end /\ m <= Len(g) /\ m <= end /\ w.f = SubSeq(g, 1, m)
        /\ ok => m = end /\ (n <= Len(g) => m = n)
  BY <1>1, TruncatedIs
<1>5. PICK f \in Seq(Nat) : f = w.f /\ Len(f) = m /\ \A i \in 1 .. m : f[i] = g[i]
  BY <1>4, CutOf
<1>6. PICK q \in HandleRec : q = handle[c] /\ q.st = "valid"
  BY <1>0, <1>2, ClientRecords
<1>7. PICK z \in Nat : z = IF ok THEN n ELSE q.size
  BY DEF HandleRec
<1>8. PICK h : h = [q EXCEPT !.size = z, !.fsize = end]
  OBVIOUS
<1>9. h \in HandleRec /\ h.st = "valid" /\ h.size = z /\ h.fsize = end
  BY <1>6, <1>8 DEF HandleRec
<1>10. handle' = [handle EXCEPT ![c] = h]
  <2>1. [handle EXCEPT ![c].size = IF w.ok THEN n ELSE @, ![c].fsize = w.end] =
        [handle EXCEPT ![c] = [handle[c] EXCEPT !.size = IF w.ok THEN n ELSE handle[c].size, !.fsize = w.end]]
    BY <1>0 DEF Ext4Types, HandleRec
  <2> QED
    BY <1>3, <1>4, <1>6, <1>7, <1>8, <2>1
<1>11. PICK o \in OpRec : o = op[c] /\ op' = [op EXCEPT ![c] = o]
  BY <1>0, <1>2, ClientRecords
<1>12. CallsOK(o) /\ ~Reading(o) /\ BusyOK(o, h)
  BY <1>2, <1>9, <1>11 DEF Ext4Inv, Reading, BusyOK
<1>25. PICK s : s = <<>> /\ s \in Seq(Nat)
  <2>1. <<>> \in Seq(Nat)
    OBVIOUS
  <2> QED
    BY <2>1
<1>26. s \in Seq(Nat)
  BY <1>25
<1>13. PICK app \in BOOLEAN : s = <<>> /\ app = FALSE
  BY <1>25
<1>14. PICK v : v = Changed(c, f, s, end, app)
  OBVIOUS
<1>15. Remembers(v, c, f, s, end, app)
  BY <1>0, <1>14, <1>26, ChangedIs
<1>16. PICK done \in BOOLEAN : done = (ok /\ n <= Len(g))
  OBVIOUS
<1>17. hist' = [v EXCEPT !.alone = IF done THEN @ ELSE @ \ {c}, !.cut = IF done THEN @ ELSE @ \cup {c}]
  BY <1>1, <1>3, <1>4, <1>5, <1>13, <1>14, <1>16
<1>18. /\ hist' \in HistRec /\ hist'.kept = v.kept /\ hist'.overrun = v.overrun /\ hist'.unseen = v.unseen
       /\ hist'.stray = v.stray /\ hist'.steady = v.steady
       /\ hist'.alone = (IF done THEN v.alone ELSE v.alone \ {c})
       /\ hist'.cut = (IF done THEN v.cut ELSE v.cut \cup {c})
  <2>1. v \in HistRec
    BY <1>15 DEF Remembers
  <2>2. PICK al \in SUBSET Clients, cu \in SUBSET Clients :
          al = (IF done THEN v.alone ELSE v.alone \ {c}) /\ cu = (IF done THEN v.cut ELSE v.cut \cup {c})
    BY <2>1 DEF HistRec
  <2>3. hist' = [v EXCEPT !.alone = al, !.cut = cu]
    BY <1>17, <2>2
  <2> QED
    BY <2>1, <2>2, <2>3 DEF HistRec
<1>19. hist'.kept \ hist'.overrun \subseteq Bytes(f) /\ 0 \in hist'.overrun
  BY <1>0, <1>13, <1>15, <1>18 DEF Ext4Inv, Ext4Types, SeenAppendsKept, Remembers
<1>20. ASSUME NEW d \in Clients \ {c}, handle[d].st = "valid" PROVE Beyond(handle[d], f, hist'.unseen[d])
  <2>1. \A i \in 1 .. Len(f) : f[i] \in Bytes(s) \cup {0} \/ (i <= Len(file) /\ f[i] = file[i])
    BY <1>1, <1>4, <1>5
  <2> QED
    BY <1>15, <1>18, <1>20, <1>26, <2>1, OthersSee
<1>21. ASSUME NEW d \in Clients \ {c}, handle[d].st = "valid"
       PROVE  /\ d \in hist.cut \/ Len(f) < Len(file) => d \in hist'.cut
              /\ d \in hist'.alone => d \in hist.alone /\ f = file
  BY <1>15, <1>18, <1>21 DEF Remembers
<1>22. hist'.steady \subseteq {d \in hist.steady : Extends(f, file)} /\ hist'.stray = hist.stray
  BY <1>15, <1>18 DEF Remembers
<1>23. Stores(c, h, o, f)
  BY <1>2, <1>3, <1>5, <1>10, <1>11, <1>18, <1>19, <1>20, <1>21, <1>22 DEF Stores
<1>24. HandleOK(c, h, f, hist')
  <2>1. \A i \in 1 .. Len(f) : ~(i > h.fsize)
    BY <1>4, <1>5, <1>9
  <2>2. done => h.size = m /\ h.fsize = m
    BY <1>4, <1>7, <1>9, <1>16
  <2>3. ~done => c \in hist'.cut /\ c \notin hist'.alone
    BY <1>18
  <2> QED
    BY <1>5, <2>1, <2>2, <2>3 DEF HandleOK
<1> QED
  BY <1>2, <1>9, <1>12, <1>23, <1>24, StoreKeeps

(* What an RPC of pwritev makes of a file g, with the server object's end at fs: *)
(* f, with put bytes reported and the end at end.                              *)
Put(g, at, s, fs, f, put, end) ==
  \/ f = g /\ put = 0 /\ end \in {fs, Len(g)}
  \/ /\ end = Len(f)
     /\ \E k \in 0 .. Len(s) :
          /\ f = Overlay(g, at, SubSeq(s, 1, k))
          /\ put = 0 \/ (put = k /\ k = Len(s) /\ f = Overlay(g, at, s))

(* It is one of the outcomes of the model. *)
LEMMA WrittenIs ==
  ASSUME NEW g \in Seq(Nat), g = file, NEW c \in Clients, NEW at \in Nat, NEW s \in Seq(Nat),
         NEW w \in Written(c, at, s)
  PROVE  Put(g, at, s, handle[c].fsize, w.f, w.put, w.end)
<1>0. Len(g) \in Nat /\ Len(s) \in Nat
  OBVIOUS
<1>1. CASE w = [f |-> file, put |-> 0, end |-> handle[c].fsize]
  BY <1>1 DEF Put
<1>2. CASE w = Result(file, 0)
  BY <1>2 DEF Put, Result
<1>3. CASE w = Result(Overlay(g, at, s), Len(s))
  <2>1. SubSeq(s, 1, Len(s)) = s /\ Len(s) \in 0 .. Len(s)
    BY <1>0
  <2>2. w.f = Overlay(g, at, s) /\ w.put = Len(s) /\ w.end = Len(w.f)
    BY <1>3 DEF Result
  <2> QED
    BY <2>1, <2>2 DEF Put
<1>4. ASSUME NEW k \in 0 .. Len(s), w = Result(Overlay(g, at, SubSeq(s, 1, k)), 0)
      PROVE  Put(g, at, s, handle[c].fsize, w.f, w.put, w.end)
  <2>1. w.f = Overlay(g, at, SubSeq(s, 1, k)) /\ w.put = 0 /\ w.end = Len(w.f)
    BY <1>4 DEF Result
  <2> QED
    BY <2>1 DEF Put
<1> QED
  BY <1>1, <1>2, <1>3, <1>4 DEF Written

(* It writes over what is there from at on, what it reports is there, and the   *)
(* server object has the right end afterwards, or nothing happened.             *)
LEMMA PutOK ==
  ASSUME NEW g \in Seq(Nat), NEW at \in Nat, NEW s \in Seq(Nat), NEW fs \in Nat,
         NEW f, NEW put, NEW end, Put(g, at, s, fs, f, put, end)
  PROVE  /\ Over(f, g, at, s) /\ f \in Seq(Nat) /\ put \in Nat /\ end \in Nat
         /\ put > 0 => /\ put = Len(s) /\ Len(f) = Larger(Len(g), at + put)
                       /\ Bytes(s) \subseteq Bytes(f) /\ end = Len(f)
         /\ end = Len(f) \/ (f = g /\ end = fs)
<1>0. Len(g) \in Nat /\ Len(s) \in Nat
  OBVIOUS
<1>1. CASE f = g /\ put = 0 /\ end \in {fs, Len(g)}
  BY <1>0, <1>1, SameOver
<1>2. ASSUME end = Len(f), NEW k \in 0 .. Len(s), f = Overlay(g, at, SubSeq(s, 1, k)),
             put = 0 \/ (put = k /\ k = Len(s) /\ f = Overlay(g, at, s))
      PROVE  /\ Over(f, g, at, s) /\ f \in Seq(Nat) /\ put \in Nat /\ end \in Nat
             /\ put > 0 => /\ put = Len(s) /\ Len(f) = Larger(Len(g), at + put)
                           /\ Bytes(s) \subseteq Bytes(f)
  <2>1. PICK m \in Nat : m = k /\ m <= Len(s)
    BY <1>0
  <2>2. PICK t \in Seq(Nat) : t = SubSeq(s, 1, m) /\ Len(t) = m /\ \A i \in 1 .. m : t[i] = s[i]
    BY <2>1, CutOf
  <2>3. Bytes(t) \subseteq Bytes(s)
    <3>1. DOMAIN t = 1 .. m /\ DOMAIN s = 1 .. Len(s)
      BY <2>2
    <3>2. \A i \in 1 .. m : i \in 1 .. Len(s)
      BY <1>0, <2>1
    <3> QED
      BY <2>2, <3>1, <3>2 DEF Bytes
  <2>4. Over(f, g, at, s)
    BY <1>2, <2>1, <2>2, <2>3, PartOver
  <2>5. f \in Seq(Nat) /\ put \in Nat
    BY <1>0, <1>2, <2>4 DEF Over
  <2>6. end \in Nat
    BY <1>2, <2>5
  <2>7. ASSUME put > 0
        PROVE  put = Len(s) /\ Len(f) = Larger(Len(g), at + put) /\ Bytes(s) \subseteq Bytes(f)
    <3>1. put = Len(s) /\ f = Overlay(g, at, s)
      BY <1>2, <2>7
    <3>2. Len(f) = Larger(Len(g), at + Len(s))
      BY <3>1, OverlayIs
    <3>3. Bytes(s) \subseteq Bytes(f)
      BY <3>1, OverlayOver
    <3> QED
      BY <3>1, <3>2, <3>3
  <2> QED
    BY <2>4, <2>5, <2>6, <2>7
<1> QED
  BY <1>1, <1>2 DEF Put

(* The chunk of bytes an RPC of pwritev takes, and what is left after it. *)
LEMMA ChunkOf ==
  ASSUME NEW d \in Seq(Nat), d # <<>>, NEW k, k = Smaller(Len(d), BUF_SIZE)
  PROVE  /\ k \in Nat /\ k > 0 /\ k <= BUF_SIZE /\ k <= Len(d)
         /\ SubSeq(d, 1, k) \in Seq(Nat) /\ Len(SubSeq(d, 1, k)) = k
         /\ SubSeq(d, k + 1, Len(d)) \in Seq(Nat) /\ Len(SubSeq(d, k + 1, Len(d))) = Len(d) - k
         /\ SubSeq(d, k + 1, Len(d)) # <<>> => k = BUF_SIZE
<1>0. Len(d) \in Nat /\ BUF_SIZE \in Nat \ {0} /\ Len(d) > 0
  <2>1. Len(d) \in Nat \ {0}
    BY EmptySeq
  <2> QED
    BY <2>1, Ext4Assumption
<1>1. /\ k \in Nat /\ k > 0 /\ k <= Len(d) /\ k <= BUF_SIZE /\ (k = Len(d) \/ k = BUF_SIZE)
  BY <1>0 DEF Smaller
<1>2. SubSeq(d, 1, k) \in Seq(Nat) /\ Len(SubSeq(d, 1, k)) = k
  <2>1. PICK a \in Nat : a = 0 /\ a + 1 = 1
    OBVIOUS
  <2>2. a <= k /\ (a < k => k <= Len(d)) /\ k - a = k
    BY <1>0, <1>1, <2>1
  <2>3. SubSeq(d, a + 1, k) \in Seq(Nat) /\ Len(SubSeq(d, a + 1, k)) = k - a
    BY <1>1, <2>2, PieceOf
  <2> QED
    BY <2>1, <2>2, <2>3
<1>3. SubSeq(d, k + 1, Len(d)) \in Seq(Nat) /\ Len(SubSeq(d, k + 1, Len(d))) = Len(d) - k
  <2>1. PICK b \in Nat : b = Len(d)
    BY <1>0
  <2>2. k <= b /\ (k < b => b <= Len(d))
    BY <1>0, <1>1, <2>1
  <2>3. SubSeq(d, k + 1, b) \in Seq(Nat) /\ Len(SubSeq(d, k + 1, b)) = b - k
    BY <1>1, <2>2, PieceOf
  <2> QED
    BY <2>1, <2>3
<1>4. SubSeq(d, k + 1, Len(d)) # <<>> => k = BUF_SIZE
  <2>1. \A q \in Seq(Nat) : q # <<>> => Len(q) \in Nat \ {0}
    BY EmptySeq
  <2>2. SubSeq(d, k + 1, Len(d)) # <<>> => Len(SubSeq(d, k + 1, Len(d))) \in Nat \ {0}
    BY <1>3, <2>1, Zenon
  <2>3. SubSeq(d, k + 1, Len(d)) # <<>> => Len(d) - k \in Nat \ {0}
    BY <1>3, <2>2, Zenon
  <2>4. Len(d) - k \in Nat \ {0} => k = BUF_SIZE
    BY <1>0, <1>1
  <2> QED
    BY <2>3, <2>4, Zenon
<1> QED
  BY <1>1, <1>2, <1>3, <1>4


(* A write at the end that the server object remembers hits only what others    *)
(* wrote since, and holes.                                                     *)
LEMMA AppendSpares ==
  ASSUME Ext4Inv, NEW c \in Clients, handle[c].st = "valid", NEW f \in Seq(Nat), NEW s \in Seq(Nat),
         NEW end, NEW a \in BOOLEAN, a, NEW r, Remembers(r, c, f, s, end, a),
         Over(f, file, handle[c].fsize, s)
  PROVE  r.kept \ r.overrun \subseteq Bytes(f)
<1>1. PICK u : u = hist.unseen[c] /\ \A i \in 1 .. Len(file) : i > handle[c].fsize => file[i] \in u \cup {0}
  BY DEF Ext4Inv, HandleOK
<1>2. r.kept = hist.kept /\ r.overrun = hist.overrun \cup (hist.kept \cap u)
  BY <1>1 DEF Remembers
<1>3. file \in Seq(Nat) /\ 0 \in hist.overrun /\ handle[c].fsize \in Nat
  BY ClientRecords DEF Ext4Inv, Ext4Types, HandleRec
<1>4. Len(file) <= Len(f) /\ Len(file) \in Nat /\ Len(f) \in Nat
  BY <1>3 DEF Over
<1>5. ASSUME NEW x \in r.kept, x \notin r.overrun PROVE x \in Bytes(f)
  <2>1. x \in hist.kept \ hist.overrun /\ x \notin u /\ x # 0
    BY <1>2, <1>3, <1>5
  <2>2. x \in Bytes(file)
    BY <2>1 DEF Ext4Inv, SeenAppendsKept
  <2>3. PICK i \in 1 .. Len(file) : file[i] = x
    BY <1>3, <2>2 DEF Bytes
  <2>4. ~(i > handle[c].fsize)
    BY <1>1, <2>1, <2>3
  <2>5. i <= handle[c].fsize
    BY <1>3, <2>4
  <2>6. f[i] = x
    BY <2>3, <2>5 DEF Over
  <2>7. i \in DOMAIN f
    BY <1>4
  <2> QED
    BY <2>6, <2>7 DEF Bytes
<1> QED
  BY <1>5

(* An RPC of pwritev. *)
LEMMA WriteChunkKeeps ==
  ASSUME Ext4Inv, NEW c \in Clients, write_chunk(c)
  PROVE  Ext4Inv'
<1>0. Ext4Types
  BY DEF Ext4Inv
<1>1. PICK o \in OpRec, q \in HandleRec, g \in Seq(Nat) : o = op[c] /\ q = handle[c] /\ g = file
  BY <1>0, ClientRecords DEF Ext4Types
<1>2. /\ o.kind = "write" /\ CallsOK(o) /\ o.data # <<>> /\ HandleOK(c, q, g, hist) /\ q.st = "valid"
      /\ hist.kept \ hist.overrun \subseteq Bytes(g) /\ 0 \in hist.overrun
  BY <1>1 DEF Ext4Inv, write_chunk, CallsOK, SeenAppendsKept, BusyOK, Ext4Types
<1>3. PICK d \in Seq(Nat), pos \in Nat, n \in Nat, size \in Nat, fs \in Nat :
        d = o.data /\ pos = o.pos /\ n = o.calls /\ size = q.size /\ fs = q.fsize
  BY DEF OpRec, HandleRec
<1>4. PICK a \in BOOLEAN : a = q.append
  BY DEF HandleRec
<1>5. PICK k : k = Smaller(Len(d), BUF_SIZE)
  OBVIOUS
<1>6. d # <<>>
  BY <1>2, <1>3
<1>7. /\ k \in Nat /\ k > 0 /\ k <= BUF_SIZE /\ k <= Len(d)
      /\ SubSeq(d, 1, k) \in Seq(Nat) /\ Len(SubSeq(d, 1, k)) = k
      /\ SubSeq(d, k + 1, Len(d)) \in Seq(Nat) /\ Len(SubSeq(d, k + 1, Len(d))) = Len(d) - k
      /\ SubSeq(d, k + 1, Len(d)) # <<>> => k = BUF_SIZE
  BY <1>5, <1>6, ChunkOf
<1>8. PICK s \in Seq(Nat), r \in Seq(Nat) : s = SubSeq(d, 1, k) /\ r = SubSeq(d, k + 1, Len(d))
  BY <1>7
<1>9. Len(s) = k /\ Len(r) = Len(d) - k /\ (r # <<>> => k = BUF_SIZE)
  BY <1>7, <1>8
<1>10. PICK at \in Nat : at = (IF a THEN fs ELSE pos) /\ (a => at = fs)
  <2>2. CASE a
    BY <2>2
  <2>3. CASE ~a
    BY <2>3
  <2> QED
    BY <2>2, <2>3
<1>11. PICK w \in Written(c, at, s) :
         /\ file' = w.f /\ UNCHANGED <<svr_objs, opens, fresh>>
         /\ \/ /\ w.put > 0
               /\ op' = [op EXCEPT ![c] = IF r = <<>> THEN NoOp
                           ELSE [o EXCEPT !.pos = IF a THEN 0 ELSE at + w.put, !.data = r, !.calls = o.calls + 1]]
               /\ handle' = [handle EXCEPT ![c].size = Larger(@, at + w.put), ![c].fsize = w.end]
               /\ hist' = [Changed(c, w.f, s, w.end, a) EXCEPT !.kept = IF a THEN @ \cup Bytes(s) ELSE @]
            \/ /\ w.put = 0 /\ op' = [op EXCEPT ![c] = NoOp]
               /\ handle' = [handle EXCEPT ![c].fsize = w.end]
               /\ hist' = [Changed(c, w.f, s, w.end, a) EXCEPT !.alone = @ \ {c}]
  <2>1. s = SubSeq(op[c].data, 1, Smaller(Len(op[c].data), BUF_SIZE))
    BY <1>1, <1>3, <1>5, <1>8
  <2>2. r = SubSeq(op[c].data, Len(s) + 1, Len(op[c].data))
    BY <1>1, <1>3, <1>8, <1>9
  <2>3. a = handle[c].append /\ at = IF handle[c].append THEN append_offset(c) ELSE op[c].pos
    BY <1>1, <1>3, <1>4, <1>10 DEF append_offset
  <2> QED
    BY <1>1, <2>1, <2>2, <2>3, ZenonT(60) DEF write_chunk, grown
<1>12. PICK f, put, end : f = w.f /\ put = w.put /\ end = w.end
  OBVIOUS
<1>13. Put(g, at, s, fs, f, put, end)
  BY <1>1, <1>3, <1>11, <1>12, WrittenIs
<1>14. /\ Over(f, g, at, s) /\ f \in Seq(Nat) /\ put \in Nat /\ end \in Nat
       /\ put > 0 => /\ put = Len(s) /\ Len(f) = Larger(Len(g), at + put)
                     /\ Bytes(s) \subseteq Bytes(f) /\ end = Len(f)
       /\ end = Len(f) \/ (f = g /\ end = fs)
  BY <1>13, PutOK
<1>15. PICK v : v = Changed(c, f, s, end, a)
  OBVIOUS
<1>16. Remembers(v, c, f, s, end, a)
  BY <1>0, <1>14, <1>15, ChangedIs
<1>17. v.kept \ v.overrun \subseteq Bytes(f) /\ 0 \in v.overrun
  <2>1. CASE a
    <3>1. Over(f, file, handle[c].fsize, s) /\ handle[c].st = "valid"
      BY <1>1, <1>2, <1>3, <1>10, <1>14, <2>1
    <3>2. v.kept \ v.overrun \subseteq Bytes(f)
      BY <1>14, <1>16, <2>1, <3>1, AppendSpares
    <3> QED
      BY <1>2, <1>16, <2>1, <3>2 DEF Remembers
  <2>2. CASE ~a
    BY <1>1, <1>2, <1>16, <2>2 DEF Remembers
  <2> QED
    BY <2>1, <2>2
<1>18. ASSUME NEW e \in Clients \ {c}, handle[e].st = "valid"
       PROVE  /\ e \in hist.cut \/ Len(f) < Len(file) => e \in v.cut
              /\ e \in v.alone => e \in hist.alone /\ f = file
              /\ Beyond(handle[e], f, v.unseen[e])
  <2>1. \A i \in 1 .. Len(f) : f[i] \in Bytes(s) \cup {0} \/ (i <= Len(file) /\ f[i] = file[i])
    BY <1>1, <1>14 DEF Over
  <2>2. Beyond(handle[e], f, v.unseen[e])
    BY <1>14, <1>16, <1>18, <2>1, OthersSee
  <2> QED
    BY <1>16, <1>18, <2>2 DEF Remembers
<1>19. Len(g) \in Nat /\ Len(f) \in Nat /\ Len(d) \in Nat /\ Len(g) <= Len(f)
  BY <1>14 DEF Over
<1>22. Beyond([fsize |-> end], f, v.unseen[c])
  <2>1. CASE end = Len(f)
    <3>1. \A i \in 1 .. Len(f) : ~(i > end)
      BY <1>14, <1>19, <2>1
    <3> QED
      BY <3>1 DEF Beyond
  <2>2. CASE end # Len(f)
    <3>1. f = g /\ end = fs /\ v.unseen[c] = hist.unseen[c]
      BY <1>14, <1>16, <2>2 DEF Remembers
    <3>2. \A i \in 1 .. Len(g) : i > fs => g[i] \in hist.unseen[c] \cup {0}
      BY <1>2, <1>3 DEF HandleOK
    <3> QED
      BY <3>1, <3>2 DEF Beyond
  <2> QED
    BY <2>1, <2>2
<1>20. CASE put > 0
  <2>1. PICK p : p = IF r = <<>> THEN NoOp
                     ELSE [o EXCEPT !.pos = IF a THEN 0 ELSE at + put, !.data = r, !.calls = n + 1]
    OBVIOUS
  <2>2. op' = [op EXCEPT ![c] = p]
    <3>1. o.calls = n
      BY <1>3
    <3> QED
      BY <1>11, <1>12, <1>20, <2>1, <3>1
  <2>3. p \in OpRec /\ CallsOK(p) /\ ~Reading(p)
    <3>1. CASE r = <<>>
      BY <2>1, <3>1, NoneOK
    <3>2. CASE r # <<>>
      <4>1. PICK x \in Nat, y \in Nat : x = (IF a THEN 0 ELSE at + put) /\ y = n + 1
        BY <1>14
      <4>2. p = [o EXCEPT !.pos = x, !.data = r, !.calls = y]
        BY <2>1, <3>2, <4>1
      <4>3. p \in OpRec /\ p.kind = "write" /\ p.data = r /\ p.calls = y
        BY <1>2, <4>2 DEF OpRec
      <4>4. PICK b \in Nat : b = n * BUF_SIZE /\ y * BUF_SIZE = b + BUF_SIZE /\ y - 1 = n
        BY <4>1, OneCallMore
      <4>5. b + Len(d) <= MaxRw /\ BUF_SIZE \in Nat /\ MaxRw \in Nat
        BY <1>2, <1>3, <4>4, Ext4Assumption DEF CallsOK
      <4>6. k = BUF_SIZE /\ Len(r) = Len(d) - k /\ k > 0 /\ k <= Len(d) /\ k \in Nat
        BY <1>7, <1>9, <3>2
      <4>7. (b + BUF_SIZE) + Len(r) <= MaxRw /\ b < MaxRw
        BY <1>19, <4>5, <4>6
      <4> QED
        BY <3>2, <4>3, <4>4, <4>7 DEF CallsOK, Reading
    <3> QED
      BY <3>1, <3>2
  <2>4. PICK z \in Nat : z = Larger(size, at + put)
    BY <1>14 DEF Larger
  <2>5. PICK h : h = [q EXCEPT !.size = z, !.fsize = end]
    OBVIOUS
  <2>6. h \in HandleRec /\ h.st = "valid" /\ h.size = z /\ h.fsize = end
    BY <1>2, <1>14, <2>5 DEF HandleRec
  <2>7. handle' = [handle EXCEPT ![c] = h]
    <3>0. w.put # 0
      BY <1>12, <1>14, <1>20
    <3>1. handle' = [handle EXCEPT ![c].size = Larger(@, at + put), ![c].fsize = end]
      BY <1>11, <1>12, <3>0
    <3>2. [handle EXCEPT ![c].size = Larger(@, at + put), ![c].fsize = end] =
          [handle EXCEPT ![c] = [handle[c] EXCEPT !.size = Larger(handle[c].size, at + put), !.fsize = end]]
      BY <1>0 DEF Ext4Types, HandleRec
    <3> QED
      BY <1>1, <1>3, <2>4, <2>5, <3>1, <3>2
  <2>8. PICK u : u = IF a THEN v.kept \cup Bytes(s) ELSE v.kept
    OBVIOUS
  <2>9. hist' = [v EXCEPT !.kept = u]
    BY <1>11, <1>12, <1>15, <1>20, <2>8
  <2>10. u \ v.overrun \subseteq Bytes(f)
    BY <1>14, <1>17, <1>20, <2>8
  <2>11. u \in SUBSET Nat
    <3>1. Bytes(s) \in SUBSET Nat /\ v.kept \in SUBSET Nat
      BY <1>16, BytesAreNumbers DEF Remembers, HistRec
    <3> QED
      BY <2>8, <3>1
  <2>12. /\ hist' \in HistRec /\ hist'.stray = v.stray /\ hist'.kept = u /\ hist'.cut = v.cut
         /\ hist'.alone = v.alone /\ hist'.steady = v.steady
         /\ hist'.overrun = v.overrun /\ hist'.unseen = v.unseen
    <3>1. v \in HistRec
      BY <1>16 DEF Remembers
    <3> QED
      BY <2>9, <2>11, <3>1 DEF HistRec
  <2>13. Stores(c, h, p, f)
    <3>1. file' = f /\ UNCHANGED <<svr_objs, fresh>>
      BY <1>11, <1>12
    <3>2. v.stray = hist.stray /\ v.steady \subseteq {e \in hist.steady : Extends(f, file)}
      BY <1>16 DEF Remembers
    <3> QED
      BY <1>17, <1>18, <2>2, <2>7, <2>10, <2>12, <3>1, <3>2 DEF Stores
  <2>14. HandleOK(c, h, f, hist')
    <3>1. /\ size <= Len(g) \/ c \in hist.cut
          /\ c \in hist.alone => size = Len(g)
      BY <1>2, <1>3 DEF HandleOK
    <3>2. Len(f) = Larger(Len(g), at + put) /\ end = Len(f)
      BY <1>14, <1>20
    <3>3. (size <= Len(g) => z <= Len(f)) /\ (size = Len(g) => z = Len(f))
      BY <1>14, <1>19, <2>4, <3>2, SMTT(30) DEF Larger
    <3>4. (c \in hist.cut => c \in hist'.cut) /\ (c \in hist'.alone => c \in hist.alone)
      BY <1>16, <2>12 DEF Remembers
    <3>5. \A i \in 1 .. Len(f) : i > h.fsize => f[i] \in hist'.unseen[c] \cup {0}
      BY <1>22, <2>6, <2>12 DEF Beyond
    <3> QED
      BY <2>6, <3>1, <3>2, <3>3, <3>4, <3>5 DEF HandleOK
  <2>15. BusyOK(p, h)
    BY <2>6 DEF BusyOK
  <2> QED
    BY <1>1, <1>2, <1>14, <2>3, <2>6, <2>13, <2>14, <2>15, StoreKeeps
<1>21. CASE ~(put > 0)
  <2>0. put = 0
    BY <1>14, <1>21
  <2>1. PICK p \in OpRec : p = NoOp /\ CallsOK(p) /\ ~Reading(p)
    BY NoneOK
  <2>2. op' = [op EXCEPT ![c] = p] /\ handle' = [handle EXCEPT ![c].fsize = end]
    BY <1>11, <1>12, <1>21, <2>1
  <2>3. PICK h : h = [q EXCEPT !.fsize = end]
    OBVIOUS
  <2>8. h \in HandleRec /\ h.st = "valid" /\ h.size = size /\ h.fsize = end
    BY <1>2, <1>3, <1>14, <2>3 DEF HandleRec
  <2>9. handle' = [handle EXCEPT ![c] = h] /\ BusyOK(p, h)
    BY <1>1, <2>2, <2>3, <2>8 DEF BusyOK
  <2>4. hist' = [v EXCEPT !.alone = @ \ {c}]
    BY <1>11, <1>12, <1>15, <1>21
  <2>5. /\ hist' \in HistRec /\ hist'.stray = v.stray /\ hist'.kept = v.kept /\ hist'.cut = v.cut
        /\ hist'.alone = v.alone \ {c} /\ hist'.steady = v.steady
        /\ hist'.overrun = v.overrun /\ hist'.unseen = v.unseen
    <3>1. v \in HistRec
      BY <1>16 DEF Remembers
    <3> QED
      BY <2>4, <3>1 DEF HistRec
  <2>6. Stores(c, h, p, f)
    <3>1. file' = f /\ UNCHANGED <<svr_objs, fresh>>
      BY <1>11, <1>12
    <3>2. v.stray = hist.stray /\ v.steady \subseteq {e \in hist.steady : Extends(f, file)}
      BY <1>16 DEF Remembers
    <3> QED
      BY <1>17, <1>18, <2>2, <2>5, <2>9, <3>1, <3>2 DEF Stores
  <2>7. HandleOK(c, h, f, hist')
    <3>1. size <= Len(g) \/ c \in hist.cut
      BY <1>2, <1>3 DEF HandleOK
    <3>2. size <= Len(g) => size <= Len(f)
      BY <1>14, <1>19
    <3>3. (c \in hist.cut => c \in hist'.cut) /\ c \notin hist'.alone
      BY <1>16, <2>5 DEF Remembers
    <3>4. \A i \in 1 .. Len(f) : i > h.fsize => f[i] \in hist'.unseen[c] \cup {0}
      BY <1>22, <2>5, <2>8 DEF Beyond
    <3> QED
      BY <2>8, <3>1, <3>2, <3>3, <3>4 DEF HandleOK
  <2> QED
    BY <1>1, <1>2, <1>14, <2>1, <2>6, <2>7, <2>8, <2>9, StoreKeeps
<1> QED
  BY <1>20, <1>21


-----------------------------------------------------------------------------
(* ext4: the theorems *)

(* Nothing happens. *)
LEMMA Ext4Stutters ==
  ASSUME Ext4Inv, UNCHANGED ext4Vars
  PROVE  Ext4Inv'
BY DEF ext4Vars, Ext4Inv, Ext4Types, SeenAppendsKept, Bytes, ObjectsAccounted, HandleOK, ReadOK, Reading,
       CallsOK, BusyOK

(* Every step keeps the invariant. *)
LEMMA Ext4Step == Ext4Inv /\ [Ext4Next]_ext4Vars => Ext4Inv'
<1> SUFFICES ASSUME Ext4Inv, [Ext4Next]_ext4Vars PROVE Ext4Inv'
  OBVIOUS
<1>1. CASE op_query_partly
  BY <1>1, LookupKeeps
<1>2. ASSUME NEW c \in Clients, op_query(c) PROVE Ext4Inv'
  BY <1>2, LookupKeeps
<1>3. ASSUME NEW c \in Clients, op_setup(c) PROVE Ext4Inv'
  BY <1>3, SetupKeeps
<1>4. ASSUME NEW c \in Clients, op_release(c) \/ client_dies(c) PROVE Ext4Inv'
  BY <1>4, CloseKeeps
<1>0. \A n \in 0 .. MaxOff : n \in Nat
  BY Ext4Assumption
<1>5. ASSUME NEW c \in Clients, NEW off \in 0 .. MaxOff, preadv(c, off, MaxRw) PROVE Ext4Inv'
  BY <1>0, <1>5, BeginKeeps
<1>6. ASSUME NEW c \in Clients, NEW off \in 0 .. MaxOff, NEW n \in 1 .. MaxRw, pwritev(c, off, n)
      PROVE  Ext4Inv'
  BY <1>0, <1>6, BeginKeeps
<1>7. ASSUME NEW c \in Clients, NEW n \in 0 .. MaxOff, ftruncate(c, n) PROVE Ext4Inv'
  BY <1>0, <1>7, TruncateKeeps
<1>8. ASSUME NEW c \in Clients, read_chunk(c) PROVE Ext4Inv'
  BY <1>8, ReadChunkKeeps
<1>9. ASSUME NEW c \in Clients, write_chunk(c) PROVE Ext4Inv'
  BY <1>9, WriteChunkKeeps
<1>10. ASSUME NEW c \in Clients, read_return(c) PROVE Ext4Inv'
  BY <1>10, ReadReturnKeeps
<1>11. CASE UNCHANGED ext4Vars
  BY <1>11, Ext4Stutters
<1> QED
  BY <1>1, <1>2, <1>3, <1>4, <1>5, <1>6, <1>7, <1>8, <1>9, <1>10, <1>11 DEF Ext4Next

(* It is an invariant. *)
LEMMA Ext4Invariance == Ext4Spec => []Ext4Inv
BY Ext4Start, Ext4Step, PTL DEF Ext4Spec

(* What op_pappend guarantees, for any number of clients, any buffer and any   *)
(* interleaving of their RPCs, failed ones included: every byte that it         *)
(* reported is in the file, unless a pwrite or a truncation hit it or a client  *)
(* appended whose server object had not looked at the file since.              *)
THEOREM AppendersSafe == Ext4Spec => []SeenAppendsKept
<1>1. Ext4Inv => SeenAppendsKept
  BY DEF Ext4Inv
<1> QED
  BY <1>1, Ext4Invariance, PTL

(* The size a handle remembers is ahead of the file only if another handle has *)
(* cut it or an ftruncate of its own asked for more or failed halfway; it and   *)
(* the server object's are exact while nobody else changes the file and all    *)
(* goes well.                                                                *)
THEOREM SizesRemembered == Ext4Spec => []CachedSize
<1>1. Ext4Inv => CachedSize
  <2> SUFFICES ASSUME Ext4Inv PROVE CachedSize
    OBVIOUS
  <2>1. \A c \in Clients : HandleOK(c, handle[c], file, hist)
    BY DEF Ext4Inv
  <2> QED
    BY <2>1 DEF HandleOK, CachedSize, SizeNeverAhead, SizeExactAlone
<1> QED
  BY <1>1, Ext4Invariance, PTL

(* The server holds one object for every open handle, and otherwise only what  *)
(* killed clients and half resolved names left: op_release frees each once.    *)
THEOREM ServerObjects == Ext4Spec => []ObjectsAccounted
<1>1. Ext4Inv => ObjectsAccounted
  BY DEF Ext4Inv
<1> QED
  BY <1>1, Ext4Invariance, PTL

(* What a read has, as a piece of the file. *)
LEMMA ReadIsPiece ==
  ASSUME NEW o \in OpRec, NEW f \in Seq(Nat), ReadOK(o, f)
  PROVE  Len(o.data) <= o.pos /\ o.data = SubSeq(f, o.pos - Len(o.data) + 1, o.pos)
<1>1. PICK d \in Seq(Nat), b \in Nat, n \in Nat : d = o.data /\ b = o.pos /\ n = Len(d)
  BY DEF OpRec
<1>2. n <= b /\ b <= Len(f) /\ \A i \in 1 .. n : d[i] = f[b - n + i]
  BY <1>1 DEF ReadOK
<1>3. PICK a \in Nat : a = b - n
  BY <1>2
<1>4. a <= b /\ (a < b => b <= Len(f)) /\ b - a = n
  BY <1>2, <1>3
<1>5. /\ SubSeq(f, a + 1, b) \in Seq(Nat) /\ Len(SubSeq(f, a + 1, b)) = b - a
      /\ \A i \in 1 .. b - a : SubSeq(f, a + 1, b)[i] = f[a + i]
  BY <1>4, PieceOf
<1>6. PICK e \in Seq(Nat) : e = SubSeq(f, a + 1, b)
  BY <1>5
<1>7. Len(e) = n /\ \A i \in 1 .. n : e[i] = d[i]
  BY <1>2, <1>3, <1>4, <1>5, <1>6
<1>8. e = d
  BY <1>1, <1>7, SeqEqual
<1> QED
  BY <1>1, <1>2, <1>3, <1>6, <1>8

(* In every state a read that met only appends has a piece of the file, and    *)
(* no operation has made too many RPCs.                                      *)
LEMMA ReadsWhole == Ext4Inv => ReadNotTorn /\ CallsBounded
<1> SUFFICES ASSUME Ext4Inv, NEW c \in Clients
             PROVE  /\ op[c].kind \in {"read", "did_read"} /\ c \in hist.steady =>
                         Len(op[c].data) <= op[c].pos /\ op[c].data = SubSeq(file, op[c].pos - Len(op[c].data) + 1, op[c].pos)
                    /\ (op[c].calls - 1) * BUF_SIZE < MaxRw
  BY DEF ReadNotTorn, CallsBounded
<1>0. Ext4Types
  BY DEF Ext4Inv
<1>1. PICK o \in OpRec, f \in Seq(Nat) : o = op[c] /\ f = file
  BY <1>0, ClientRecords DEF Ext4Types
<1>2. (Reading(o) /\ c \in hist.steady => ReadOK(o, f)) /\ CallsOK(o)
  BY <1>1 DEF Ext4Inv
<1>3. ReadOK(o, f) => Len(o.data) <= o.pos /\ o.data = SubSeq(f, o.pos - Len(o.data) + 1, o.pos)
  BY ReadIsPiece
<1>4. (o.calls - 1) * BUF_SIZE < MaxRw
  BY <1>2 DEF CallsOK
<1> QED
  BY <1>1, <1>2, <1>3, <1>4 DEF Reading


(* A step that ends no read. *)
LEMMA EndsNoRead ==
  ASSUME Ext4Types, NEW c \in Clients,
         op' = op \/ \E p : op' = [op EXCEPT ![c] = p] /\ (op[c].kind # "read" \/ p.kind # "did_read")
  PROVE  ShortReadIsEOF
<1>0. op \in [Clients -> OpRec]
  BY DEF Ext4Types
<1>1. ASSUME NEW d \in Clients PROVE ~(op[d].kind = "read" /\ op'[d].kind = "did_read")
  <2>1. CASE op' = op
    BY <2>1
  <2>2. ASSUME NEW p, op' = [op EXCEPT ![c] = p], op[c].kind # "read" \/ p.kind # "did_read"
        PROVE  ~(op[d].kind = "read" /\ op'[d].kind = "did_read")
    BY <1>0, <2>2
  <2> QED
    BY <2>1, <2>2
<1> QED
  BY <1>1 DEF ShortReadIsEOF

(* An RPC of preadv ends a read short only at the end of the file. *)
LEMMA ReadEndsAtEnd ==
  ASSUME Ext4Inv, NEW c \in Clients, read_chunk(c)
  PROVE  ShortReadIsEOF
<1>0. Ext4Types
  BY DEF Ext4Inv
<1>1. op[c].kind = "read"
  BY ReadChunkIs
<1>2. PICK o \in OpRec, f \in Seq(Nat) : o = op[c] /\ f = file
  BY <1>0, ClientRecords DEF Ext4Types
<1>3. CallsOK(o) /\ o.kind = "read"
  BY <1>1, <1>2 DEF Ext4Inv
<1>4. CASE op' = [op EXCEPT ![c] = NoOp]
  BY <1>0, <1>4, EndsNoRead, NoneOK
<1>5. ASSUME NEW t \in BytesAt(op[c].pos, Smaller(op[c].want, BUF_SIZE)),
             NEW p, op' = [op EXCEPT ![c] = p], Fetched(op[c], p, t)
      PROVE  ShortReadIsEOF
  <2>1. t \in BytesAt(o.pos, Smaller(o.want, BUF_SIZE)) /\ Fetched(o, p, t)
    BY <1>2, <1>5
  <2>2. p.kind = "did_read" /\ p.want > 0 => Len(f) <= p.pos
    BY <1>2, <1>3, <2>1, FetchedOK
  <2>3. op'[c] = p /\ \A d \in Clients \ {c} : op'[d] = op[d]
    BY <1>0, <1>5 DEF Ext4Types
  <2>4. ASSUME NEW d \in Clients, op[d].kind = "read", op'[d].kind = "did_read", op'[d].want > 0
        PROVE  Len(file) <= op'[d].pos
    <3>1. d = c
      BY <2>3, <2>4
    <3>2. op'[d] = p
      BY <2>3, <3>1
    <3> QED
      BY <1>2, <2>2, <2>4, <3>2
  <2> QED
    BY <2>4 DEF ShortReadIsEOF
<1> QED
  BY <1>4, <1>5, ReadChunkIs

(* Every step. *)
LEMMA ShortReadStep == Ext4Inv /\ [Ext4Next]_ext4Vars => ShortReadIsEOF
<1> SUFFICES ASSUME Ext4Inv, [Ext4Next]_ext4Vars PROVE ShortReadIsEOF
  OBVIOUS
<1>0. Ext4Types
  BY DEF Ext4Inv
<1>1. CASE op' = op
  <2>1. CASE Clients = {}
    BY <2>1 DEF ShortReadIsEOF
  <2>2. CASE Clients # {}
    BY <1>0, <1>1, <2>2, EndsNoRead
  <2> QED
    BY <2>1, <2>2
<1>2. ASSUME NEW c \in Clients, read_chunk(c) PROVE ShortReadIsEOF
  BY <1>2, ReadEndsAtEnd
<1>3. ASSUME NEW c \in Clients, client_dies(c) \/ read_return(c) PROVE ShortReadIsEOF
  <2>1. op' = [op EXCEPT ![c] = NoOp] /\ NoOp.kind # "did_read"
    BY <1>3 DEF client_dies, read_return, NoOp
  <2> QED
    BY <1>0, <2>1, EndsNoRead
<1>4. ASSUME NEW c \in Clients, NEW off, preadv(c, off, MaxRw) \/ \E n \in 1 .. MaxRw : pwritev(c, off, n)
      PROVE  ShortReadIsEOF
  <2>1. op[c].kind # "read" /\ \E p : op' = [op EXCEPT ![c] = p]
    BY <1>4 DEF preadv, pwritev
  <2> QED
    BY <1>0, <2>1, EndsNoRead
<1>5. ASSUME NEW c \in Clients, write_chunk(c) PROVE ShortReadIsEOF
  <2>1. op[c].kind # "read" /\ \E p : op' = [op EXCEPT ![c] = p]
    BY <1>5 DEF write_chunk
  <2> QED
    BY <1>0, <2>1, EndsNoRead
<1>6. ASSUME NEW c \in Clients, NEW n, op_query(c) \/ op_setup(c) \/ op_release(c) \/ ftruncate(c, n)
      PROVE  op' = op
  BY <1>6 DEF op_query, op_setup, op_release, ftruncate
<1>7. op_query_partly \/ UNCHANGED ext4Vars => op' = op
  BY DEF op_query_partly, ext4Vars
<1> QED
  BY <1>1, <1>2, <1>3, <1>4, <1>5, <1>6, <1>7 DEF Ext4Next

(* A read in several RPCs, whatever other clients do to the file between them: *)
(* it is not torn while the file only grows, makes no more RPCs than its bytes fill buffers,  *)
(* and ends short only at the end of the file as it is then, or on an error.   *)
THEOREM ReadsAreSound == Ext4Spec => ReadsSound
<1>1. Ext4Inv /\ Ext4Inv' /\ [Ext4Next]_ext4Vars => [ReadNotTorn' /\ CallsBounded' /\ ShortReadIsEOF]_ext4Vars
  <2>1. Ext4Inv' => (ReadNotTorn /\ CallsBounded)'
    BY ReadsWhole, PTL
  <2> QED
    BY <2>1, ShortReadStep
<1> QED
  BY <1>1, Ext4Invariance, PTL DEF Ext4Spec, ReadsSound


-----------------------------------------------------------------------------
(* tmpfs: buffers *)

(* f is the capacity after each of the first n rounds of the loop in ensure. *)
Doubling(from, need, f, n) ==
  f = [i \in 0 .. n |-> IF i = 0 THEN from ELSE IF f[i - 1] < need THEN 2 * f[i - 1] ELSE f[i - 1]]

(* The loop has such rounds, and the capacity is large enough or grows. *)
LEMMA DoublingRuns ==
  ASSUME NEW from \in Nat \ {0}, NEW need \in Nat, NEW n \in Nat
  PROVE  \E f : Doubling(from, need, f, n)
<1> DEFINE T == {k \in Nat : \E f : Doubling(from, need, f, k)}
<1>1. 0 \in T
  <2>1. Doubling(from, need, [i \in 0 .. 0 |-> from], 0)
    BY DEF Doubling
  <2> QED
    BY <2>1
<1>2. ASSUME NEW k \in T
      PROVE  k + 1 \in T
  <2>1. PICK f : Doubling(from, need, f, k)
    BY <1>2
  <2> DEFINE v == IF f[k] < need THEN 2 * f[k] ELSE f[k]
             g == [i \in 0 .. k + 1 |-> IF i = k + 1 THEN v ELSE f[i]]
             R(i) == IF i = 0 THEN from ELSE IF g[i - 1] < need THEN 2 * g[i - 1] ELSE g[i - 1]
  <2>2. \A i \in 0 .. k : f[i] = IF i = 0 THEN from ELSE IF f[i - 1] < need THEN 2 * f[i - 1] ELSE f[i - 1]
    BY <2>1 DEF Doubling
  <2>3. (\A i \in 0 .. k : g[i] = f[i]) /\ g[k + 1] = v /\ g = [i \in 0 .. k + 1 |-> g[i]]
    <3> HIDE DEF v
    <3> QED
      OBVIOUS
  <2>4. g[k + 1] = R(k + 1)
    <3>1. g[k] = f[k]
      BY <2>3
    <3> HIDE DEF g
    <3> QED
      BY <2>3, <3>1
  <2>5. ASSUME NEW i \in 0 .. k
        PROVE  g[i] = R(i)
    <3> HIDE DEF g
    <3>1. CASE i = 0
      BY <2>2, <2>3, <3>1
    <3>2. CASE i # 0
      <4>1. i - 1 \in 0 .. k
        BY <3>2
      <4> QED
        BY <2>2, <2>3, <3>2, <4>1
    <3> QED
      BY <3>1, <3>2
  <2>6. Doubling(from, need, g, k + 1)
    <3> HIDE DEF g
    <3>1. \A i \in 0 .. k + 1 : g[i] = R(i)
      <4>1. \A i \in 0 .. k + 1 : i = k + 1 \/ i \in 0 .. k
        OBVIOUS
      <4> HIDE DEF R
      <4> QED
        BY <2>4, <2>5, <4>1
    <3> QED
      BY <2>3, <3>1 DEF Doubling
  <2> QED
    BY <2>6
<1>3. T \in SUBSET Nat
  OBVIOUS
<1> HIDE DEF T
<1>4. T = Nat
  BY <1>1, <1>2, <1>3, Induction
<1> QED
  BY <1>4 DEF T

(* After need rounds the capacity is enough. *)
LEMMA DoublingEnough ==
  ASSUME NEW from \in Nat \ {0}, NEW need \in Nat, NEW f, Doubling(from, need, f, need)
  PROVE  f[need] \in Nat /\ f[need] >= need
<1> DEFINE T == {k \in Nat : k <= need => f[k] \in Nat /\ (f[k] >= need \/ f[k] > k)}
<1>0. \A i \in 0 .. need : f[i] = IF i = 0 THEN from ELSE IF f[i - 1] < need THEN 2 * f[i - 1] ELSE f[i - 1]
  BY DEF Doubling
<1>1. 0 \in T
  <2>1. f[0] = from
    BY <1>0
  <2> QED
    BY <2>1
<1>2. ASSUME NEW k \in T
      PROVE  k + 1 \in T
  <2>1. SUFFICES ASSUME k + 1 <= need PROVE f[k + 1] \in Nat /\ (f[k + 1] >= need \/ f[k + 1] > k + 1)
    OBVIOUS
  <2>2. PICK x \in Nat : x = f[k] /\ (x >= need \/ x > k)
    BY <1>2, <2>1
  <2>3. k + 1 \in 0 .. need /\ k + 1 # 0 /\ (k + 1) - 1 = k
    BY <2>1
  <2>4. f[k + 1] = IF x < need THEN 2 * x ELSE x
    BY <1>0, <2>2, <2>3
  <2>5. PICK y \in Nat : y = (IF x < need THEN 2 * x ELSE x) /\ (y >= need \/ y > k + 1)
    <3>1. CASE x < need
      BY <2>2, <3>1
    <3>2. CASE ~(x < need)
      BY <2>2, <3>2
    <3> QED
      BY <3>1, <3>2
  <2> QED
    BY <2>4, <2>5
<1>3. T \in SUBSET Nat
  OBVIOUS
<1> HIDE DEF T
<1>4. need \in T
  BY <1>1, <1>2, <1>3, Induction
<1>5. f[need] \in Nat /\ (f[need] >= need \/ f[need] > need)
  BY <1>4 DEF T
<1> QED
  BY <1>5

(* The capacity that ensure asks for is enough. *)
LEMMA NewCapEnough ==
  ASSUME NEW have \in Nat, NEW need \in Nat
  PROVE  NewCap(have, need) \in Nat /\ NewCap(have, need) >= need
<1>1. PICK from \in Nat \ {0} : from = IF have = 0 THEN MinCap ELSE have
  BY TmpfsFileAssumption
<1> DEFINE ncap[i \in 0 .. need] == IF i = 0 THEN IF have = 0 THEN MinCap ELSE have
                                    ELSE IF ncap[i - 1] < need THEN 2 * ncap[i - 1] ELSE ncap[i - 1]
<1>2. Doubling(from, need, ncap, need)
  <2>1. PICK f : Doubling(from, need, f, need)
    BY DoublingRuns
  <2>2. f = [i \in 0 .. need |-> IF i = 0 THEN IF have = 0 THEN MinCap ELSE have
                                 ELSE IF f[i - 1] < need THEN 2 * f[i - 1] ELSE f[i - 1]]
    BY <1>1, <2>1, Zenon DEF Doubling
  <2>3. \E g : g = [i \in 0 .. need |-> IF i = 0 THEN IF have = 0 THEN MinCap ELSE have
                                        ELSE IF g[i - 1] < need THEN 2 * g[i - 1] ELSE g[i - 1]]
    BY <2>2, Zenon
  <2>4. ncap = [i \in 0 .. need |-> IF i = 0 THEN IF have = 0 THEN MinCap ELSE have
                                    ELSE IF ncap[i - 1] < need THEN 2 * ncap[i - 1] ELSE ncap[i - 1]]
    BY <2>3, Zenon
  <2> HIDE DEF ncap
  <2> QED
    BY <1>1, <2>4, Zenon DEF Doubling
<1>3. NewCap(have, need) = ncap[need]
  BY DEF NewCap
<1> HIDE DEF ncap
<1>4. ncap[need] \in Nat /\ ncap[need] >= need
  BY <1>2, DoublingEnough
<1> QED
  BY <1>3, <1>4


InoRec == [ref : Nat, data : Seq(Nat), size : Nat]

(* ensure gives a buffer that is long enough and begins with the old one. *)
LEMMA EnsureIs ==
  ASSUME NEW b \in Seq(Nat), NEW need \in Nat, NEW buf \in ensure(b, need)
  PROVE  /\ buf \in Seq(Nat) /\ Len(b) <= Len(buf) /\ need <= Len(buf)
         /\ \A i \in 1 .. Len(b) : buf[i] = b[i]
<1>0. Len(b) \in Nat
  OBVIOUS
<1>1. CASE need <= Len(b)
  <2>1. buf = b
    BY <1>1 DEF ensure
  <2> QED
    BY <1>0, <1>1, <2>1
<1>2. CASE ~(need <= Len(b))
  <2>1. PICK c \in Nat : c = NewCap(Len(b), need) /\ c >= need
    BY <1>0, NewCapEnough
  <2>2. PICK m \in Nat : m = c - Len(b)
    BY <1>0, <1>2, <2>1
  <2>3. PICK new \in [1 .. m -> Junk] : buf = b \o new
    BY <1>2, <2>1, <2>2 DEF ensure
  <2>4. new \in [1 .. m -> Nat]
    <3>1. Junk \subseteq Nat
      BY DEF Junk
    <3> QED
      BY <3>1
  <2>5. new \in Seq(Nat)
    BY <2>4, SeqDef
  <2>6. DOMAIN new = 1 .. m
    BY <2>4
  <2>7. Len(new) = m
    BY <2>5, <2>6
  <2>8. /\ b \o new \in Seq(Nat) /\ Len(b \o new) = Len(b) + Len(new)
        /\ \A i \in 1 .. Len(b) : (b \o new)[i] = b[i]
    BY <2>5, JoinOf
  <2>9. Len(b) + m = c
    BY <1>0, <2>2
  <2>10. buf \in Seq(Nat) /\ Len(buf) = c /\ \A i \in 1 .. Len(b) : buf[i] = b[i]
    BY <2>3, <2>7, <2>8, <2>9
  <2> QED
    BY <1>0, <1>2, <2>1, <2>2, <2>10, SMTT(30)
<1> QED
  BY <1>1, <1>2

(* The hole beyond the old end is cleared, and nothing else. *)
LEMMA HoleIs ==
  ASSUME NEW b \in Seq(Nat), NEW size \in Nat, NEW off \in Nat, NEW g, g = HoleZeroed(b, size, off)
  PROVE  /\ g \in Seq(Nat) /\ Len(g) = Len(b)
         /\ \A i \in 1 .. Len(b) : g[i] = IF i > size /\ i <= off THEN 0 ELSE b[i]
<1>0. Len(b) \in Nat /\ DOMAIN b = 1 .. Len(b)
  OBVIOUS
<1>1. CASE off > size
  <2>1. g = [i \in 1 .. Len(b) |-> IF i > size /\ i <= off THEN 0 ELSE b[i]]
    BY <1>0, <1>1 DEF HoleZeroed, Fill, Zero
  <2>2. \A i \in 1 .. Len(b) : b[i] \in Nat
    OBVIOUS
  <2>3. g \in [1 .. Len(b) -> Nat] /\ \A i \in 1 .. Len(b) : g[i] = IF i > size /\ i <= off THEN 0 ELSE b[i]
    BY <2>1, <2>2
  <2>4. PICK q : q = g /\ q \in [1 .. Len(b) -> Nat]
    BY <2>3
  <2>5. q \in Seq(Nat) /\ DOMAIN q = 1 .. Len(b)
    BY <1>0, <2>4, SeqDef
  <2>6. Len(q) = Len(b)
    BY <1>0, <2>5
  <2> QED
    BY <2>3, <2>4, <2>5, <2>6
<1>2. CASE ~(off > size)
  <2>1. g = b
    BY <1>2 DEF HoleZeroed
  <2>2. ASSUME NEW i \in 1 .. Len(b) PROVE ~(i > size /\ i <= off)
    BY <1>0, <1>2
  <2> QED
    BY <2>1, <2>2
<1> QED
  BY <1>1, <1>2

(* Bytes off + 1 .. to of a buffer replaced by those of s. *)
LEMMA FillIs ==
  ASSUME NEW b \in Seq(Nat), NEW off \in Nat, NEW s \in Seq(Nat), NEW g,
         g = [i \in DOMAIN b |-> IF i > off /\ i <= off + Len(s) THEN s[i - off] ELSE b[i]]
  PROVE  /\ g \in Seq(Nat) /\ Len(g) = Len(b)
         /\ \A i \in 1 .. Len(b) : g[i] = IF i > off /\ i <= off + Len(s) THEN s[i - off] ELSE b[i]
<1>0. Len(b) \in Nat /\ DOMAIN b = 1 .. Len(b) /\ Len(s) \in Nat
  OBVIOUS
<1>1. ASSUME NEW i \in 1 .. Len(b)
      PROVE  (IF i > off /\ i <= off + Len(s) THEN s[i - off] ELSE b[i]) \in Nat
  <2>1. CASE i > off /\ i <= off + Len(s)
    <3>1. i - off \in 1 .. Len(s)
      BY <1>0, <2>1
    <3> QED
      BY <2>1, <3>1
  <2>2. CASE ~(i > off /\ i <= off + Len(s))
    BY <2>2
  <2> QED
    BY <2>1, <2>2
<1>2. g \in [1 .. Len(b) -> Nat] /\ \A i \in 1 .. Len(b) : g[i] = IF i > off /\ i <= off + Len(s) THEN s[i - off] ELSE b[i]
  BY <1>0, <1>1
<1>3. PICK q : q = g /\ q \in [1 .. Len(b) -> Nat]
  BY <1>2
<1>4. q \in Seq(Nat) /\ DOMAIN q = 1 .. Len(b)
  BY <1>0, <1>3, SeqDef
<1>5. Len(q) = Len(b)
  BY <1>0, <1>4
<1> QED
  BY <1>2, <1>3, <1>4, <1>5

(* What pwrite makes of an inode: its references stay, and its bytes are the    *)
(* new ones, the old ones, and zero between.                                  *)
LEMMA PwriteIs ==
  ASSUME NEW ino \in InoRec, ino.size <= Len(ino.data), NEW off \in Nat, NEW s \in Seq(Nat),
         NEW new \in pwrite(ino, off, s)
  PROVE  /\ new \in InoRec /\ new.ref = ino.ref /\ new.size <= Len(new.data)
         /\ new.size = (IF off + Len(s) > ino.size THEN off + Len(s) ELSE ino.size)
         /\ \A i \in 1 .. new.size : new.data[i] =
              IF i > off /\ i <= off + Len(s) THEN s[i - off]
              ELSE IF i <= ino.size THEN ino.data[i] ELSE 0
<1>0. PICK d \in Seq(Nat), size \in Nat, n \in Nat, l \in Nat :
        d = ino.data /\ size = ino.size /\ n = Len(s) /\ l = Len(d)
  BY DEF InoRec
<1>1. PICK buf \in ensure(d, off + n) :
        new = [ino EXCEPT !.data = [i \in DOMAIN HoleZeroed(buf, size, off) |->
                            IF i > off /\ i <= off + n THEN s[i - off] ELSE HoleZeroed(buf, size, off)[i]],
                          !.size = IF off + n > size THEN off + n ELSE size]
  <2>1. PICK buf \in ensure(ino.data, off + Len(s)) :
          new = [ino EXCEPT !.data = [i \in DOMAIN HoleZeroed(buf, ino.size, off) |->
                              IF i > off /\ i <= off + Len(s) THEN s[i - off] ELSE HoleZeroed(buf, ino.size, off)[i]],
                            !.size = IF off + Len(s) > ino.size THEN off + Len(s) ELSE ino.size]
    BY Zenon DEF pwrite, Fill
  <2> QED
    BY <1>0, <2>1
<1>2. off + n \in Nat
  OBVIOUS
<1>3. /\ buf \in Seq(Nat) /\ Len(d) <= Len(buf) /\ off + n <= Len(buf)
      /\ \A i \in 1 .. Len(d) : buf[i] = d[i]
  BY <1>2, EnsureIs
<1>4. PICK g : g = HoleZeroed(buf, size, off)
  OBVIOUS
<1>5. /\ g \in Seq(Nat) /\ Len(g) = Len(buf)
      /\ \A i \in 1 .. Len(buf) : g[i] = IF i > size /\ i <= off THEN 0 ELSE buf[i]
  BY <1>3, <1>4, HoleIs
<1>6. PICK e : e = [i \in DOMAIN g |-> IF i > off /\ i <= off + Len(s) THEN s[i - off] ELSE g[i]]
  OBVIOUS
<1>7. /\ e \in Seq(Nat) /\ Len(e) = Len(g)
      /\ \A i \in 1 .. Len(g) : e[i] = IF i > off /\ i <= off + Len(s) THEN s[i - off] ELSE g[i]
  BY <1>5, <1>6, FillIs
<1>8. PICK z \in Nat : z = IF off + n > size THEN off + n ELSE size
  BY <1>2
<1>9. new = [ino EXCEPT !.data = e, !.size = z]
  BY <1>0, <1>1, <1>4, <1>6, <1>8
<1>10. new \in InoRec /\ new.ref = ino.ref /\ new.data = e /\ new.size = z
  BY <1>7, <1>9 DEF InoRec
<1>11. PICK m \in Nat : m = Len(buf) /\ m = Len(e) /\ l <= m /\ off + n <= m
  BY <1>0, <1>3, <1>5, <1>7
<1>12. z <= m
  BY <1>0, <1>8, <1>11
<1>13. ASSUME NEW i \in 1 .. z
       PROVE  e[i] = IF i > off /\ i <= off + n THEN s[i - off] ELSE IF i <= size THEN d[i] ELSE 0
  <2>1. i \in 1 .. m
    BY <1>12
  <2>2. e[i] = IF i > off /\ i <= off + n THEN s[i - off] ELSE g[i]
    BY <1>0, <1>5, <1>7, <1>11, <2>1
  <2>3. CASE i > off /\ i <= off + n
    BY <2>2, <2>3
  <2>4. CASE ~(i > off /\ i <= off + n)
    <3>1. e[i] = IF i > size /\ i <= off THEN 0 ELSE buf[i]
      BY <1>5, <1>11, <2>1, <2>2, <2>4
    <3>2. CASE i <= size
      <4>1. i \in 1 .. Len(d) /\ ~(i > size)
        BY <1>0, <3>2
      <4> QED
        BY <1>3, <2>4, <3>1, <3>2, <4>1
    <3>3. CASE ~(i <= size)
      <4>1. i > size /\ i <= off
        BY <1>8, <2>4, <3>3
      <4> QED
        BY <2>4, <3>1, <3>3, <4>1
    <3> QED
      BY <3>2, <3>3
  <2> QED
    BY <2>3, <2>4
<1>14. new.size <= Len(new.data)
  BY <1>10, <1>11, <1>12
<1>15. new.size = IF off + Len(s) > ino.size THEN off + Len(s) ELSE ino.size
  BY <1>0, <1>8, <1>10
<1> QED
  BY <1>0, <1>10, <1>13, <1>14, <1>15

(* What truncate makes of an inode. *)
LEMMA TruncateIs ==
  ASSUME NEW ino \in InoRec, ino.size <= Len(ino.data), NEW n \in Nat, NEW new \in truncate(ino, n)
  PROVE  /\ new \in InoRec /\ new.ref = ino.ref /\ new.size <= Len(new.data) /\ new.size = n
         /\ \A i \in 1 .. n : new.data[i] = IF i <= ino.size THEN ino.data[i] ELSE 0
<1>0. PICK d \in Seq(Nat), size \in Nat, l \in Nat : d = ino.data /\ size = ino.size /\ l = Len(d) /\ size <= l
  BY DEF InoRec
<1>1. PICK buf \in IF n > size THEN ensure(d, n) ELSE {d} :
        new = [ino EXCEPT !.data = HoleZeroed(buf, size, n), !.size = n]
  BY <1>0 DEF truncate
<1>2. /\ buf \in Seq(Nat) /\ n <= Len(buf) /\ Len(d) <= Len(buf) /\ \A i \in 1 .. Len(d) : buf[i] = d[i]
  <2>1. CASE n > size
    <3>1. buf \in ensure(d, n)
      BY <1>1, <2>1
    <3> QED
      BY <3>1, EnsureIs
  <2>2. CASE ~(n > size)
    <3>1. buf = d
      BY <1>1, <2>2
    <3> QED
      BY <1>0, <2>2, <3>1
  <2> QED
    BY <2>1, <2>2
<1>3. PICK g : g = HoleZeroed(buf, size, n)
  OBVIOUS
<1>4. /\ g \in Seq(Nat) /\ Len(g) = Len(buf)
      /\ \A i \in 1 .. Len(buf) : g[i] = IF i > size /\ i <= n THEN 0 ELSE buf[i]
  BY <1>2, <1>3, HoleIs
<1>5. new \in InoRec /\ new.ref = ino.ref /\ new.data = g /\ new.size = n
  <2>1. new = [ino EXCEPT !.data = g, !.size = n]
    BY <1>1, <1>3
  <2> QED
    BY <1>4, <2>1 DEF InoRec
<1>6. PICK m \in Nat : m = Len(buf) /\ n <= m /\ l <= m
  BY <1>0, <1>2
<1>7. ASSUME NEW i \in 1 .. n PROVE g[i] = IF i <= size THEN d[i] ELSE 0
  <2>1. i \in 1 .. m
    BY <1>6
  <2>2. g[i] = IF i > size /\ i <= n THEN 0 ELSE buf[i]
    BY <1>4, <1>6, <2>1
  <2>3. CASE i <= size
    <3>1. i \in 1 .. Len(d) /\ ~(i > size)
      BY <1>0, <2>3
    <3> QED
      BY <1>2, <2>2, <2>3, <3>1
  <2>4. CASE ~(i <= size)
    <3>1. i > size /\ i <= n
      BY <2>4
    <3> QED
      BY <2>2, <2>4, <3>1
  <2> QED
    BY <2>3, <2>4
<1>8. new.size <= Len(new.data)
  BY <1>4, <1>5, <1>6
<1> QED
  BY <1>0, <1>5, <1>7, <1>8


-----------------------------------------------------------------------------
(* tmpfs: how long inodes live *)

FdRec    == [ino : 0 .. MaxInodes, append : BOOLEAN]
Users(i) == {h \in Handles : fd[h].ino = i}
Named(i) == IF entry = i THEN 1 ELSE 0

(* An inode's size is within its buffer, it is blank once nobody refers to it, *)
(* and its references are counted.                                          *)
InodeOK(i) ==
  /\ inode[i].size <= Len(inode[i].data) /\ (inode[i].ref = 0 => inode[i] = NoInode)
  /\ inode[i].ref = Cardinality(Users(i)) + Named(i)

TmpInv ==
  /\ inode \in [Inodes -> InoRec] /\ fd \in [Handles -> FdRec]
  /\ made \in 0 .. MaxInodes /\ entry \in 0 .. made /\ \A h \in Handles : fd[h].ino <= made
  /\ \A i \in Inodes : InodeOK(i)

(* The handles on an inode are finitely many. *)
LEMMA UsersFinite ==
  ASSUME NEW i
  PROVE  /\ IsFiniteSet(Users(i)) /\ Cardinality(Users(i)) \in Nat
         /\ \A h \in Handles : fd[h].ino = i => Cardinality(Users(i)) > 0
         /\ (\A h \in Handles : fd[h].ino # i) => Cardinality(Users(i)) = 0
<1>1. IsFiniteSet(Users(i))
  BY TmpfsFileAssumption, FS_Subset DEF Users
<1>2. Cardinality(Users(i)) \in Nat /\ (Cardinality(Users(i)) = 0 <=> Users(i) = {})
  BY <1>1, FS_CardinalityType, FS_EmptySet
<1>3. ASSUME NEW h \in Handles, fd[h].ino = i PROVE Cardinality(Users(i)) > 0
  <2>1. Users(i) # {}
    BY <1>3 DEF Users
  <2> QED
    BY <1>2, <2>1
<1>4. ASSUME \A h \in Handles : fd[h].ino # i PROVE Cardinality(Users(i)) = 0
  <2>1. Users(i) = {}
    BY <1>4 DEF Users
  <2> QED
    BY <1>2, <2>1
<1> QED
  BY <1>1, <1>2, <1>3, <1>4

(* The handles on inode i when h goes from another inode to v. *)
LEMMA UsersAfter ==
  ASSUME fd \in [Handles -> FdRec], NEW h \in Handles, NEW v \in FdRec, fd' = [fd EXCEPT ![h] = v], NEW i
  PROVE  /\ fd' \in [Handles -> FdRec]
         /\ fd[h].ino # i /\ v.ino = i => Cardinality(Users(i)') = Cardinality(Users(i)) + 1
         /\ fd[h].ino = i /\ v.ino # i => Cardinality(Users(i)') = Cardinality(Users(i)) - 1
         /\ fd[h].ino # i /\ v.ino # i => Users(i)' = Users(i)
<1>0. PICK A, B : A = Users(i) /\ B = Users(i)'
  OBVIOUS
<1>1. IsFiniteSet(A)
  BY <1>0, UsersFinite
<1>2. /\ fd' \in [Handles -> FdRec] /\ fd'[h] = v /\ \A x \in Handles \ {h} : fd'[x] = fd[x]
  OBVIOUS
<1>3. /\ A \subseteq Handles /\ B \subseteq Handles /\ \A x \in Handles \ {h} : x \in B <=> x \in A
      /\ (h \in A <=> fd[h].ino = i) /\ (h \in B <=> v.ino = i)
  BY <1>0, <1>2 DEF Users
<1>4. ASSUME h \notin A, h \in B PROVE Cardinality(B) = Cardinality(A) + 1
  <2>1. B = A \cup {h}
    BY <1>3, <1>4
  <2> QED
    BY <1>1, <1>4, <2>1, FS_AddElement
<1>5. ASSUME h \in A, h \notin B PROVE Cardinality(B) = Cardinality(A) - 1
  <2>1. B = A \ {h}
    BY <1>3, <1>5
  <2> QED
    BY <1>1, <1>5, <2>1, FS_RemoveElement
<1>6. ASSUME h \notin A, h \notin B PROVE A = B
  BY <1>3, <1>6
<1> QED
  BY <1>0, <1>2, <1>3, <1>4, <1>5, <1>6

(* One inode changes, and the others keep their references. *)
LEMMA InodeAfter ==
  ASSUME TmpInv, NEW k \in Inodes, NEW new \in InoRec, inode' = [inode EXCEPT ![k] = new],
         new.size <= Len(new.data), new.ref = 0 => new = NoInode,
         new.ref = Cardinality(Users(k)') + Named(k)',
         fd' \in [Handles -> FdRec], made' \in 0 .. MaxInodes, entry' \in 0 .. made',
         \A h \in Handles : fd'[h].ino <= made',
         \A i \in Inodes \ {k} : Users(i)' = Users(i) /\ Named(i)' = Named(i)
  PROVE  TmpInv'
<1>1. /\ inode' \in [Inodes -> InoRec] /\ inode'[k] = new /\ \A i \in Inodes \ {k} : inode'[i] = inode[i]
  BY DEF TmpInv
<1>2. ASSUME NEW i \in Inodes PROVE InodeOK(i)'
  <2>1. CASE i = k
    BY <1>1, <2>1 DEF InodeOK
  <2>2. CASE i # k
    <3>1. inode'[i] = inode[i] /\ Users(i)' = Users(i) /\ Named(i)' = Named(i)
      BY <1>1, <2>2
    <3>2. InodeOK(i)
      BY DEF TmpInv
    <3> QED
      BY <3>1, <3>2 DEF InodeOK
  <2> QED
    BY <2>1, <2>2
<1> QED
  BY <1>1, <1>2 DEF TmpInv

(* Before the first file. *)
LEMMA TmpStart == TmpfsFileInit => TmpInv
<1> SUFFICES ASSUME TmpfsFileInit PROVE TmpInv
  OBVIOUS
<1>1. NoInode \in InoRec /\ Closed \in FdRec /\ NoInode.ref = 0 /\ NoInode.size = 0 /\ Len(NoInode.data) = 0 /\ Closed.ino = 0
  BY TmpfsFileAssumption DEF NoInode, Closed, InoRec, FdRec
<1>2. /\ inode = [i \in Inodes |-> NoInode] /\ entry = 0 /\ made = 0 /\ fd = [h \in Handles |-> Closed]
  BY DEF TmpfsFileInit
<1>3. ASSUME NEW i \in Inodes PROVE InodeOK(i)
  <2>1. i # 0 /\ inode[i] = NoInode
    BY <1>2 DEF Inodes
  <2>2. Cardinality(Users(i)) = 0
    BY <1>1, <1>2, <2>1, UsersFinite
  <2>3. Named(i) = 0
    BY <1>2, <2>1 DEF Named
  <2> QED
    BY <1>1, <2>1, <2>2, <2>3 DEF InodeOK
<1> QED
  BY <1>1, <1>2, <1>3, TmpfsFileAssumption DEF TmpInv


-----------------------------------------------------------------------------
(* tmpfs: what readers see *)

(* The bytes of an inode that can be read. *)
LEMMA VisibleIs ==
  ASSUME NEW ino \in InoRec, ino.size <= Len(ino.data)
  PROVE  /\ Visible(ino) \in Seq(Nat) /\ Len(Visible(ino)) = ino.size
         /\ \A i \in 1 .. ino.size : Visible(ino)[i] = ino.data[i]
<1>1. PICK d \in Seq(Nat), b \in Nat, a \in Nat : d = ino.data /\ b = ino.size /\ a = 0 /\ a + 1 = 1
  BY DEF InoRec
<1>2. a <= b /\ (a < b => b <= Len(d)) /\ b - a = b /\ \A i \in 1 .. b : a + i = i
  BY <1>1
<1>3. /\ SubSeq(d, a + 1, b) \in Seq(Nat) /\ Len(SubSeq(d, a + 1, b)) = b - a
      /\ \A i \in 1 .. b - a : SubSeq(d, a + 1, b)[i] = d[a + i]
  BY <1>2, PieceOf
<1>4. Visible(ino) = SubSeq(d, a + 1, b)
  BY <1>1 DEF Visible
<1> QED
  BY <1>1, <1>2, <1>3, <1>4

(* Two byte sequences that agree in every place, one of them given as a function. *)
LEMMA SameBytes ==
  ASSUME NEW v \in Seq(Nat), NEW m \in Nat, Len(v) = m, NEW f \in [1 .. m -> Nat],
         \A i \in 1 .. m : v[i] = f[i]
  PROVE  v = f
<1>1. v \in [1 .. m -> Nat]
  OBVIOUS
<1> QED
  BY <1>1

(* truncate, seen by readers: cut off, or longer by zeroes. *)
LEMMA TruncatedVisible ==
  ASSUME NEW ino \in InoRec, ino.size <= Len(ino.data), NEW n \in Nat, NEW new \in truncate(ino, n)
  PROVE  Visible(new) = Abstract!Padded(Visible(ino), n)
<1>1. /\ new \in InoRec /\ new.size <= Len(new.data) /\ new.size = n
      /\ \A i \in 1 .. n : new.data[i] = IF i <= ino.size THEN ino.data[i] ELSE 0
  BY TruncateIs
<1>2. PICK v \in Seq(Nat) : v = Visible(new) /\ Len(v) = n /\ \A i \in 1 .. n : v[i] = new.data[i]
  BY <1>1, VisibleIs
<1>3. PICK o \in Seq(Nat), z \in Nat : /\ o = Visible(ino) /\ z = ino.size /\ Len(o) = z
                                       /\ \A i \in 1 .. z : o[i] = ino.data[i]
  BY VisibleIs DEF InoRec
<1>4. PICK f : f = [i \in 1 .. n |-> IF i <= z THEN o[i] ELSE 0]
  OBVIOUS
<1>5. f = Abstract!Padded(Visible(ino), n)
  BY <1>3, <1>4 DEF Abstract!Padded
<1>6. DOMAIN f = 1 .. n /\ f = [i \in DOMAIN f |-> f[i]] /\ \A i \in 1 .. n : f[i] = IF i <= z THEN o[i] ELSE 0
  BY <1>4
<1>7. ASSUME NEW i \in 1 .. n PROVE v[i] = f[i]
  <2>1. v[i] = IF i <= z THEN ino.data[i] ELSE 0
    BY <1>1, <1>2, <1>3
  <2>2. i <= z => i \in 1 .. z
    OBVIOUS
  <2>3. i <= z => o[i] = ino.data[i]
    BY <1>3, <2>2
  <2> QED
    BY <1>6, <2>1, <2>3
<1>9. f \in [1 .. n -> Nat]
  <2>1. \A i \in 1 .. n : f[i] \in Nat
    BY <1>2, <1>7
  <2> QED
    BY <1>6, <2>1
<1>8. v = f
  BY <1>2, <1>7, <1>9, SameBytes
<1> QED
  BY <1>2, <1>5, <1>8

(* pwrite, seen by readers: the bytes replaced, after zeroes for a hole. *)
LEMMA WrittenVisible ==
  ASSUME NEW ino \in InoRec, ino.size <= Len(ino.data), NEW off \in Nat, NEW s \in Seq(Nat),
         NEW new \in pwrite(ino, off, s)
  PROVE  Visible(new) = Abstract!Replaced(Visible(ino), off, s)
<1>0. PICK l \in Nat, e \in Nat : l = Len(s) /\ e = off + l
  OBVIOUS
<1>1. /\ new \in InoRec /\ new.size <= Len(new.data)
      /\ new.size = (IF off + Len(s) > ino.size THEN off + Len(s) ELSE ino.size)
      /\ \A i \in 1 .. new.size : new.data[i] =
           IF i > off /\ i <= off + Len(s) THEN s[i - off]
           ELSE IF i <= ino.size THEN ino.data[i] ELSE 0
  BY PwriteIs
<1>2. PICK o \in Seq(Nat), z \in Nat : /\ o = Visible(ino) /\ z = ino.size /\ Len(o) = z
                                       /\ \A i \in 1 .. z : o[i] = ino.data[i]
  BY VisibleIs DEF InoRec
<1>3. PICK m \in Nat : m = new.size
  BY <1>1 DEF InoRec
<1>4. m = IF e > z THEN e ELSE z
  BY <1>0, <1>1, <1>2, <1>3
<1>5. PICK v \in Seq(Nat) : v = Visible(new) /\ Len(v) = m /\ \A i \in 1 .. m : v[i] = new.data[i]
  BY <1>1, <1>3, VisibleIs
<1>6. PICK long : long = IF e > z THEN [i \in 1 .. e |-> IF i <= z THEN o[i] ELSE 0] ELSE o
  OBVIOUS
<1>7. DOMAIN long = 1 .. m /\ \A i \in 1 .. m : long[i] = IF i <= z THEN o[i] ELSE 0
  <2>1. CASE e > z
    BY <1>4, <1>6, <2>1
  <2>2. CASE ~(e > z)
    <3>1. long = o /\ m = z /\ \A i \in 1 .. m : i <= z
      BY <1>4, <1>6, <2>2
    <3> QED
      BY <1>2, <3>1
  <2> QED
    BY <2>1, <2>2
<1>8. PICK f : f = [i \in DOMAIN long |-> IF i > off /\ i <= e THEN s[i - off] ELSE long[i]]
  OBVIOUS
<1>9. f = Abstract!Replaced(Visible(ino), off, s)
  BY <1>0, <1>2, <1>6, <1>8 DEF Abstract!Replaced, Abstract!Padded
<1>10. /\ DOMAIN f = 1 .. m /\ f = [i \in DOMAIN f |-> f[i]]
       /\ \A i \in 1 .. m : f[i] = IF i > off /\ i <= e THEN s[i - off] ELSE long[i]
  BY <1>7, <1>8
<1>11. ASSUME NEW i \in 1 .. m PROVE v[i] = f[i]
  <2>1. v[i] = IF i > off /\ i <= e THEN s[i - off] ELSE IF i <= z THEN ino.data[i] ELSE 0
    BY <1>0, <1>1, <1>2, <1>3, <1>5
  <2>2. f[i] = IF i > off /\ i <= e THEN s[i - off] ELSE IF i <= z THEN o[i] ELSE 0
    BY <1>7, <1>10
  <2>3. i <= z => i \in 1 .. z
    OBVIOUS
  <2>4. i <= z => o[i] = ino.data[i]
    BY <1>2, <2>3
  <2> QED
    BY <2>1, <2>2, <2>4
<1>13. f \in [1 .. m -> Nat]
  <2>1. \A i \in 1 .. m : f[i] \in Nat
    BY <1>5, <1>11
  <2> QED
    BY <1>10, <2>1
<1>12. v = f
  BY <1>5, <1>11, <1>13, SameBytes
<1> QED
  BY <1>5, <1>9, <1>12

(* What may become of an inode, seen by readers. *)
Effect(old, new) ==
  \/ (new.ref > 0 <=> old.ref > 0) /\ Visible(new) = Visible(old)
  \/ old.ref = 0 /\ new.ref > 0 /\ Visible(new) = Visible(old)
  \/ old.ref > 0 /\ new.ref = 0 /\ Visible(new) = <<>>
  \/ /\ old.ref > 0 /\ new.ref > 0
     /\ \E n \in 0 .. MaxSize :
          \/ Visible(new) = Abstract!Padded(Visible(old), n)
          \/ \E s \in Data : Visible(new) = Abstract!Replaced(Visible(old), n, s)

(* It is what a program may expect of a file. *)
LEMMA EffectIsPosix ==
  ASSUME inode \in [Inodes -> InoRec], NEW k \in Inodes, NEW new \in InoRec,
         inode' = [inode EXCEPT ![k] = new], Effect(inode[k], new)
  PROVE  [Abstract!PosixNext]_(Abstract!posixVars)
<1>0. PICK old \in InoRec : old = inode[k]
  OBVIOUS
<1>1. PICK vo, vn : vo = Visible(old) /\ vn = Visible(new)
  OBVIOUS
<1>2. /\ ReadBack[k] = vo /\ ReadBack' = [ReadBack EXCEPT ![k] = vn]
      /\ ReadBack = [ReadBack EXCEPT ![k] = vo]
  <2>1. inode' = [i \in Inodes |-> IF i = k THEN new ELSE inode[i]]
    OBVIOUS
  <2>2. ReadBack' = [i \in Inodes |-> Visible(inode'[i])]
    BY DEF ReadBack, Visible
  <2>3. ReadBack' = [i \in Inodes |-> IF i = k THEN vn ELSE Visible(inode[i])]
    BY <1>1, <2>1, <2>2
  <2> QED
    BY <1>0, <1>1, <2>3 DEF ReadBack
<1>3. /\ old.ref \in Nat /\ new.ref \in Nat /\ (k \in Living <=> old.ref > 0) /\ (k \in Living' <=> new.ref > 0)
      /\ Living \subseteq Inodes /\ Living' \subseteq Inodes /\ \A i \in Inodes \ {k} : i \in Living' <=> i \in Living
  BY <1>0 DEF InoRec, Living
<1>5. CASE (new.ref > 0 <=> old.ref > 0) /\ vn = vo
  <2>1. Living' = Living /\ ReadBack' = ReadBack
    BY <1>2, <1>3, <1>5
  <2> QED
    BY <2>1 DEF Abstract!posixVars
<1>6. CASE old.ref = 0 /\ new.ref > 0 /\ vn = vo
  <2>1. k \notin Living /\ Living' = Living \cup {k} /\ ReadBack' = ReadBack
    BY <1>2, <1>3, <1>6
  <2> QED
    BY <2>1 DEF Abstract!Create, Abstract!PosixNext
<1>7. CASE old.ref > 0 /\ new.ref = 0 /\ vn = <<>>
  <2>1. k \in Living /\ Living' = Living \ {k} /\ ReadBack' = [ReadBack EXCEPT ![k] = <<>>]
    BY <1>2, <1>3, <1>7
  <2> QED
    BY <2>1 DEF Abstract!Forget, Abstract!PosixNext
<1>8. ASSUME old.ref > 0, new.ref > 0, NEW n \in 0 .. MaxSize,
             \/ vn = Abstract!Padded(vo, n)
             \/ \E s \in Data : vn = Abstract!Replaced(vo, n, s)
      PROVE  [Abstract!PosixNext]_(Abstract!posixVars)
  <2>1. k \in Living /\ Living' = Living
    BY <1>3, <1>8
  <2>2. CASE vn = Abstract!Padded(vo, n)
    <3>1. Abstract!Truncate(k, n)
      BY <1>2, <2>1, <2>2 DEF Abstract!Truncate
    <3> QED
      BY <3>1 DEF Abstract!PosixNext
  <2>3. ASSUME NEW s \in Data, vn = Abstract!Replaced(vo, n, s)
        PROVE  [Abstract!PosixNext]_(Abstract!posixVars)
    <3>1. Abstract!Write(k, n, s)
      BY <1>2, <2>1, <2>3 DEF Abstract!Write
    <3> QED
      BY <3>1 DEF Abstract!PosixNext
  <2> QED
    BY <1>8, <2>2, <2>3
<1>9. \/ (new.ref > 0 <=> old.ref > 0) /\ vn = vo
      \/ old.ref = 0 /\ new.ref > 0 /\ vn = vo
      \/ old.ref > 0 /\ new.ref = 0 /\ vn = <<>>
      \/ /\ old.ref > 0 /\ new.ref > 0
         /\ \E n \in 0 .. MaxSize :
              \/ vn = Abstract!Padded(vo, n)
              \/ \E s \in Data : vn = Abstract!Replaced(vo, n, s)
  BY <1>0, <1>1 DEF Effect
<1> QED
  BY <1>5, <1>6, <1>7, <1>8, <1>9


-----------------------------------------------------------------------------
(* tmpfs: the steps *)

(* A step changes one inode, in one of these ways. *)
Refines ==
  \E k \in Inodes : \E new \in InoRec : inode' = [inode EXCEPT ![k] = new] /\ Effect(inode[k], new)

(* One inode of the invariant. *)
LEMMA InodeIs ==
  ASSUME TmpInv, NEW k \in Inodes
  PROVE  /\ inode[k] \in InoRec /\ inode[k].ref \in Nat /\ inode[k].size \in Nat
         /\ inode[k].size <= Len(inode[k].data) /\ (inode[k].ref = 0 => inode[k] = NoInode)
         /\ inode[k].ref = Cardinality(Users(k)) + Named(k)
         /\ k \in 1 .. MaxInodes /\ MaxInodes \in Nat /\ MaxSize \in Nat
BY TmpfsFileAssumption DEF TmpInv, InodeOK, InoRec, Inodes

(* A handle that is open refers to an inode that lives; so does the name. *)
LEMMA ReferredLives ==
  ASSUME TmpInv, NEW k \in Inodes, entry = k \/ \E h \in Handles : fd[h].ino = k
  PROVE  inode[k].ref > 0
<1>1. inode[k].ref = Cardinality(Users(k)) + Named(k) /\ Cardinality(Users(k)) \in Nat
  BY InodeIs, UsersFinite
<1>2. Named(k) \in {0, 1} /\ (entry = k => Named(k) = 1)
  BY DEF Named
<1>3. CASE entry = k
  BY <1>1, <1>2, <1>3
<1>4. CASE \E h \in Handles : fd[h].ino = k
  <2>1. Cardinality(Users(k)) > 0
    BY <1>4, UsersFinite
  <2> QED
    BY <1>1, <1>2, <2>1
<1> QED
  BY <1>3, <1>4

(* A step that changes bytes and no references. *)
LEMMA BytesStep ==
  ASSUME TmpInv, NEW k \in Inodes, NEW new \in InoRec, inode' = [inode EXCEPT ![k] = new],
         UNCHANGED <<entry, fd, made>>, new.ref = inode[k].ref, inode[k].ref > 0,
         new.size <= Len(new.data), Effect(inode[k], new)
  PROVE  TmpInv' /\ Refines
<1>1. entry' = entry /\ fd' = fd /\ made' = made
  OBVIOUS
<1>2. \A i \in Inodes : Users(i)' = Users(i) /\ Named(i)' = Named(i)
  BY <1>1 DEF Users, Named
<1>3. new.ref = Cardinality(Users(k)') + Named(k)' /\ new.ref # 0
  BY <1>2, InodeIs
<1>4. fd' \in [Handles -> FdRec] /\ made' \in 0 .. MaxInodes /\ entry' \in 0 .. made' /\ \A h \in Handles : fd'[h].ino <= made'
  BY <1>1 DEF TmpInv
<1>5. TmpInv'
  BY <1>2, <1>3, <1>4, InodeAfter
<1> QED
  BY <1>5 DEF Refines

(* ftruncate. *)
LEMMA TmpTruncateStep ==
  ASSUME TmpInv, NEW h \in Handles, NEW n \in 0 .. MaxSize, tmpfs_ftruncate(h, n)
  PROVE  TmpInv' /\ Refines
<1>1. PICK k \in Inodes : k = fd[h].ino
  BY TmpfsFileAssumption DEF tmpfs_ftruncate, TmpInv, FdRec, Inodes
<1>2. PICK new \in truncate(inode[k], n) : inode' = [inode EXCEPT ![k] = new]
  BY <1>1 DEF tmpfs_ftruncate
<1>3. UNCHANGED <<entry, fd, made>> /\ n \in Nat
  BY TmpfsFileAssumption DEF tmpfs_ftruncate
<1>4. PICK ino \in InoRec : ino = inode[k] /\ ino.size <= Len(ino.data)
  BY InodeIs
<1>5. new \in InoRec /\ new.ref = ino.ref /\ new.size <= Len(new.data)
  BY <1>2, <1>3, <1>4, TruncateIs
<1>6. Visible(new) = Abstract!Padded(Visible(ino), n)
  BY <1>2, <1>3, <1>4, TruncatedVisible
<1>7. inode[k].ref > 0
  BY <1>1, ReferredLives
<1>8. Effect(inode[k], new)
  BY <1>4, <1>5, <1>6, <1>7 DEF Effect
<1> QED
  BY <1>2, <1>3, <1>4, <1>5, <1>7, <1>8, BytesStep

(* pwritev. *)
LEMMA TmpWriteStep ==
  ASSUME TmpInv, NEW h \in Handles, NEW off \in 0 .. MaxSize, NEW s \in Data, tmpfs_pwritev(h, off, s)
  PROVE  TmpInv' /\ Refines
<1>1. PICK k \in Inodes : k = fd[h].ino
  BY TmpfsFileAssumption DEF tmpfs_pwritev, TmpInv, FdRec, Inodes
<1>2. PICK at : /\ at = IF fd[h].append THEN inode[k].size ELSE off
                /\ at + Len(s) <= MaxSize
                /\ \E new \in pwrite(inode[k], at, s) : inode' = [inode EXCEPT ![k] = new]
  BY <1>1 DEF tmpfs_pwritev
<1>3. PICK new \in pwrite(inode[k], at, s) : inode' = [inode EXCEPT ![k] = new]
  BY <1>2
<1>4. UNCHANGED <<entry, fd, made>>
  BY DEF tmpfs_pwritev
<1>5. PICK ino \in InoRec : ino = inode[k] /\ ino.size <= Len(ino.data) /\ ino.size \in Nat
  BY InodeIs
<1>6. s \in Seq(Nat) /\ Len(s) \in Nat
  <2>1. s = <<1>> \/ s = <<1, 1>>
    BY DEF Data
  <2>2. <<1>> \in Seq(Nat) /\ <<1, 1>> \in Seq(Nat)
    OBVIOUS
  <2>3. s \in Seq(Nat)
    BY <2>1, <2>2
  <2> QED
    BY <2>3
<1>7. at \in Nat
  BY <1>2, <1>5, TmpfsFileAssumption
<1>8. at \in 0 .. MaxSize
  BY <1>2, <1>6, <1>7, TmpfsFileAssumption
<1>9. new \in InoRec /\ new.ref = ino.ref /\ new.size <= Len(new.data)
  BY <1>3, <1>5, <1>6, <1>7, PwriteIs
<1>10. Visible(new) = Abstract!Replaced(Visible(ino), at, s)
  BY <1>3, <1>5, <1>6, <1>7, WrittenVisible
<1>11. inode[k].ref > 0
  BY <1>1, ReferredLives
<1>12. Effect(inode[k], new)
  BY <1>5, <1>8, <1>9, <1>10, <1>11 DEF Effect
<1> QED
  BY <1>3, <1>4, <1>5, <1>9, <1>11, <1>12, BytesStep

(* One reference less. *)
LEMMA DroppedIs ==
  ASSUME NEW ino \in InoRec, ino.size <= Len(ino.data), ino.ref > 0, NEW new, new = Dropped(ino)
  PROVE  /\ new \in InoRec /\ new.ref = ino.ref - 1 /\ new.size <= Len(new.data)
         /\ (new.ref = 0 => new = NoInode) /\ Effect(ino, new)
<1>0. NoInode \in InoRec /\ NoInode.ref = 0 /\ NoInode.size = 0 /\ NoInode.data = <<>> /\ ino.ref \in Nat
  BY DEF NoInode, InoRec
<1>1. CASE ino.ref = 1
  <2>1. new = NoInode
    BY <1>1 DEF Dropped
  <2>2. Visible(new) = <<>>
    BY <1>0, <2>1 DEF Visible
  <2>3. Effect(ino, new)
    BY <1>0, <1>1, <2>1, <2>2 DEF Effect
  <2> QED
    BY <1>0, <1>1, <2>1, <2>3
<1>2. CASE ino.ref # 1
  <2>1. PICK n \in Nat : n = ino.ref - 1 /\ n > 0
    BY <1>0, <1>2
  <2>2. new = [ino EXCEPT !.ref = n]
    BY <1>2, <2>1 DEF Dropped
  <2>3. new \in InoRec /\ new.ref = n /\ new.data = ino.data /\ new.size = ino.size
    BY <2>2 DEF InoRec
  <2>4. Effect(ino, new)
    BY <2>1, <2>3 DEF Effect, Visible
  <2> QED
    BY <2>1, <2>3, <2>4
<1> QED
  BY <1>1, <1>2

(* close and unlink. *)
LEMMA TmpDropStep ==
  ASSUME TmpInv, unlink \/ \E h \in Handles : close(h)
  PROVE  TmpInv' /\ Refines
<1>1. CASE unlink
  <2>1. PICK k \in Inodes : k = entry /\ k # 0
    BY <1>1, TmpfsFileAssumption DEF unlink, TmpInv, Inodes
  <2>2. PICK ino \in InoRec : ino = inode[k] /\ ino.size <= Len(ino.data) /\ ino.ref = Cardinality(Users(k)) + Named(k)
    BY InodeIs
  <2>3. ino.ref > 0
    BY <2>1, <2>2, ReferredLives
  <2>4. PICK new : new = Dropped(ino)
    OBVIOUS
  <2>5. /\ new \in InoRec /\ new.ref = ino.ref - 1 /\ new.size <= Len(new.data)
        /\ (new.ref = 0 => new = NoInode) /\ Effect(ino, new)
    BY <2>2, <2>3, <2>4, DroppedIs
  <2>6. inode' = [inode EXCEPT ![k] = new] /\ entry' = 0 /\ fd' = fd /\ made' = made
    BY <1>1, <2>1, <2>2, <2>4 DEF unlink
  <2>7. \A i \in Inodes : Users(i)' = Users(i) /\ Named(i)' = 0
    BY <2>6 DEF Users, Named, Inodes
  <2>8. Named(k) = 1 /\ \A i \in Inodes \ {k} : Named(i) = 0
    BY <2>1 DEF Named
  <2>9. new.ref = Cardinality(Users(k)') + Named(k)'
    <3>1. Cardinality(Users(k)) \in Nat
      BY UsersFinite
    <3> QED
      BY <2>2, <2>5, <2>7, <2>8, <3>1
  <2>10. fd' \in [Handles -> FdRec] /\ made' \in 0 .. MaxInodes /\ entry' \in 0 .. made' /\ \A h \in Handles : fd'[h].ino <= made'
    BY <2>6, TmpfsFileAssumption DEF TmpInv
  <2>11. TmpInv'
    BY <2>5, <2>6, <2>7, <2>8, <2>9, <2>10, InodeAfter
  <2> QED
    BY <2>2, <2>5, <2>6, <2>11 DEF Refines
<1>2. ASSUME NEW h \in Handles, close(h) PROVE TmpInv' /\ Refines
  <2>1. PICK k \in Inodes : k = fd[h].ino
    BY <1>2, TmpfsFileAssumption DEF close, TmpInv, FdRec, Inodes
  <2>2. PICK ino \in InoRec : ino = inode[k] /\ ino.size <= Len(ino.data) /\ ino.ref = Cardinality(Users(k)) + Named(k)
    BY InodeIs
  <2>3. ino.ref > 0
    BY <2>1, <2>2, ReferredLives
  <2>4. PICK new : new = Dropped(ino)
    OBVIOUS
  <2>5. /\ new \in InoRec /\ new.ref = ino.ref - 1 /\ new.size <= Len(new.data)
        /\ (new.ref = 0 => new = NoInode) /\ Effect(ino, new)
    BY <2>2, <2>3, <2>4, DroppedIs
  <2>6. inode' = [inode EXCEPT ![k] = new] /\ entry' = entry /\ fd' = [fd EXCEPT ![h] = Closed] /\ made' = made
    BY <1>2, <2>1, <2>2, <2>4 DEF close
  <2>7. Closed \in FdRec /\ Closed.ino = 0 /\ fd \in [Handles -> FdRec]
    BY TmpfsFileAssumption DEF Closed, FdRec, TmpInv
  <2>8. \A i \in Inodes : i # 0 /\ Named(i)' = Named(i)
    BY <2>6 DEF Named, Inodes
  <2>9. ASSUME NEW i \in Inodes \ {k} PROVE Users(i)' = Users(i)
    BY <2>1, <2>6, <2>7, <2>8, UsersAfter
  <2>10. Cardinality(Users(k)') = Cardinality(Users(k)) - 1
    BY <2>1, <2>6, <2>7, <2>8, UsersAfter
  <2>11. new.ref = Cardinality(Users(k)') + Named(k)'
    <3>1. Cardinality(Users(k)) \in Nat /\ Named(k) \in Nat
      BY UsersFinite DEF Named
    <3> QED
      BY <2>2, <2>5, <2>8, <2>10, <3>1
  <2>12. fd' \in [Handles -> FdRec]
    BY <2>6, <2>7
  <2>13. made' \in 0 .. MaxInodes /\ entry' \in 0 .. made' /\ \A x \in Handles : fd'[x].ino <= made'
    BY <2>6, <2>7, TmpfsFileAssumption DEF TmpInv
  <2>14. TmpInv'
    BY <2>5, <2>6, <2>8, <2>9, <2>11, <2>12, <2>13, InodeAfter
  <2> QED
    BY <2>2, <2>5, <2>6, <2>14 DEF Refines
<1> QED
  BY <1>1, <1>2

(* A handle is made for inode k, as ino, or there is no memory for it. *)
LEMMA OpenedStep ==
  ASSUME TmpInv, NEW h \in Handles, NEW k \in Inodes, NEW ino \in InoRec, NEW a \in BOOLEAN,
         ino.size <= Len(ino.data), ino.ref > 0, fd[h] = Closed, Opened(h, k, ino, a),
         made' \in 0 .. MaxInodes, made <= made', k <= made', entry' \in 0 .. made',
         ino.ref = Cardinality(Users(k)) + Named(k)', \A i \in Inodes \ {k} : Named(i)' = Named(i),
         \A new \in InoRec : new.ref > 0 /\ Visible(new) = Visible(ino) => Effect(inode[k], new)
  PROVE  TmpInv' /\ Refines
<1>0. /\ fd \in [Handles -> FdRec] /\ made \in Nat /\ made' \in Nat /\ k \in Nat /\ k # 0
      /\ fd[h].ino = 0 /\ (\A x \in Handles : fd[x].ino <= made /\ fd[x].ino \in Nat)
      /\ ino.ref \in Nat /\ Cardinality(Users(k)) \in Nat /\ Named(k)' \in Nat
  <2>1. fd \in [Handles -> FdRec] /\ made \in Nat /\ made' \in Nat /\ k \in Nat /\ k # 0
    BY TmpfsFileAssumption DEF TmpInv, Inodes
  <2>2. ASSUME NEW x \in Handles PROVE fd[x].ino <= made /\ fd[x].ino \in Nat
    BY TmpfsFileAssumption DEF TmpInv, FdRec
  <2>3. fd[h].ino = 0 /\ ino.ref \in Nat /\ Named(k)' \in Nat
    BY DEF Closed, InoRec, Named
  <2>4. Cardinality(Users(k)) \in Nat
    BY UsersFinite
  <2> QED
    BY <2>1, <2>2, <2>3, <2>4
<1>1. CASE inode' = [inode EXCEPT ![k] = ino] /\ UNCHANGED fd
  <2>1. \A i \in Inodes : Users(i)' = Users(i)
    BY <1>1 DEF Users
  <2>2. fd' \in [Handles -> FdRec] /\ \A x \in Handles : fd'[x].ino <= made'
    BY <1>0, <1>1
  <2>3. ino.ref = Cardinality(Users(k)') + Named(k)' /\ ino.ref # 0
    BY <1>0, <2>1
  <2>4. TmpInv'
    BY <1>1, <2>1, <2>2, <2>3, InodeAfter
  <2> QED
    BY <1>1, <2>4 DEF Refines
<1>2. CASE /\ inode' = [inode EXCEPT ![k] = [ino EXCEPT !.ref = @ + 1]]
           /\ fd' = [fd EXCEPT ![h] = [ino |-> k, append |-> a]]
  <2>1. PICK v \in FdRec : v = [ino |-> k, append |-> a] /\ v.ino = k
    <3>1. k \in 0 .. MaxInodes
      BY TmpfsFileAssumption DEF Inodes
    <3>2. [ino |-> k, append |-> a] \in FdRec
      BY <3>1, Zenon DEF FdRec
    <3> QED
      BY <3>2
  <2>2. fd' = [fd EXCEPT ![h] = v]
    BY <1>2, <2>1
  <2>3. fd' \in [Handles -> FdRec] /\ fd'[h] = v /\ \A x \in Handles \ {h} : fd'[x] = fd[x]
    BY <1>0, <2>2
  <2>4. ASSUME NEW i \in Inodes \ {k} PROVE Users(i)' = Users(i)
    <3>1. i # 0
      BY DEF Inodes
    <3> QED
      BY <1>0, <2>1, <2>2, <3>1, UsersAfter
  <2>5. Cardinality(Users(k)') = Cardinality(Users(k)) + 1
    BY <1>0, <2>1, <2>2, UsersAfter
  <2>6. PICK n \in Nat : n = ino.ref + 1 /\ n > 0
    BY <1>0
  <2>7. PICK new : new = [ino EXCEPT !.ref = n]
    OBVIOUS
  <2>8. new \in InoRec /\ new.ref = n /\ new.data = ino.data /\ new.size = ino.size
    BY <2>7 DEF InoRec
  <2>9. inode' = [inode EXCEPT ![k] = new]
    BY <1>2, <2>6, <2>7
  <2>10. Effect(inode[k], new)
    BY <2>6, <2>8 DEF Visible
  <2>11. new.ref = Cardinality(Users(k)') + Named(k)' /\ new.ref # 0
    BY <1>0, <2>5, <2>6, <2>8
  <2>12. \A x \in Handles : fd'[x].ino <= made'
    BY <1>0, <2>1, <2>3
  <2>13. TmpInv'
    BY <2>3, <2>4, <2>8, <2>9, <2>11, <2>12, InodeAfter
  <2> QED
    BY <2>8, <2>9, <2>10, <2>13 DEF Refines
<1> QED
  BY <1>1, <1>2 DEF Opened

(* open of a name that exists. *)
LEMMA TmpOpenStep ==
  ASSUME TmpInv, NEW h \in Handles, NEW t \in BOOLEAN, NEW a \in BOOLEAN, open_existing(h, t, a)
  PROVE  TmpInv' /\ Refines
<1>1. PICK k \in Inodes : k = entry /\ k <= made
  BY TmpfsFileAssumption DEF open_existing, TmpInv, Inodes
<1>2. PICK old \in InoRec : old = inode[k] /\ old.size <= Len(old.data) /\ old.ref = Cardinality(Users(k)) + Named(k)
  BY InodeIs
<1>3. old.ref > 0
  BY <1>1, <1>2, ReferredLives
<1>4. PICK ino \in IF t THEN truncate(old, 0) ELSE {old} : Opened(h, k, ino, a)
  BY <1>1, <1>2 DEF open_existing
<1>5. /\ ino \in InoRec /\ ino.ref = old.ref /\ ino.size <= Len(ino.data)
      /\ (Visible(ino) = Visible(old) \/ Visible(ino) = Abstract!Padded(Visible(old), 0))
  <2>1. CASE t
    <3>1. ino \in truncate(old, 0) /\ 0 \in Nat
      BY <1>4, <2>1
    <3> QED
      BY <1>2, <3>1, TruncateIs, TruncatedVisible
  <2>2. CASE ~t
    BY <1>2, <1>4, <2>2
  <2> QED
    BY <2>1, <2>2
<1>6. ASSUME NEW new \in InoRec, new.ref > 0, Visible(new) = Visible(ino) PROVE Effect(inode[k], new)
  <2>1. 0 \in 0 .. MaxSize
    BY TmpfsFileAssumption
  <2> QED
    BY <1>2, <1>3, <1>5, <1>6, <2>1 DEF Effect
<1>7. fd[h] = Closed /\ entry' = entry /\ made' = made
  BY DEF open_existing
<1>8. made' \in 0 .. MaxInodes /\ made <= made' /\ k <= made' /\ entry' \in 0 .. made'
  BY <1>1, <1>7, TmpfsFileAssumption DEF TmpInv
<1>9. \A i \in Inodes : Named(i)' = Named(i)
  BY <1>7 DEF Named
<1>10. ino.ref > 0 /\ ino.ref = Cardinality(Users(k)) + Named(k)'
  BY <1>2, <1>3, <1>5, <1>9
<1> QED
  BY <1>4, <1>5, <1>6, <1>7, <1>8, <1>9, <1>10, OpenedStep

(* open that makes the file. *)
LEMMA TmpCreateStep ==
  ASSUME TmpInv, NEW h \in Handles, NEW a \in BOOLEAN, open_create(h, a)
  PROVE  TmpInv' /\ Refines
<1>1. PICK k \in Inodes : k = made + 1
  BY TmpfsFileAssumption DEF open_create, TmpInv, Inodes
<1>2. /\ fd[h] = Closed /\ entry = 0 /\ made' = k /\ entry' = k
      /\ Opened(h, k, [NoInode EXCEPT !.ref = 1], a)
  BY <1>1 DEF open_create
<1>3. Named(k) = 0 /\ Named(k)' = 1 /\ \A i \in Inodes \ {k} : Named(i)' = Named(i)
  BY <1>2 DEF Named, Inodes
<1>4. Cardinality(Users(k)) = 0
  <2>1. \A x \in Handles : fd[x].ino # k
    <3>1. ASSUME NEW x \in Handles PROVE fd[x].ino # k
      <4>1. fd[x].ino <= made /\ fd[x].ino \in 0 .. MaxInodes /\ made \in Nat
        BY TmpfsFileAssumption DEF TmpInv, FdRec
      <4> QED
        BY <1>1, <4>1
    <3> QED
      BY <3>1
  <2> QED
    BY <2>1, UsersFinite
<1>5. inode[k] = NoInode /\ inode[k].ref = 0
  BY <1>3, <1>4, InodeIs
<1>6. PICK ino : ino = [NoInode EXCEPT !.ref = 1]
  OBVIOUS
<1>7. ino \in InoRec /\ ino.ref = 1 /\ ino.size = 0 /\ ino.data = <<>>
  <2>1. NoInode \in InoRec /\ NoInode.size = 0 /\ NoInode.data = <<>>
    BY DEF NoInode, InoRec
  <2> QED
    BY <1>6, <2>1 DEF InoRec
<1>8. Visible(ino) = Visible(NoInode)
  BY <1>7 DEF Visible, NoInode
<1>9. ASSUME NEW new \in InoRec, new.ref > 0, Visible(new) = Visible(ino) PROVE Effect(inode[k], new)
  BY <1>5, <1>8, <1>9 DEF Effect
<1>10. ino.size <= Len(ino.data) /\ ino.ref > 0 /\ ino.ref = Cardinality(Users(k)) + Named(k)'
  BY <1>3, <1>4, <1>7
<1>11. made' \in 0 .. MaxInodes /\ made <= made' /\ k <= made' /\ entry' \in 0 .. made'
  BY <1>1, <1>2, TmpfsFileAssumption DEF TmpInv, Inodes
<1>12. Opened(h, k, ino, a)
  BY <1>2, <1>6
<1> QED
  BY <1>2, <1>3, <1>7, <1>9, <1>10, <1>11, <1>12, OpenedStep

(* Every step keeps the invariant and changes one inode as a file may change. *)
LEMMA TmpNext == TmpInv /\ TmpfsFileNext => TmpInv' /\ Refines
<1> SUFFICES ASSUME TmpInv, TmpfsFileNext PROVE TmpInv' /\ Refines
  OBVIOUS
<1>1. CASE unlink \/ \E h \in Handles : close(h)
  BY <1>1, TmpDropStep
<1>2. CASE \E h \in Handles : \E a \in BOOLEAN : open_create(h, a)
  BY <1>2, TmpCreateStep
<1>3. CASE \E h \in Handles : \E a \in BOOLEAN : \E t \in BOOLEAN : open_existing(h, t, a)
  BY <1>3, TmpOpenStep
<1>4. CASE \E h \in Handles : \E n \in 0 .. MaxSize : tmpfs_ftruncate(h, n)
  BY <1>4, TmpTruncateStep
<1>5. CASE \E h \in Handles : \E n \in 0 .. MaxSize : \E s \in Data : tmpfs_pwritev(h, n, s)
  BY <1>5, TmpWriteStep
<1> QED
  BY <1>1, <1>2, <1>3, <1>4, <1>5 DEF TmpfsFileNext

(* A step that changes nothing of tmpfs. *)
LEMMA TmpStutter ==
  ASSUME UNCHANGED tmpfileVars
  PROVE  (TmpInv => TmpInv') /\ UNCHANGED Abstract!posixVars
<1>1. inode' = inode /\ entry' = entry /\ fd' = fd /\ made' = made
  BY DEF tmpfileVars
<1>2. UNCHANGED Abstract!posixVars
  BY <1>1 DEF Abstract!posixVars, Living, ReadBack, Visible
<1>3. TmpInv => TmpInv'
  BY <1>1 DEF TmpInv, InodeOK, Users, Named
<1> QED
  BY <1>2, <1>3

(* The invariant of tmpfs files: references counted, buffers long enough. *)
THEOREM InodesCounted == TmpfsFileSpec => []TmpInv
<1>1. TmpfsFileInit => TmpInv
  BY TmpStart
<1>2. TmpInv /\ [TmpfsFileNext]_tmpfileVars => TmpInv'
  BY TmpNext, TmpStutter
<1> QED
  BY <1>1, <1>2, PTL DEF TmpfsFileSpec

(* An inode lives exactly as long as a name or a handle refers to it        *)
(* (tmpfs.cc, Entry::ino and Tmpfs_file), for any number of handles.        *)
THEOREM InodesLive == TmpfsFileSpec => []InodeLifetime
<1>1. TmpInv => InodeLifetime
  BY InodeIs DEF InodeLifetime, Users, Named
<1> QED
  BY <1>1, InodesCounted, PTL

(* What handles read of a file is what a program expects of one: pwrite,    *)
(* truncate, open, unlink and close in any order, whatever realloc left in  *)
(* the buffers, implement PosixFiles.                                       *)
THEOREM TmpfsIsPosix == TmpfsFileSpec => IsPosixFile
<1>1. TmpfsFileInit => Abstract!PosixInit
  <2> SUFFICES ASSUME TmpfsFileInit PROVE Abstract!PosixInit
    OBVIOUS
  <2>1. inode = [i \in Inodes |-> NoInode] /\ NoInode.ref = 0 /\ NoInode.size = 0 /\ NoInode.data = <<>>
    BY DEF TmpfsFileInit, NoInode
  <2>2. Visible(NoInode) = <<>>
    BY <2>1 DEF Visible
  <2>3. Living = {}
    BY <2>1 DEF Living
  <2>4. ReadBack = [i \in Inodes |-> <<>>]
    BY <2>1, <2>2 DEF ReadBack
  <2> QED
    BY <2>3, <2>4 DEF Abstract!PosixInit
<1>2. TmpInv /\ [TmpfsFileNext]_tmpfileVars => [Abstract!PosixNext]_(Abstract!posixVars)
  <2>1. ASSUME TmpInv, TmpfsFileNext PROVE [Abstract!PosixNext]_(Abstract!posixVars)
    <3>1. PICK k \in Inodes, new \in InoRec : inode' = [inode EXCEPT ![k] = new] /\ Effect(inode[k], new)
      BY <2>1, TmpNext DEF Refines
    <3>2. inode \in [Inodes -> InoRec]
      BY <2>1 DEF TmpInv
    <3> QED
      BY <3>1, <3>2, EffectIsPosix
  <2> QED
    BY <2>1, TmpStutter
<1> QED
  BY <1>1, <1>2, InodesCounted, PTL DEF TmpfsFileSpec, IsPosixFile, Abstract!PosixSpec

-----------------------------------------------------------------------------
(* devfs: the names in order *)

(* s lists S in order. *)
Ascends(s, S) ==
  s \in [1 .. Cardinality(S) -> S] /\ \A i, j \in DOMAIN s : i < j => s[i] < s[j]

(* One name more, above all others. *)
LEMMA AscendsOn ==
  ASSUME NEW n \in Nat, NEW R \in SUBSET (1 .. n), NEW s, Ascends(s, R), NEW S, S = R \cup {n + 1}
  PROVE  \E t : Ascends(t, S)
<1>1. IsFiniteSet(R) /\ n + 1 \notin R
  <2>1. IsFiniteSet(1 .. n)
    BY FS_Interval
  <2>2. IsFiniteSet(R)
    BY <2>1, FS_Subset
  <2> QED
    BY <2>2
<1>2. PICK c \in Nat : c = Cardinality(R) /\ Cardinality(S) = c + 1
  BY <1>1, FS_CardinalityType, FS_AddElement
<1>3. s \in [1 .. c -> R] /\ \A i, j \in 1 .. c : i < j => s[i] < s[j]
  BY <1>2 DEF Ascends
<1>4. PICK t : t = [i \in 1 .. c + 1 |-> IF i = c + 1 THEN n + 1 ELSE s[i]]
  OBVIOUS
<1>5. ASSUME NEW i \in 1 .. c + 1 PROVE t[i] = (IF i = c + 1 THEN n + 1 ELSE s[i]) /\ t[i] \in S /\ (i # c + 1 => i \in 1 .. c /\ s[i] \in 1 .. n)
  <2>1. CASE i = c + 1
    BY <1>4, <2>1
  <2>2. CASE i # c + 1
    <3>1. i \in 1 .. c
      BY <2>2
    <3>2. s[i] \in R
      BY <1>3, <3>1
    <3> QED
      BY <1>4, <2>2, <3>1, <3>2
  <2> QED
    BY <2>1, <2>2
<1>6. t \in [1 .. c + 1 -> S]
  BY <1>4, <1>5
<1>7. ASSUME NEW i \in 1 .. c + 1, NEW j \in 1 .. c + 1, i < j PROVE t[i] < t[j]
  <2>1. i # c + 1 /\ i \in 1 .. c /\ t[i] = s[i] /\ s[i] \in 1 .. n
    <3>1. i # c + 1
      BY <1>7
    <3> QED
      BY <1>5, <3>1
  <2>2. CASE j = c + 1
    <3>1. t[j] = n + 1
      BY <1>5, <2>2
    <3> QED
      BY <2>1, <3>1
  <2>3. CASE j # c + 1
    <3>1. j \in 1 .. c /\ t[j] = s[j]
      BY <1>5, <2>3
    <3> QED
      BY <1>3, <1>7, <2>1, <3>1
  <2> QED
    BY <2>2, <2>3
<1>8. Ascends(t, S)
  BY <1>2, <1>6, <1>7 DEF Ascends
<1> QED
  BY <1>8

(* A set of names can be listed in order. *)
LEMMA AscendsExists ==
  ASSUME NEW n \in Nat, NEW S \in SUBSET (1 .. n)
  PROVE  \E s : Ascends(s, S)
<1> DEFINE T == {k \in Nat : \A R \in SUBSET (1 .. k) : \E s : Ascends(s, R)}
<1>1. 0 \in T
  <2>1. ASSUME NEW R \in SUBSET (1 .. 0) PROVE \E s : Ascends(s, R)
    <3>0. R = {}
      OBVIOUS
    <3>1. R = {} /\ Cardinality(R) = 0
      BY <3>0, FS_EmptySet
    <3>2. PICK s : s = [i \in 1 .. 0 |-> 0]
      OBVIOUS
    <3>3. s \in [1 .. 0 -> R] /\ \A i \in DOMAIN s : FALSE
      BY <3>2
    <3>4. Ascends(s, R)
      BY <3>1, <3>3 DEF Ascends
    <3> QED
      BY <3>4
  <2> QED
    BY <2>1
<1>2. ASSUME NEW k \in T PROVE k + 1 \in T
  <2>1. k \in Nat /\ \A R \in SUBSET (1 .. k) : \E s : Ascends(s, R)
    OBVIOUS
  <2>2. ASSUME NEW R \in SUBSET (1 .. k + 1) PROVE \E s : Ascends(s, R)
    <3>1. CASE k + 1 \notin R
      <4>1. R \in SUBSET (1 .. k)
        BY <2>1, <3>1
      <4> QED
        BY <2>1, <4>1
    <3>2. CASE k + 1 \in R
      <4>1. PICK Q \in SUBSET (1 .. k) : R = Q \cup {k + 1}
        <5>1. R \ {k + 1} \in SUBSET (1 .. k) /\ R = (R \ {k + 1}) \cup {k + 1}
          BY <2>1, <3>2
        <5> QED
          BY <5>1
      <4>2. PICK s : Ascends(s, Q)
        BY <2>1
      <4> QED
        BY <2>1, <4>1, <4>2, AscendsOn
    <3> QED
      BY <3>1, <3>2
  <2>3. k + 1 \in Nat
    BY <2>1
  <2> QED
    BY <2>2, <2>3
<1> HIDE DEF T
<1>3. T \in SUBSET Nat
  BY DEF T
<1>4. T = Nat
  BY <1>1, <1>2, <1>3, Induction
<1> QED
  BY <1>4 DEF T

(* InOrder lists the names in order. *)
LEMMA InOrderIs ==
  ASSUME NEW S \in SUBSET DevNames
  PROVE  Ascends(InOrder(S), S) /\ InOrder(S) \in Seq(Nat)
<1>1. PICK s : Ascends(s, S)
  BY DevfsAssumption, AscendsExists DEF DevNames
<1>2. Ascends(InOrder(S), S)
  BY <1>1 DEF Ascends, InOrder
<1>3. Cardinality(S) \in Nat
  <2>1. IsFiniteSet(DevNames)
    BY DevfsAssumption, FS_Interval DEF DevNames
  <2> QED
    BY <2>1, FS_Subset, FS_CardinalityType
<1>4. InOrder(S) \in [1 .. Cardinality(S) -> Nat]
  <2>1. InOrder(S) \in [1 .. Cardinality(S) -> S] /\ S \subseteq Nat
    BY <1>2 DEF Ascends, DevNames
  <2> QED
    BY <2>1
<1>5. InOrder(S) \in Seq(Nat)
  BY <1>3, <1>4
<1> QED
  BY <1>2, <1>5

(* The first entries of a sequence. *)
LEMMA StartOf ==
  ASSUME NEW f \in Seq(Nat), NEW b \in Nat, b <= Len(f)
  PROVE  /\ SubSeq(f, 1, b) \in Seq(Nat) /\ Len(SubSeq(f, 1, b)) = b
         /\ \A i \in 1 .. b : SubSeq(f, 1, b)[i] = f[i]
<1>1. PICK m \in Int : m = 1 /\ b - m + 1 = b
  OBVIOUS
<1>2. \A i \in m .. b : f[i] \in Nat
  BY <1>1
<1>3. /\ SubSeq(f, m, b) \in Seq(Nat)
      /\ Len(SubSeq(f, m, b)) = IF m <= b THEN b - m + 1 ELSE 0
      /\ \A i \in 1 .. b - m + 1 : SubSeq(f, m, b)[i] = f[m + i - 1]
  BY <1>2, SubSeqProperties
<1>4. ASSUME NEW i \in 1 .. b PROVE SubSeq(f, m, b)[i] = f[i]
  <2>1. i \in 1 .. b - m + 1 /\ m + i - 1 = i
    BY <1>1
  <2> QED
    BY <1>3, <2>1
<1>5. Len(SubSeq(f, m, b)) = b
  BY <1>1, <1>3
<1> QED
  BY <1>1, <1>3, <1>4, <1>5

(* Two pieces of a sequence that follow on each other. *)
LEMMA PiecesJoin ==
  ASSUME NEW f \in Seq(Nat), NEW a \in Nat, NEW b \in Nat, a <= b, b <= Len(f)
  PROVE  SubSeq(f, 1, a) \o SubSeq(f, a + 1, b) = SubSeq(f, 1, b)
<1>0. a <= Len(f)
  OBVIOUS
<1>1. PICK p \in Seq(Nat) : p = SubSeq(f, 1, a) /\ Len(p) = a /\ \A i \in 1 .. a : p[i] = f[i]
  BY <1>0, StartOf
<1>2. PICK q \in Seq(Nat) : q = SubSeq(f, a + 1, b) /\ Len(q) = b - a /\ \A i \in 1 .. b - a : q[i] = f[a + i]
  BY PieceOf
<1>3. PICK r \in Seq(Nat) : r = SubSeq(f, 1, b) /\ Len(r) = b /\ \A i \in 1 .. b : r[i] = f[i]
  BY StartOf
<1>4. PICK j \in Seq(Nat) : j = p \o q /\ Len(j) = b /\ (\A i \in 1 .. a : j[i] = p[i]) /\ \A i \in 1 .. b - a : j[a + i] = q[i]
  <2>1. /\ p \o q \in Seq(Nat) /\ Len(p \o q) = Len(p) + Len(q)
        /\ \A i \in 1 .. Len(p) : (p \o q)[i] = p[i]
        /\ \A i \in 1 .. Len(q) : (p \o q)[Len(p) + i] = q[i]
    BY JoinOf
  <2>2. Len(p) = a /\ Len(q) = b - a /\ a + (b - a) = b
    BY <1>1, <1>2
  <2>3. /\ p \o q \in Seq(Nat) /\ Len(p \o q) = b
        /\ \A i \in 1 .. a : (p \o q)[i] = p[i]
        /\ \A i \in 1 .. b - a : (p \o q)[a + i] = q[i]
    BY <2>1, <2>2
  <2> QED
    BY <2>3
<1>5. ASSUME NEW i \in 1 .. b PROVE j[i] = r[i]
  <2>1. CASE i <= a
    <3>1. i \in 1 .. a
      BY <2>1
    <3> QED
      BY <1>1, <1>3, <1>4, <3>1
  <2>2. CASE ~(i <= a)
    <3>1. PICK k \in 1 .. b - a : i = a + k
      <4>1. i - a \in 1 .. b - a /\ i = a + (i - a)
        BY <2>2
      <4> QED
        BY <4>1
    <3> QED
      BY <1>2, <1>3, <1>4, <3>1
  <2> QED
    BY <2>1, <2>2
<1>6. j = r
  BY <1>3, <1>4, <1>5, SeqEqual
<1> QED
  BY <1>1, <1>2, <1>3, <1>4, <1>6

-----------------------------------------------------------------------------
(* devfs: what a reader that is alone has got *)

Listing(snap) == <<Dot, Dot>> \o snap

(* A listing begins with "." and "..". *)
LEMMA ListingIs ==
  ASSUME NEW snap \in Seq(Nat)
  PROVE  Listing(snap) \in Seq(Nat) /\ Len(Listing(snap)) = Len(snap) + 2 /\ Len(snap) \in Nat
<1>1. PICK dots \in Seq(Nat) : dots = <<Dot, Dot>> /\ Len(dots) = 2
  <2>1. <<0, 0>> \in Seq(Nat) /\ Len(<<0, 0>>) = 2
    OBVIOUS
  <2> QED
    BY <2>1 DEF Dot
<1>2. dots \o snap \in Seq(Nat) /\ Len(dots \o snap) = Len(dots) + Len(snap)
  BY JoinOf
<1> QED
  BY <1>1, <1>2 DEF Listing

SeenRec == [who : {"alone", "shared"}, expect : SUBSET DevNames, got : Seq(Nat)]

(* s is what a reader that is alone has got, at position idx of snap. *)
SeenOK(st, s, idx, snap) ==
  s.who = "alone" =>
    /\ st = "end" => s.got = Listing(InOrder(s.expect))
    /\ st # "end" /\ idx = 0 => s.got = <<>>
    /\ st # "end" /\ idx # 0 => /\ snap = InOrder(s.expect) /\ idx <= Len(snap) + 2
                                /\ s.got = SubSeq(Listing(snap), 1, idx)

DevInv ==
  /\ devices \in SUBSET DevNames /\ dent_idx \in Nat /\ dent_snap \in Seq(Nat)
  /\ dev_stream \in [DevReaders -> {"idle", "open", "end"}] /\ dev_seen \in [DevReaders -> SeenRec]
  /\ \A r \in DevReaders : SeenOK(dev_stream[r], dev_seen[r], dent_idx, dent_snap)

(* The records that do not depend on what was listed. *)
LEMMA SeenRecords ==
  /\ Alone \in SeenRec /\ Alone.got = <<>> /\ Alone.who = "alone"
  /\ NotAlone \in SeenRec /\ NotAlone.who = "shared"
<1>1. <<>> \in Seq(Nat) /\ {} \in SUBSET DevNames
  BY EmptySeq
<1> QED
  BY <1>1, Zenon DEF Alone, NotAlone, SeenRec

(* Before the first device. *)
LEMMA DevStart == DevInit => DevInv
<1> SUFFICES ASSUME DevInit PROVE DevInv
  OBVIOUS
<1>1. devices \in SUBSET DevNames
  BY DevfsAssumption DEF DevInit, DevNames
<1>2. dent_idx \in Nat /\ dent_snap \in Seq(Nat)
  BY EmptySeq DEF DevInit
<1>3. /\ dev_stream \in [DevReaders -> {"idle", "open", "end"}] /\ dev_seen \in [DevReaders -> SeenRec]
      /\ \A r \in DevReaders : dev_seen[r] = NotAlone
  BY SeenRecords DEF DevInit
<1>4. \A r \in DevReaders : SeenOK(dev_stream[r], dev_seen[r], dent_idx, dent_snap)
  BY <1>3, SeenRecords DEF SeenOK
<1> QED
  BY <1>1, <1>2, <1>3, <1>4 DEF DevInv

(* Steps that do not list. *)
LEMMA DevOther ==
  ASSUME DevInv, UNCHANGED <<dent_idx, dent_snap>>,
         \/ /\ UNCHANGED <<dev_stream, dev_seen>>
            /\ devices' = devices \/ \E n \in DevNames : devices' = devices \cup {n} \/ devices' = devices \ {n}
         \/ \E r \in DevReaders : open_dev(r) \/ close_dev(r)
  PROVE  DevInv'
<1>0. dent_idx' = dent_idx /\ dent_snap' = dent_snap
  OBVIOUS
<1>1. CASE /\ UNCHANGED <<dev_stream, dev_seen>>
           /\ devices' = devices \/ \E n \in DevNames : devices' = devices \cup {n} \/ devices' = devices \ {n}
  <2>1. devices' \in SUBSET DevNames
    BY <1>1 DEF DevInv
  <2> QED
    BY <1>0, <1>1, <2>1 DEF DevInv
<1>2. ASSUME NEW r \in DevReaders, open_dev(r) \/ close_dev(r) PROVE DevInv'
  <2>1. PICK st \in {"idle", "open"}, s \in SeenRec :
          /\ dev_stream' = [dev_stream EXCEPT ![r] = st] /\ dev_seen' = [dev_seen EXCEPT ![r] = s]
          /\ s = NotAlone \/ (dent_idx = 0 /\ s = Alone)
    <3>1. CASE open_dev(r)
      <4>1. PICK s : s = IF dent_idx = 0 THEN Alone ELSE NotAlone
        OBVIOUS
      <4>2. dev_stream' = [dev_stream EXCEPT ![r] = "open"] /\ dev_seen' = [dev_seen EXCEPT ![r] = s]
        BY <3>1, <4>1 DEF open_dev
      <4>3. s \in SeenRec /\ (s = NotAlone \/ (dent_idx = 0 /\ s = Alone))
        BY <4>1, SeenRecords
      <4> QED
        BY <4>2, <4>3
    <3>2. CASE close_dev(r)
      BY <3>2, SeenRecords DEF close_dev
    <3> QED
      BY <1>2, <3>1, <3>2
  <2>2. SeenOK(st, s, dent_idx, dent_snap)
    BY <2>1, SeenRecords DEF SeenOK
  <2>3. /\ dev_stream' \in [DevReaders -> {"idle", "open", "end"}] /\ dev_seen' \in [DevReaders -> SeenRec]
        /\ dev_stream'[r] = st /\ dev_seen'[r] = s
        /\ \A q \in DevReaders \ {r} : dev_stream'[q] = dev_stream[q] /\ dev_seen'[q] = dev_seen[q]
    BY <2>1 DEF DevInv
  <2>4. ASSUME NEW q \in DevReaders PROVE SeenOK(dev_stream'[q], dev_seen'[q], dent_idx, dent_snap)
    <3>1. CASE q = r
      BY <2>2, <2>3, <3>1
    <3>2. CASE q # r
      BY <2>3, <3>2 DEF DevInv
    <3> QED
      BY <3>1, <3>2
  <2>5. devices' = devices
    BY <1>2 DEF open_dev, close_dev
  <2> QED
    BY <1>0, <2>3, <2>4, <2>5 DEF DevInv
<1> QED
  BY <1>1, <1>2

(* getdents. *)
LEMMA DevListStep ==
  ASSUME DevInv, NEW r \in DevReaders, NEW room \in 1 .. 3, getdents_dev(r, room)
  PROVE  DevInv'
<1>1. PICK snap : snap = Snapshot(dent_idx)
  OBVIOUS
<1>2. snap \in Seq(Nat) /\ (dent_idx = 0 => snap = InOrder(devices)) /\ (dent_idx # 0 => snap = dent_snap)
  BY <1>1, InOrderIs DEF Snapshot, DevInv
<1>3. PICK all \in Seq(Nat), l \in Nat, x \in Nat : all = Listing(snap) /\ l = Len(all) /\ l >= 2 /\ l = Len(snap) + 2 /\ x = dent_idx
  BY <1>2, ListingIs DEF DevInv
<1>4. PICK g : g = IF l - x <= 0 THEN 0 ELSE IF l - x < room THEN l - x ELSE room
  OBVIOUS
<1>5. g \in Nat /\ (g = 0 <=> l <= x) /\ (g > 0 => x + g <= l)
  BY <1>4
<1>6. PICK old \in SeenRec : old = dev_seen[r] /\ SeenOK("open", old, x, dent_snap)
  BY <1>3 DEF DevInv, getdents_dev
<1>7. PICK s : s = IF old.who = "shared" THEN NotAlone
                   ELSE [who |-> "alone", expect |-> IF x = 0 THEN devices ELSE old.expect,
                         got |-> old.got \o SubSeq(all, x + 1, x + g)]
  OBVIOUS
<1>8. PICK st \in {"end", "open"}, y \in Nat :
        /\ dev_stream' = [dev_stream EXCEPT ![r] = st] /\ st = (IF g = 0 THEN "end" ELSE "open")
        /\ y = (IF g = 0 THEN 0 ELSE x + g) /\ dent_idx' = y /\ dent_snap' = snap /\ devices' = devices
        /\ dev_seen' = [q \in DevReaders |-> IF q # r THEN NotAlone ELSE s]
  <2>1. /\ dev_stream' = [dev_stream EXCEPT ![r] = IF g = 0 THEN "end" ELSE "open"]
        /\ dent_idx' = (IF g = 0 THEN 0 ELSE x + g) /\ dent_snap' = snap /\ devices' = devices
    <3>1. dev_stream' = [dev_stream EXCEPT ![r] = IF g = 0 THEN "end" ELSE "open"]
      BY <1>1, <1>3, <1>4 DEF getdents_dev, Listing
    <3>2. dent_idx' = IF g = 0 THEN 0 ELSE dent_idx + g
      BY <1>1, <1>3, <1>4 DEF getdents_dev, Listing, DevOn
    <3>3. dent_snap' = snap /\ devices' = devices
      BY <1>1 DEF getdents_dev
    <3> QED
      BY <1>3, <3>1, <3>2, <3>3
  <2>2. dev_seen' = [q \in DevReaders |-> IF q # r THEN NotAlone ELSE s]
    <3>1. dev_seen' = [q \in DevReaders |->
           IF q # r \/ old.who = "shared" THEN NotAlone
           ELSE [who |-> "alone", expect |-> IF x = 0 THEN devices ELSE old.expect,
                 got |-> old.got \o SubSeq(all, x + 1, x + g)]]
      BY <1>1, <1>3, <1>4, <1>6 DEF getdents_dev, Listing
    <3> QED
      BY <1>7, <3>1
  <2>3. (IF g = 0 THEN 0 ELSE x + g) \in Nat
    BY <1>5
  <2> QED
    BY <2>1, <2>2, <2>3
<1>9. s \in SeenRec /\ SeenOK(st, s, y, snap)
  <2>1. CASE old.who = "shared"
    BY <1>7, <2>1, SeenRecords DEF SeenOK
  <2>2. CASE old.who = "alone"
    <3>0. PICK t : t = old.got \o SubSeq(all, x + 1, x + g)
      OBVIOUS
    <3>1. PICK e \in SUBSET DevNames : e = IF x = 0 THEN devices ELSE old.expect
      <4>1. old.expect \in SUBSET DevNames /\ devices \in SUBSET DevNames
        BY DEF SeenRec, DevInv
      <4> QED
        BY <4>1
    <3>2. s = [who |-> "alone", expect |-> e, got |-> t]
      BY <1>7, <2>2, <3>0, <3>1
    <3>3. snap = InOrder(e) /\ x <= l /\ old.got = SubSeq(all, 1, x)
      <4>1. CASE x = 0
        <5>1. old.got = <<>> /\ snap = InOrder(e) /\ x <= l
          BY <1>2, <1>3, <1>6, <2>2, <3>1, <4>1 DEF SeenOK
        <5>2. SubSeq(all, 1, x) = <<>>
          BY <4>1, SubSeqEmpty
        <5> QED
          BY <5>1, <5>2
      <4>2. CASE x # 0
        BY <1>2, <1>3, <1>6, <2>2, <3>1, <4>2 DEF SeenOK
      <4> QED
        BY <4>1, <4>2
    <3>4. x + g <= l /\ x + g \in Nat /\ x <= x + g
      BY <1>5, <3>3
    <3>5. t = SubSeq(all, 1, x + g)
      <4>1. PICK b \in Nat : b = x + g
        BY <3>4
      <4>2. SubSeq(all, 1, x) \o SubSeq(all, x + 1, b) = SubSeq(all, 1, b)
        BY <1>3, <3>4, <4>1, PiecesJoin
      <4> QED
        BY <3>0, <3>3, <4>1, <4>2
    <3>6. t \in Seq(Nat) /\ Len(t) = x + g /\ \A i \in 1 .. x + g : t[i] = all[i]
      BY <1>3, <3>4, <3>5, StartOf
    <3>7. s \in SeenRec /\ s.who = "alone" /\ s.expect = e /\ s.got = t
      BY <3>2, <3>6, Zenon DEF SeenRec
    <3>8. CASE g = 0
      <4>1. x + g = l
        BY <1>5, <3>3, <3>8
      <4>2. t = all
        BY <1>3, <3>6, <4>1, SeqEqual
      <4> QED
        BY <1>3, <1>8, <3>3, <3>7, <3>8, <4>2 DEF SeenOK
    <3>9. CASE g # 0
      <4>1. y = x + g /\ y # 0 /\ y <= Len(snap) + 2 /\ st = "open"
        BY <1>3, <1>5, <1>8, <3>4, <3>9
      <4> QED
        BY <1>3, <3>3, <3>5, <3>7, <4>1 DEF SeenOK
    <3> QED
      BY <3>8, <3>9
  <2> QED
    BY <2>1, <2>2 DEF SeenRec
<1>10. /\ dev_stream' \in [DevReaders -> {"idle", "open", "end"}] /\ dev_seen' \in [DevReaders -> SeenRec]
       /\ dev_stream'[r] = st /\ dev_seen'[r] = s /\ \A q \in DevReaders \ {r} : dev_seen'[q] = NotAlone
  BY <1>8, <1>9, SeenRecords DEF DevInv
<1>11. ASSUME NEW q \in DevReaders PROVE SeenOK(dev_stream'[q], dev_seen'[q], y, snap)
  <2>1. CASE q = r
    BY <1>9, <1>10, <2>1
  <2>2. CASE q # r
    BY <1>10, <2>2, SeenRecords DEF SeenOK
  <2> QED
    BY <2>1, <2>2
<1>12. devices' \in SUBSET DevNames
  BY <1>8 DEF DevInv
<1> QED
  BY <1>2, <1>8, <1>10, <1>11, <1>12 DEF DevInv

(* A reader that has /dev to itself gets ".", ".." and the devices that were *)
(* registered when it began, once and in order, whatever comes and goes      *)
(* between its calls (devfs.cc, _dent_snap), for any number of devices.      *)
THEOREM ListsSnapshot == DevSpec => []SnapshotListed
<1>1. DevInit => DevInv
  BY DevStart
<1>2. DevInv /\ [DevNext]_devVars => DevInv'
  <2> SUFFICES ASSUME DevInv, [DevNext]_devVars PROVE DevInv'
    OBVIOUS
  <2>1. CASE UNCHANGED devVars
    BY <2>1, DevOther DEF devVars
  <2>2. ASSUME NEW n \in DevNames, register_device(n) \/ unregister_device(n) PROVE DevInv'
    BY <2>2, DevOther DEF register_device, unregister_device
  <2>3. ASSUME NEW r \in DevReaders, open_dev(r) \/ close_dev(r) PROVE DevInv'
    <3>1. UNCHANGED <<dent_idx, dent_snap>>
      BY <2>3 DEF open_dev, close_dev
    <3> QED
      BY <2>3, <3>1, DevOther
  <2>4. ASSUME NEW r \in DevReaders, NEW room \in 1 .. 3, getdents_dev(r, room) PROVE DevInv'
    BY <2>4, DevListStep
  <2> QED
    BY <2>1, <2>2, <2>3, <2>4 DEF DevNext
<1>3. DevInv => SnapshotListed
  BY DEF DevInv, SeenOK, SnapshotListed, Listing
<1> QED
  BY <1>1, <1>2, <1>3, PTL DEF DevSpec

-----------------------------------------------------------------------------
(* tmpfs directories: the tree *)

EntryRec == [name : Names, sub : Dirs]

(* The tree by positions in the lists: a name stands once in a directory, a *)
(* directory is entered once and under one that is older, and one that      *)
(* holds something is entered.                                              *)
UniqueNames ==
  \A d \in Dirs : \A i, j \in 1 .. Len(list[d]) : list[d][i].name = list[d][j].name => i = j

EnteredOnce ==
  \A p, q \in Dirs : \A i \in 1 .. Len(list[p]), j \in 1 .. Len(list[q]) :
    list[p][i].sub = list[q][j].sub /\ list[p][i].sub # 0 => p = q /\ i = j

Younger ==
  \A d \in Dirs : \A i \in 1 .. Len(list[d]) :
    list[d][i].sub # 0 => d < list[d][i].sub /\ list[d][i].sub <= ndirs

IsEntered(d) == \E p \in Dirs : \E i \in 1 .. Len(list[p]) : list[p][i].sub = d

HoldersEntered ==
  \A d \in Dirs : Len(list[d]) > 0 => d <= ndirs /\ (d # 0 => IsEntered(d))

TreeOK ==
  /\ list \in [Dirs -> Seq(EntryRec)] /\ ndirs \in Dirs
  /\ UniqueNames /\ EnteredOnce /\ Younger /\ HoldersEntered

(* An entry of the tree. *)
LEMMA EntryIs ==
  ASSUME TreeOK, NEW d \in Dirs, NEW i \in 1 .. Len(list[d])
  PROVE  /\ list[d] \in Seq(EntryRec) /\ Len(list[d]) \in Nat /\ list[d][i] \in EntryRec
         /\ list[d][i].name \in Names /\ list[d][i].sub \in Dirs /\ list[d][i].sub \in Nat /\ d \in Nat
<1>1. list[d] \in Seq(EntryRec) /\ Len(list[d]) \in Nat
  BY DEF TreeOK
<1>2. list[d][i] \in EntryRec
  BY <1>1
<1> QED
  BY <1>1, <1>2, TmpfsDirAssumption DEF EntryRec, Dirs

(* A directory is entered in one place. *)
LEMMA EnteredAt ==
  ASSUME EnteredOnce, NEW p \in Dirs, NEW q \in Dirs, NEW i \in 1 .. Len(list[p]), NEW j \in 1 .. Len(list[q]),
         list[p][i].sub = list[q][j].sub, list[p][i].sub # 0
  PROVE  p = q /\ i = j
BY ZenonT(60) DEF EnteredOnce

(* The tree of the invariant is the tree of the property. *)
LEMMA TreeIsTree == TreeOK => DirTree
<1> SUFFICES ASSUME TreeOK PROVE DirTree
  OBVIOUS
<1>1. ASSUME NEW d \in Dirs PROVE DOMAIN list[d] = 1 .. Len(list[d]) /\ (list[d] # <<>> => Len(list[d]) > 0)
  <2>1. list[d] \in Seq(EntryRec)
    BY DEF TreeOK
  <2> QED
    BY <2>1, EmptySeq, LenProperties
<1>2. \A d \in Dirs : \A i, j \in DOMAIN list[d] : list[d][i].name = list[d][j].name => i = j
  BY <1>1 DEF TreeOK, UniqueNames
<1>3. ASSUME NEW p \in Dirs, NEW q \in Dirs, NEW e \in Entries(p), NEW g \in Entries(q), e.sub = g.sub, e.sub # None
      PROVE  p = q /\ e = g
  <2>1. PICK i \in 1 .. Len(list[p]) : e = list[p][i]
    BY <1>1 DEF Entries
  <2>2. PICK j \in 1 .. Len(list[q]) : g = list[q][j]
    BY <1>1 DEF Entries
  <2>0. list[p][i].sub = list[q][j].sub /\ list[p][i].sub # 0 /\ EnteredOnce
    BY <1>3, <2>1, <2>2 DEF TreeOK, None
  <2>3. p = q /\ i = j
    BY <2>0, EnteredAt
  <2> QED
    BY <2>1, <2>2, <2>3
<1>4. ASSUME NEW d \in Dirs \ {0}, list[d] # <<>>
      PROVE  \E p \in Dirs \ {d} : \E e \in Entries(p) : e.sub = d
  <2>1. PICK p \in Dirs : \E i \in 1 .. Len(list[p]) : list[p][i].sub = d
    BY <1>1, <1>4 DEF TreeOK, HoldersEntered, IsEntered
  <2>2. PICK i \in 1 .. Len(list[p]) : list[p][i].sub = d
    BY <2>1
  <2>3. p < d
    BY <2>2 DEF TreeOK, Younger
  <2>4. p # d
    BY <2>3, TmpfsDirAssumption DEF Dirs
  <2>5. list[p][i] \in Entries(p)
    BY <1>1 DEF Entries
  <2> QED
    BY <2>2, <2>4, <2>5
<1> QED
  BY <1>2, <1>3, <1>4 DEF DirTree

(* Where what is at j of p now was before an entry was put in front of d. *)
WasAt(d, p, j) == IF p = d THEN j - 1 ELSE j

(* An entry is put in front. *)
LEMMA AddedList ==
  ASSUME list \in [Dirs -> Seq(EntryRec)], NEW d \in Dirs, NEW x \in EntryRec,
         list' = [list EXCEPT ![d] = <<x>> \o @]
  PROVE  /\ list' \in [Dirs -> Seq(EntryRec)] /\ \A p \in Dirs \ {d} : list'[p] = list[p]
         /\ Len(list[d]) \in Nat /\ Len(list'[d]) = Len(list[d]) + 1 /\ list'[d][1] = x
         /\ \A i \in 1 .. Len(list[d]) : list'[d][i + 1] = list[d][i]
<1>1. PICK old \in Seq(EntryRec) : old = list[d] /\ Len(old) \in Nat
  OBVIOUS
<1>2. PICK one \in Seq(EntryRec) : one = <<x>> /\ Len(one) = 1 /\ one[1] = x
  <2>1. <<x>> \in Seq(EntryRec)
    OBVIOUS
  <2>2. Len(<<x>>) = 1 /\ <<x>>[1] = x
    OBVIOUS
  <2> QED
    BY <2>1, <2>2
<1>3. /\ one \o old \in Seq(EntryRec) /\ Len(one \o old) = Len(one) + Len(old)
      /\ \A i \in 1 .. Len(one) + Len(old) : (one \o old)[i] = IF i <= Len(one) THEN one[i] ELSE old[i - Len(one)]
  BY ConcatProperties
<1>4. PICK new \in Seq(EntryRec) : /\ new = one \o old /\ Len(new) = 1 + Len(old)
        /\ \A i \in 1 .. 1 + Len(old) : new[i] = IF i <= 1 THEN one[i] ELSE old[i - 1]
  BY <1>2, <1>3
<1>5. /\ list' \in [Dirs -> Seq(EntryRec)] /\ list'[d] = new /\ \A p \in Dirs \ {d} : list'[p] = list[p]
  BY <1>1, <1>2, <1>4
<1>6. new[1] = x
  BY <1>1, <1>2, <1>4
<1>7. ASSUME NEW i \in 1 .. Len(old) PROVE new[i + 1] = old[i]
  <2>1. i + 1 \in 1 .. 1 + Len(old) /\ ~(i + 1 <= 1) /\ (i + 1) - 1 = i
    BY <1>1
  <2> QED
    BY <1>4, <2>1
<1> QED
  BY <1>1, <1>4, <1>5, <1>6, <1>7

OldEntry(d, p, j) ==
  /\ WasAt(d, p, j) \in 1 .. Len(list[p]) /\ list'[p][j] = list[p][WasAt(d, p, j)]
  /\ WasAt(d, p, j) \in Nat /\ (p = d => j # 1)

NewEntry(d, x, p, j) == p = d /\ j = 1 /\ list'[p][j] = x

(* Every entry is the new one or one that was there, and none is lost. *)
LEMMA AddedEntries ==
  ASSUME list \in [Dirs -> Seq(EntryRec)], NEW d \in Dirs, NEW x \in EntryRec,
         list' = [list EXCEPT ![d] = <<x>> \o @], NEW p \in Dirs
  PROVE  /\ \A j \in 1 .. Len(list'[p]) : NewEntry(d, x, p, j) \/ OldEntry(d, p, j)
         /\ \A i \in 1 .. Len(list[p]) : \E j \in 1 .. Len(list'[p]) : list'[p][j] = list[p][i] /\ j >= i
<1>1. /\ list' \in [Dirs -> Seq(EntryRec)] /\ \A q \in Dirs \ {d} : list'[q] = list[q]
      /\ Len(list[d]) \in Nat /\ Len(list'[d]) = Len(list[d]) + 1 /\ list'[d][1] = x
      /\ \A i \in 1 .. Len(list[d]) : list'[d][i + 1] = list[d][i]
  BY AddedList
<1>2. CASE p # d
  <2>1. list'[p] = list[p] /\ list[p] \in Seq(EntryRec) /\ Len(list[p]) \in Nat
    BY <1>1, <1>2
  <2> QED
    BY <1>2, <2>1 DEF WasAt, OldEntry
<1>3. CASE p = d
  <2>1. ASSUME NEW j \in 1 .. Len(list'[d]), j # 1
        PROVE  j - 1 \in 1 .. Len(list[d]) /\ list'[d][j] = list[d][j - 1] /\ j - 1 \in Nat
    <3>1. j - 1 \in 1 .. Len(list[d]) /\ (j - 1) + 1 = j
      BY <1>1, <2>1
    <3> QED
      BY <1>1, <3>1
  <2>2. ASSUME NEW i \in 1 .. Len(list[d])
        PROVE  \E j \in 1 .. Len(list'[d]) : list'[d][j] = list[d][i] /\ j >= i
    <3>1. i + 1 \in 1 .. Len(list'[d]) /\ list'[d][i + 1] = list[d][i] /\ i + 1 >= i
      BY <1>1
    <3> QED
      BY <3>1
  <2> QED
    BY <1>1, <1>3, <2>1, <2>2 DEF WasAt, OldEntry, NewEntry
<1> QED
  BY <1>2, <1>3

(* A file or a directory is added to the tree. *)
LEMMA TreeAdd ==
  ASSUME TreeOK, NEW d \in Dirs, NEW n \in Names, NEW sub \in Dirs, Reachable(d), NameFree(d, n),
         list' = [list EXCEPT ![d] = <<[name |-> n, sub |-> sub]>> \o @], ndirs' \in Dirs,
         (sub = 0 /\ ndirs' = ndirs) \/ (sub = ndirs + 1 /\ ndirs' = sub)
  PROVE  TreeOK'
<1>0. PICK x \in EntryRec : x = [name |-> n, sub |-> sub] /\ x.name = n /\ x.sub = sub
  BY DEF EntryRec
<1>1. list \in [Dirs -> Seq(EntryRec)] /\ list' = [list EXCEPT ![d] = <<x>> \o @]
  BY <1>0 DEF TreeOK
<1>2. list' \in [Dirs -> Seq(EntryRec)] /\ \A p \in Dirs \ {d} : list'[p] = list[p]
  BY <1>1, AddedList
<1>3. ASSUME NEW p \in Dirs, NEW j \in 1 .. Len(list'[p])
      PROVE  NewEntry(d, x, p, j) \/ OldEntry(d, p, j)
  BY <1>1, AddedEntries
<1>4. ASSUME NEW p \in Dirs, NEW i \in 1 .. Len(list[p])
      PROVE  \E j \in 1 .. Len(list'[p]) : list'[p][j] = list[p][i] /\ j >= i
  BY <1>1, AddedEntries
<1>5. ASSUME NEW p \in Dirs, NEW i \in 1 .. Len(list[p])
      PROVE  /\ list[p][i].sub \in Nat /\ p \in Nat /\ (list[p][i].sub # 0 => p < list[p][i].sub /\ list[p][i].sub <= ndirs)
             /\ (p = d => list[p][i].name # n)
  <2>1. list[p][i].sub \in Nat /\ p \in Nat /\ (list[p][i].sub # 0 => p < list[p][i].sub /\ list[p][i].sub <= ndirs)
    BY EntryIs DEF TreeOK, Younger
  <2>2. list[p] \in Seq(EntryRec)
    BY <1>1
  <2>3. list[p][i] \in Entries(p)
    BY <2>2 DEF Entries
  <2>4. p = d => list[p][i].name # n
    BY <2>3 DEF NameFree, NamesIn
  <2> QED
    BY <2>1, <2>4
<1>6. ndirs \in Nat /\ ndirs' \in Nat /\ ndirs <= ndirs' /\ sub \in Nat /\ d \in Nat
  BY TmpfsDirAssumption DEF TreeOK, Dirs
<1>7. /\ d <= ndirs
      /\ d # 0 => IsEntered(d)
  <2>1. CASE d = 0
    BY <1>6, <2>1
  <2>2. CASE d # 0
    <3>1. PICK p \in Dirs : \E e \in Entries(p) : e.sub = d
      BY <2>2 DEF Reachable
    <3>2. PICK i \in 1 .. Len(list[p]) : list[p][i].sub = d
      <4>1. list[p] \in Seq(EntryRec)
        BY <1>1
      <4>2. DOMAIN list[p] = 1 .. Len(list[p])
        BY <4>1, LenProperties
      <4> QED
        BY <3>1, <4>2 DEF Entries
    <3>3. d <= ndirs
      BY <1>5, <2>2, <3>2
    <3> QED
      BY <3>2, <3>3 DEF IsEntered
  <2> QED
    BY <2>1, <2>2
<1>8. UniqueNames'
  <2> SUFFICES ASSUME NEW p \in Dirs, NEW i \in 1 .. Len(list'[p]), NEW j \in 1 .. Len(list'[p]),
                      list'[p][i].name = list'[p][j].name
               PROVE  i = j
    BY DEF UniqueNames
  <2>1. CASE OldEntry(d, p, i) /\ OldEntry(d, p, j)
    <3>1. PICK a \in 1 .. Len(list[p]), b \in 1 .. Len(list[p]) :
            a = WasAt(d, p, i) /\ b = WasAt(d, p, j) /\ list'[p][i] = list[p][a] /\ list'[p][j] = list[p][b]
      BY <2>1 DEF OldEntry
    <3>2. a = b
      BY <3>1 DEF TreeOK, UniqueNames
    <3> QED
      BY <3>1, <3>2 DEF WasAt
  <2>2. ASSUME NEW a \in 1 .. Len(list'[p]), NEW b \in 1 .. Len(list'[p]), list'[p][a].name = list'[p][b].name,
               NewEntry(d, x, p, a)
        PROVE  a = b
    <3>1. CASE NewEntry(d, x, p, b)
      BY <2>2, <3>1 DEF NewEntry
    <3>2. CASE OldEntry(d, p, b)
      <4>1. list'[p][b].name # n
        BY <1>5, <2>2, <3>2 DEF OldEntry, NewEntry
      <4> QED
        BY <1>0, <2>2, <4>1 DEF NewEntry
    <3> QED
      BY <1>3, <3>1, <3>2
  <2> QED
    BY <1>3, <2>1, <2>2
<1>9. EnteredOnce'
  <2> SUFFICES ASSUME NEW p \in Dirs, NEW q \in Dirs, NEW i \in 1 .. Len(list'[p]), NEW j \in 1 .. Len(list'[q]),
                      list'[p][i].sub = list'[q][j].sub, list'[p][i].sub # 0
               PROVE  p = q /\ i = j
    BY DEF EnteredOnce
  <2>1. CASE OldEntry(d, p, i) /\ OldEntry(d, q, j)
    <3>1. PICK a \in 1 .. Len(list[p]), b \in 1 .. Len(list[q]) :
            a = WasAt(d, p, i) /\ b = WasAt(d, q, j) /\ list'[p][i] = list[p][a] /\ list'[q][j] = list[q][b]
      BY <2>1 DEF OldEntry
    <3>2. list[p][a].sub = list[q][b].sub /\ list[p][a].sub # 0 /\ EnteredOnce
      BY <3>1 DEF TreeOK
    <3>3. p = q /\ a = b
      BY <3>2, EnteredAt, SMTT(40)
    <3> QED
      BY <3>1, <3>3 DEF WasAt
  <2>2. ASSUME NEW u \in Dirs, NEW v \in Dirs, NEW a \in 1 .. Len(list'[u]), NEW b \in 1 .. Len(list'[v]),
               list'[u][a].sub = list'[v][b].sub, list'[u][a].sub # 0, NewEntry(d, x, u, a)
        PROVE  u = v /\ a = b
    <3>1. CASE NewEntry(d, x, v, b)
      BY <2>2, <3>1 DEF NewEntry
    <3>2. CASE OldEntry(d, v, b)
      <4>1. list'[v][b].sub = sub /\ sub # 0
        BY <1>0, <2>2 DEF NewEntry
      <4>2. list'[v][b].sub <= ndirs
        BY <1>5, <3>2, <4>1 DEF OldEntry
      <4> QED
        BY <1>6, <4>1, <4>2
    <3> QED
      BY <1>3, <3>1, <3>2
  <2>3. CASE NewEntry(d, x, p, i)
    BY <2>2, <2>3, ZenonT(60)
  <2>4. CASE NewEntry(d, x, q, j)
    <3>1. list'[q][j].sub = list'[p][i].sub /\ list'[q][j].sub # 0
      OBVIOUS
    <3>2. q = p /\ j = i
      BY <2>2, <2>4, <3>1
    <3> QED
      BY <3>2
  <2>5. (NewEntry(d, x, p, i) \/ OldEntry(d, p, i)) /\ (NewEntry(d, x, q, j) \/ OldEntry(d, q, j))
    BY <1>3
  <2> QED
    BY <2>1, <2>3, <2>4, <2>5
<1>10. Younger'
  <2>0. \A v \in Nat : v <= ndirs => v <= ndirs'
    BY <1>6
  <2> SUFFICES ASSUME NEW p \in Dirs, NEW i \in 1 .. Len(list'[p]), list'[p][i].sub # 0
               PROVE  p < list'[p][i].sub /\ list'[p][i].sub <= ndirs'
    BY DEF Younger
  <2>1. CASE NewEntry(d, x, p, i)
    BY <1>0, <1>6, <1>7, <2>1 DEF NewEntry
  <2>2. CASE OldEntry(d, p, i)
    <3>1. PICK k \in 1 .. Len(list[p]) : list'[p][i] = list[p][k]
      BY <2>2 DEF OldEntry
    <3>2. PICK v \in Nat : v = list'[p][i].sub /\ p < v /\ v <= ndirs
      BY <1>5, <3>1
    <3>3. v <= ndirs'
      BY <2>0, <3>2, Zenon
    <3> QED
      BY <3>2, <3>3
  <2> QED
    BY <1>3, <2>1, <2>2
<1>11. HoldersEntered'
  <2>1. ASSUME NEW p \in Dirs, Len(list'[p]) > 0 PROVE p <= ndirs' /\ (p # 0 => IsEntered(p)')
    <3>1. p <= ndirs /\ (p # 0 => IsEntered(p))
      <4>1. CASE p = d
        BY <1>7, <4>1
      <4>2. CASE p # d
        BY <1>2, <2>1, <4>2 DEF TreeOK, HoldersEntered
      <4> QED
        BY <4>1, <4>2
    <3>2. p <= ndirs'
      BY <1>6, <3>1, TmpfsDirAssumption DEF Dirs
    <3>3. ASSUME IsEntered(p) PROVE IsEntered(p)'
      <4>1. PICK q \in Dirs : \E i \in 1 .. Len(list[q]) : list[q][i].sub = p
        BY <3>3 DEF IsEntered
      <4>2. PICK i \in 1 .. Len(list[q]) : list[q][i].sub = p
        BY <4>1
      <4>3. PICK j \in 1 .. Len(list'[q]) : list'[q][j] = list[q][i]
        BY <1>4
      <4> QED
        BY <4>2, <4>3 DEF IsEntered
    <3> QED
      BY <3>1, <3>2, <3>3
  <2> QED
    BY <2>1 DEF HoldersEntered
<1> QED
  BY <1>2, <1>8, <1>9, <1>10, <1>11 DEF TreeOK

(* Where what is at j of p now was before entry k of d was removed. *)
StoodAt(d, k, p, j) == IF p = d /\ j >= k THEN j + 1 ELSE j

Stays(d, k, p, j) ==
  /\ StoodAt(d, k, p, j) \in 1 .. Len(list[p]) /\ StoodAt(d, k, p, j) >= j
  /\ list'[p][j] = list[p][StoodAt(d, k, p, j)]

(* Entry k is removed: every entry was there, and no other is lost. *)
LEMMA RemovedEntries ==
  ASSUME list \in [Dirs -> Seq(EntryRec)], NEW d \in Dirs, NEW k \in 1 .. Len(list[d]),
         list' = [list EXCEPT ![d] = Unlinked(@, k)], NEW p \in Dirs
  PROVE  /\ list' \in [Dirs -> Seq(EntryRec)]
         /\ \A j \in 1 .. Len(list'[p]) : Stays(d, k, p, j)
         /\ \A i \in 1 .. Len(list[p]) : ~(p = d /\ i = k) => \E j \in 1 .. Len(list'[p]) : list'[p][j] = list[p][i]
<1>1. PICK old \in Seq(EntryRec), l \in Nat : old = list[d] /\ l = Len(old) /\ k \in 1 .. l
  OBVIOUS
<1>2. PICK new : new = [j \in 1 .. l - 1 |-> IF j < k THEN old[j] ELSE old[j + 1]]
  OBVIOUS
<1>3. new = Unlinked(list[d], k)
  BY <1>1, <1>2 DEF Unlinked
<1>4. l - 1 \in Nat /\ \A j \in 1 .. l - 1 : j \in 1 .. l /\ j + 1 \in 1 .. l
  BY <1>1
<1>5. new \in [1 .. l - 1 -> EntryRec]
  <2>1. ASSUME NEW j \in 1 .. l - 1 PROVE (IF j < k THEN old[j] ELSE old[j + 1]) \in EntryRec
    <3>1. old[j] \in EntryRec /\ old[j + 1] \in EntryRec
      BY <1>1, <1>4
    <3> QED
      BY <3>1
  <2> QED
    BY <1>2, <2>1
<1>6. new \in Seq(EntryRec) /\ Len(new) = l - 1 /\ \A j \in 1 .. l - 1 : new[j] = IF j < k THEN old[j] ELSE old[j + 1]
  BY <1>2, <1>4, <1>5
<1>7. /\ list' \in [Dirs -> Seq(EntryRec)] /\ list'[d] = new /\ \A q \in Dirs \ {d} : list'[q] = list[q]
  BY <1>3, <1>6
<1>8. CASE p # d
  <2>1. list'[p] = list[p] /\ list[p] \in Seq(EntryRec) /\ Len(list[p]) \in Nat
    BY <1>7, <1>8
  <2> QED
    BY <1>7, <1>8, <2>1 DEF StoodAt, Stays
<1>9. CASE p = d
  <2>1. ASSUME NEW j \in 1 .. l - 1 PROVE Stays(d, k, p, j)
    <3>1. StoodAt(d, k, p, j) = (IF j < k THEN j ELSE j + 1)
      BY <1>1, <1>9 DEF StoodAt
    <3> QED
      BY <1>1, <1>4, <1>6, <1>7, <1>9, <3>1 DEF Stays
  <2>2. ASSUME NEW i \in 1 .. l, i # k PROVE \E j \in 1 .. l - 1 : new[j] = old[i]
    <3>1. CASE i < k
      <4>1. i \in 1 .. l - 1
        BY <1>1, <3>1
      <4> QED
        BY <1>6, <3>1, <4>1
    <3>2. CASE ~(i < k)
      <4>1. i - 1 \in 1 .. l - 1 /\ ~(i - 1 < k) /\ (i - 1) + 1 = i
        BY <1>1, <2>2, <3>2
      <4>2. new[i - 1] = old[i]
        BY <1>6, <4>1
      <4> QED
        BY <4>1, <4>2
    <3> QED
      BY <3>1, <3>2
  <2> QED
    BY <1>1, <1>6, <1>7, <1>9, <2>1, <2>2
<1> QED
  BY <1>8, <1>9

(* A file, or a directory that holds nothing, is removed from the tree. *)
LEMMA TreeRemove ==
  ASSUME TreeOK, NEW d \in Dirs, NEW k \in 1 .. Len(list[d]), ndirs' = ndirs,
         list' = [list EXCEPT ![d] = Unlinked(@, k)],
         list[d][k].sub # 0 => Len(list[list[d][k].sub]) = 0
  PROVE  TreeOK'
<1>1. list \in [Dirs -> Seq(EntryRec)] /\ ndirs' \in Dirs
  BY DEF TreeOK
<1>2. list' \in [Dirs -> Seq(EntryRec)]
  BY <1>1, RemovedEntries
<1>3. ASSUME NEW p \in Dirs, NEW j \in 1 .. Len(list'[p]) PROVE Stays(d, k, p, j)
  BY <1>1, RemovedEntries
<1>4. ASSUME NEW p \in Dirs, NEW i \in 1 .. Len(list[p]), ~(p = d /\ i = k)
      PROVE  \E j \in 1 .. Len(list'[p]) : list'[p][j] = list[p][i]
  <2>1. \A a \in 1 .. Len(list[p]) : ~(p = d /\ a = k) => \E j \in 1 .. Len(list'[p]) : list'[p][j] = list[p][a]
    BY <1>1, RemovedEntries, ZenonT(60)
  <2> QED
    BY <1>4, <2>1
<1>5. UniqueNames'
  <2> SUFFICES ASSUME NEW p \in Dirs, NEW i \in 1 .. Len(list'[p]), NEW j \in 1 .. Len(list'[p]),
                      list'[p][i].name = list'[p][j].name
               PROVE  i = j
    BY DEF UniqueNames
  <2>1. PICK a \in 1 .. Len(list[p]), b \in 1 .. Len(list[p]) :
          a = StoodAt(d, k, p, i) /\ b = StoodAt(d, k, p, j) /\ list'[p][i] = list[p][a] /\ list'[p][j] = list[p][b]
    BY <1>3 DEF Stays
  <2>2. a = b
    BY <2>1 DEF TreeOK, UniqueNames
  <2>3. k \in Int
    OBVIOUS
  <2> QED
    BY <2>1, <2>2, <2>3 DEF StoodAt
<1>6. EnteredOnce'
  <2> SUFFICES ASSUME NEW p \in Dirs, NEW q \in Dirs, NEW i \in 1 .. Len(list'[p]), NEW j \in 1 .. Len(list'[q]),
                      list'[p][i].sub = list'[q][j].sub, list'[p][i].sub # 0
               PROVE  p = q /\ i = j
    BY DEF EnteredOnce
  <2>1. PICK a \in 1 .. Len(list[p]), b \in 1 .. Len(list[q]) :
          a = StoodAt(d, k, p, i) /\ b = StoodAt(d, k, q, j) /\ list'[p][i] = list[p][a] /\ list'[q][j] = list[q][b]
    BY <1>3 DEF Stays
  <2>2. list[p][a].sub = list[q][b].sub /\ list[p][a].sub # 0 /\ EnteredOnce
    BY <2>1 DEF TreeOK
  <2>3. p = q /\ a = b
    BY <2>2, EnteredAt, SMTT(40)
  <2>4. k \in Int
    OBVIOUS
  <2> QED
    BY <2>1, <2>3, <2>4 DEF StoodAt
<1>7. Younger'
  <2> SUFFICES ASSUME NEW p \in Dirs, NEW i \in 1 .. Len(list'[p]), list'[p][i].sub # 0
               PROVE  p < list'[p][i].sub /\ list'[p][i].sub <= ndirs'
    BY DEF Younger
  <2>1. PICK a \in 1 .. Len(list[p]) : list'[p][i] = list[p][a]
    BY <1>3 DEF Stays
  <2> QED
    BY <2>1 DEF TreeOK, Younger
<1>8. HoldersEntered'
  <2>1. ASSUME NEW p \in Dirs, Len(list'[p]) > 0 PROVE p <= ndirs' /\ (p # 0 => IsEntered(p)')
    <3>1. 1 \in 1 .. Len(list'[p]) /\ Len(list[p]) \in Nat
      BY <1>1, <1>2, <2>1
    <3>2. Len(list[p]) > 0
      <4>1. PICK a : a \in 1 .. Len(list[p])
        BY <1>3, <3>1 DEF Stays
      <4> QED
        BY <3>1, <4>1
    <3>3. p <= ndirs' /\ (p # 0 => IsEntered(p))
      BY <3>2 DEF TreeOK, HoldersEntered
    <3>4. ASSUME p # 0 PROVE IsEntered(p)'
      <4>1. PICK q \in Dirs : \E i \in 1 .. Len(list[q]) : list[q][i].sub = p
        BY <3>3, <3>4 DEF IsEntered
      <4>2. PICK i \in 1 .. Len(list[q]) : list[q][i].sub = p
        BY <4>1
      <4>3. ~(q = d /\ i = k)
        BY <3>2, <3>4, <4>2
      <4>4. PICK j \in 1 .. Len(list'[q]) : list'[q][j] = list[q][i]
        BY <1>4, <4>3
      <4> QED
        BY <4>2, <4>4 DEF IsEntered
    <3> QED
      BY <3>3, <3>4
  <2> QED
    BY <2>1 DEF HoldersEntered
<1> QED
  BY <1>1, <1>2, <1>5, <1>6, <1>7, <1>8 DEF TreeOK

-----------------------------------------------------------------------------
(* tmpfs directories: the readers *)

SinceRec  == [news : SUBSET {"shared", "added", "removed"}, first : SUBSET Names, times : [Names -> 0 .. 2]]
StreamRec == [st : {"idle", "open", "end"}, dir : Dirs]

(* name n stands in list L behind position p *)
Ahead(n, L, p) == \E i \in 1 .. Len(L) : i > p /\ L[i].name = n

(* While entries are only added, what was there at first has been returned or *)
(* is still ahead; while they are only removed, what is ahead has not been   *)
(* returned.                                                                *)
ReaderOK(st, s, L, p) ==
  /\ s.news \subseteq {"added"} => \A n \in s.first : s.times[n] >= 1 \/ (st = "open" /\ Ahead(n, L, p))
  /\ s.news \subseteq {"removed"} =>
       \A n \in Names : s.times[n] <= 1 /\ (st = "open" /\ Ahead(n, L, p) => s.times[n] = 0)

ReadersOK ==
  \A r \in Readers : ReaderOK(stream[r].st, since[r], list[stream[r].dir], dent_pos[stream[r].dir])

DirInv ==
  /\ TreeOK /\ dent_pos \in [Dirs -> Nat]
  /\ stream \in [Readers -> StreamRec] /\ since \in [Readers -> SinceRec]
  /\ ReadersOK

(* Nothing is said of a listing that is shared. *)
LEMMA SharedOK ==
  ASSUME NEW st, NEW s, "shared" \in s.news, NEW L, NEW p
  PROVE  ReaderOK(st, s, L, p)
BY DEF ReaderOK

(* The record of such a listing. *)
LEMMA NoNewsIs == NoNews \in SinceRec /\ "shared" \in NoNews.news /\ \A n \in Names : NoNews.times[n] = 0
<1>1. PICK z : z = [n \in Names |-> 0]
  OBVIOUS
<1>2. z \in [Names -> 0 .. 2] /\ \A n \in Names : z[n] = 0
  BY <1>1
<1>3. NoNews = [news |-> {"shared"}, first |-> {}, times |-> z]
  BY <1>1 DEF NoNews
<1> QED
  BY <1>2, <1>3 DEF SinceRec

(* What News makes of a listing. *)
LEMMA NewsIs ==
  ASSUME NEW s \in SinceRec, NEW what \in {"added", "removed"}
  PROVE  /\ News(s, what) \in SinceRec
         /\ \/ "shared" \in News(s, what).news
            \/ /\ News(s, what).first = s.first /\ News(s, what).times = s.times
               /\ News(s, what).news = s.news \cup {what}
<1>1. PICK nw \in SUBSET {"shared", "added", "removed"} : nw = s.news \cup {what}
  BY DEF SinceRec
<1>2. PICK f \in SUBSET Names, t \in [Names -> 0 .. 2] : f = s.first /\ t = s.times
  BY DEF SinceRec
<1>3. CASE nw = {"added", "removed"}
  BY <1>1, <1>3, NoNewsIs DEF News
<1>4. CASE nw # {"added", "removed"}
  <2>1. News(s, what) = [news |-> nw, first |-> f, times |-> t]
    BY <1>1, <1>2, <1>4 DEF News
  <2> QED
    BY <1>1, <1>2, <2>1 DEF SinceRec
<1> QED
  BY <1>3, <1>4

(* An entry is added in front of what a reader lists. *)
LEMMA AddedReader ==
  ASSUME NEW st, NEW s \in SinceRec, NEW L, NEW p, ReaderOK(st, s, L, p), NEW M, Len(L) \in Nat, p \in Nat,
         \A i \in 1 .. Len(L) : \E j \in 1 .. Len(M) : M[j] = L[i] /\ j >= i
  PROVE  ReaderOK(st, News(s, "added"), M, p)
<1>1. PICK t \in SinceRec : t = News(s, "added")
  BY NewsIs
<1>2. CASE "shared" \in t.news
  BY <1>1, <1>2, SharedOK
<1>3. CASE t.first = s.first /\ t.times = s.times /\ t.news = s.news \cup {"added"}
  <2>1. ASSUME s.news \subseteq {"added"}, NEW n \in s.first PROVE s.times[n] >= 1 \/ (st = "open" /\ Ahead(n, M, p))
    <3>1. CASE s.times[n] >= 1
      BY <3>1
    <3>2. CASE st = "open" /\ Ahead(n, L, p)
      <4>1. PICK i \in 1 .. Len(L) : i > p /\ L[i].name = n
        BY <3>2 DEF Ahead
      <4>2. PICK j \in 1 .. Len(M) : M[j] = L[i] /\ j >= i
        OBVIOUS
      <4>3. j > p
        BY <4>1, <4>2
      <4>4. Ahead(n, M, p)
        BY <4>1, <4>2, <4>3 DEF Ahead
      <4> QED
        BY <3>2, <4>4
    <3> QED
      BY <2>1, <3>1, <3>2 DEF ReaderOK
  <2>2. ~(t.news \subseteq {"removed"}) /\ (t.news \subseteq {"added"} => s.news \subseteq {"added"})
    <3>1. "added" \in t.news /\ s.news \subseteq t.news
      BY <1>3
    <3>2. "added" \notin {"removed"}
      OBVIOUS
    <3> QED
      BY <3>1, <3>2
  <2>3. ReaderOK(st, t, M, p)
    BY <1>3, <2>1, <2>2 DEF ReaderOK
  <2> QED
    BY <1>1, <2>3
<1> QED
  BY <1>1, <1>2, <1>3, NewsIs

(* An entry is removed from what a reader lists. *)
LEMMA RemovedReader ==
  ASSUME NEW st, NEW s \in SinceRec, NEW L, NEW p, ReaderOK(st, s, L, p), NEW M, Len(M) \in Nat, p \in Nat,
         \A j \in 1 .. Len(M) : \E i \in 1 .. Len(L) : M[j] = L[i] /\ i >= j
  PROVE  ReaderOK(st, News(s, "removed"), M, p)
<1>1. PICK t \in SinceRec : t = News(s, "removed")
  BY NewsIs
<1>2. CASE "shared" \in t.news
  BY <1>1, <1>2, SharedOK
<1>3. CASE t.first = s.first /\ t.times = s.times /\ t.news = s.news \cup {"removed"}
  <2>1. ASSUME NEW n \in Names, Ahead(n, M, p) PROVE Ahead(n, L, p)
    <3>1. PICK j \in 1 .. Len(M) : j > p /\ M[j].name = n
      BY <2>1 DEF Ahead
    <3>2. PICK i \in 1 .. Len(L) : M[j] = L[i] /\ i >= j
      OBVIOUS
    <3>3. i > p
      BY <3>1, <3>2
    <3> QED
      BY <3>1, <3>2, <3>3 DEF Ahead
  <2>2. ~(t.news \subseteq {"added"}) /\ (t.news \subseteq {"removed"} => s.news \subseteq {"removed"})
    <3>1. "removed" \in t.news /\ s.news \subseteq t.news
      BY <1>3
    <3>2. "removed" \notin {"added"}
      OBVIOUS
    <3> QED
      BY <3>1, <3>2
  <2>3. ReaderOK(st, t, M, p)
    BY <1>3, <2>1, <2>2 DEF ReaderOK
  <2> QED
    BY <1>1, <2>3
<1> QED
  BY <1>1, <1>2, <1>3, NewsIs

(* name n stands in list L behind position a and up to position b *)
Between(n, L, a, b) == \E i \in 1 .. Len(L) : i > a /\ i <= b /\ L[i].name = n

(* a count goes from k to c when the entries between a and b are returned *)
CountsOn(k, c, n, L, a, b) ==
  /\ c \in 0 .. 2
  /\ Between(n, L, a, b) => c >= 1 /\ (k = 0 => c = 1)
  /\ ~Between(n, L, a, b) => c = k

(* How often a name is in a part of a list where names stand once. *)
LEMMA CappedIs ==
  ASSUME NEW L \in Seq(EntryRec), \A i, j \in 1 .. Len(L) : L[i].name = L[j].name => i = j,
         NEW a \in Nat, NEW b \in Nat, a <= b, a < b => b <= Len(L), NEW n \in Names, NEW k \in 0 .. 2,
         NEW part, part = SubSeq(L, a + 1, b)
  PROVE  CountsOn(k, CappedAdd(k, part, n), n, L, a, b)
<1>0. Len(L) \in Nat /\ b - a \in Nat
  OBVIOUS
<1>1. PICK m \in Int : m = a + 1
  OBVIOUS
<1>2. \A i \in m .. b : L[i] \in EntryRec
  <2>1. TAKE i \in m .. b
  <2>2. i \in 1 .. Len(L)
    BY <1>0, <1>1
  <2> QED
    BY <2>2
<1>3. /\ SubSeq(L, m, b) \in Seq(EntryRec)
      /\ Len(SubSeq(L, m, b)) = IF m <= b THEN b - m + 1 ELSE 0
      /\ \A i \in 1 .. b - m + 1 : SubSeq(L, m, b)[i] = L[m + i - 1]
  BY <1>2, SubSeqProperties
<1>4. part \in Seq(EntryRec) /\ Len(part) = b - a
  BY <1>0, <1>1, <1>3
<1>5. ASSUME NEW i \in 1 .. b - a PROVE part[i] = L[a + i] /\ a + i \in 1 .. Len(L)
  <2>1. i \in 1 .. b - m + 1 /\ m + i - 1 = a + i /\ a + i \in 1 .. Len(L)
    BY <1>0, <1>1
  <2> QED
    BY <1>1, <1>3, <2>1
<1>6. DOMAIN part = 1 .. b - a
  BY <1>4, LenProperties
<1>7. PICK A, c : A = {i \in DOMAIN part : part[i].name = n} /\ c = Cardinality(A)
  OBVIOUS
<1>8. CappedAdd(k, part, n) = IF k + c > 2 THEN 2 ELSE k + c
  BY <1>7 DEF CappedAdd
<1>9. CASE Between(n, L, a, b)
  <2>1. PICK i \in 1 .. Len(L) : i > a /\ i <= b /\ L[i].name = n
    BY <1>9 DEF Between
  <2>2. PICK e \in 1 .. b - a : a + e = i
    <3>1. i - a \in 1 .. b - a /\ a + (i - a) = i
      BY <1>0, <2>1
    <3> QED
      BY <3>1
  <2>3. e \in A
    BY <1>5, <1>6, <1>7, <2>1, <2>2
  <2>4. ASSUME NEW f \in A PROVE f = e
    <3>1. f \in 1 .. b - a /\ part[f].name = n
      BY <1>6, <1>7
    <3>2. a + f \in 1 .. Len(L) /\ L[a + f].name = n
      BY <1>5, <3>1
    <3>3. a + f = i
      BY <2>1, <3>2
    <3> QED
      BY <2>2, <3>1, <3>3
  <2>5. A = {e}
    BY <2>3, <2>4
  <2>6. c = 1
    BY <1>7, <2>5, FS_Singleton
  <2>7. PICK z \in 0 .. 2 : z = CappedAdd(k, part, n) /\ z >= 1 /\ (k = 0 => z = 1)
    BY <1>8, <2>6
  <2> QED
    BY <1>9, <2>7 DEF CountsOn
<1>10. CASE ~Between(n, L, a, b)
  <2>1. ASSUME NEW f \in A PROVE FALSE
    <3>1. f \in 1 .. b - a /\ part[f].name = n
      BY <1>6, <1>7
    <3>2. a + f \in 1 .. Len(L) /\ L[a + f].name = n
      BY <1>5, <3>1
    <3>3. a + f > a /\ a + f <= b
      BY <1>0, <3>1
    <3> QED
      BY <1>10, <3>2, <3>3 DEF Between
  <2>2. A = {}
    BY <2>1
  <2>3. c = 0
    BY <1>7, <2>2, FS_EmptySet
  <2>4. CappedAdd(k, part, n) = k
    BY <1>8, <2>3
  <2> QED
    BY <1>10, <2>4 DEF CountsOn
<1> QED
  BY <1>9, <1>10

(* What a reader's record becomes when part of the list is returned to it. *)
Returned(s, part) ==
  [news |-> s.news, first |-> s.first, times |-> [n \in Names |-> CappedAdd(s.times[n], part, n)]]

NamesOnce(L) == \A i, j \in 1 .. Len(L) : L[i].name = L[j].name => i = j

(* g entries are to be had from position p on, none only at the end *)
Gets(L, p, g) == (g = 0 <=> Len(L) <= p) /\ (g > 0 => p + g <= Len(L))

(* A reader gets the next g entries of its list, or finds the end. *)
LEMMA ListedReader ==
  ASSUME NEW s \in SinceRec, NEW L \in Seq(EntryRec), NEW p \in Nat, ReaderOK("open", s, L, p),
         NamesOnce(L), NEW g \in Nat, Gets(L, p, g),
         NEW part, part = SubSeq(L, p + 1, p + g), NEW t, t = Returned(s, part),
         NEW st, st = IF g = 0 THEN "end" ELSE "open", NEW y, y = IF g = 0 THEN 0 ELSE p + g
  PROVE  t \in SinceRec /\ ReaderOK(st, t, L, y)
<1>0. Len(L) \in Nat
  OBVIOUS
<1>1. PICK b \in Nat : b = p + g /\ p <= b /\ (p < b => b <= Len(L))
  <2>1. p + g \in Nat /\ p <= p + g /\ (p < p + g => p + g <= Len(L))
    BY DEF Gets
  <2> QED
    BY <2>1
<1>2. PICK old \in [Names -> 0 .. 2], f \in SUBSET Names : old = s.times /\ f = s.first
  BY DEF SinceRec
<1>3. PICK new : new = [n \in Names |-> CappedAdd(old[n], part, n)]
  OBVIOUS
<1>4. ASSUME NEW n \in Names
      PROVE  old[n] \in 0 .. 2 /\ CountsOn(old[n], new[n], n, L, p, b)
  <2>1. PICK k \in 0 .. 2 : k = old[n] /\ new[n] = CappedAdd(k, part, n) /\ part = SubSeq(L, p + 1, b)
    BY <1>1, <1>3
  <2>2. CountsOn(k, CappedAdd(k, part, n), n, L, p, b)
    BY <1>1, <2>1, CappedIs DEF NamesOnce
  <2> QED
    BY <2>1, <2>2
<1>5. new \in [Names -> 0 .. 2]
  BY <1>3, <1>4 DEF CountsOn
<1>6. t = [news |-> s.news, first |-> f, times |-> new]
  BY <1>2, <1>3 DEF Returned
<1>7. t \in SinceRec /\ t.news = s.news /\ t.first = f /\ t.times = new
  <2>1. s.news \in SUBSET {"shared", "added", "removed"}
    BY DEF SinceRec
  <2> QED
    BY <1>5, <1>6, <2>1 DEF SinceRec
<1>8. ASSUME NEW n \in Names, Ahead(n, L, p)
      PROVE  Between(n, L, p, b) \/ (st = "open" /\ Ahead(n, L, y))
  <2>1. PICK i \in 1 .. Len(L) : i > p /\ L[i].name = n
    BY <1>8 DEF Ahead
  <2>2. CASE i <= b
    BY <2>1, <2>2 DEF Between
  <2>3. CASE ~(i <= b)
    <3>1. g # 0
      BY <1>0, <2>1 DEF Gets
    <3>2. y = b /\ st = "open"
      BY <1>1, <3>1
    <3>3. i > y
      BY <2>3, <3>2
    <3> QED
      BY <2>1, <3>2, <3>3 DEF Ahead
  <2> QED
    BY <2>2, <2>3
<1>9. ASSUME NEW n \in Names, st = "open", Ahead(n, L, y)
      PROVE  Ahead(n, L, p) /\ ~Between(n, L, p, b)
  <2>1. y = b
    BY <1>1, <1>9
  <2>2. PICK j \in 1 .. Len(L) : j > b /\ L[j].name = n
    BY <1>9, <2>1 DEF Ahead
  <2>3. j > p
    BY <1>1, <2>2
  <2>4. ASSUME NEW i \in 1 .. Len(L), i <= b, L[i].name = n PROVE FALSE
    <3>1. i = j
      BY <2>2, <2>4 DEF NamesOnce
    <3> QED
      BY <2>2, <2>4, <3>1
  <2> QED
    BY <2>2, <2>3, <2>4 DEF Ahead, Between
<1>10. ASSUME s.news \subseteq {"added"}, NEW n \in f PROVE new[n] >= 1 \/ (st = "open" /\ Ahead(n, L, y))
  <2>1. n \in Names /\ (old[n] >= 1 \/ Ahead(n, L, p))
    BY <1>2, <1>10 DEF ReaderOK
  <2> QED
    BY <1>4, <1>8, <2>1 DEF CountsOn
<1>11. ASSUME s.news \subseteq {"removed"}, NEW n \in Names
       PROVE  new[n] <= 1 /\ (st = "open" /\ Ahead(n, L, y) => new[n] = 0)
  <2>1. old[n] <= 1 /\ (Ahead(n, L, p) => old[n] = 0)
    BY <1>2, <1>11 DEF ReaderOK
  <2>2. CASE Between(n, L, p, b)
    <3>1. Ahead(n, L, p)
      BY <2>2 DEF Ahead, Between
    <3>2. new[n] = 1
      BY <1>4, <2>1, <2>2, <3>1 DEF CountsOn
    <3> QED
      BY <1>9, <2>2, <3>2
  <2>3. CASE ~Between(n, L, p, b)
    <3>1. new[n] = old[n]
      BY <1>4, <2>3 DEF CountsOn
    <3> QED
      BY <1>9, <2>1, <3>1
  <2> QED
    BY <2>2, <2>3
<1> QED
  BY <1>7, <1>10, <1>11 DEF ReaderOK

-----------------------------------------------------------------------------
(* tmpfs directories: the steps *)

(* Before the first entry. *)
LEMMA DirStart == TmpfsDirInit => DirInv
<1> SUFFICES ASSUME TmpfsDirInit PROVE DirInv
  OBVIOUS
<1>0. <<>> \in Seq(EntryRec) /\ Len(<<>>) = 0 /\ 0 \in Dirs
  BY EmptySeq, TmpfsDirAssumption DEF Dirs
<1>1. /\ list \in [Dirs -> Seq(EntryRec)] /\ ndirs \in Dirs /\ \A d \in Dirs : Len(list[d]) = 0
  BY <1>0 DEF TmpfsDirInit
<1>2. UniqueNames /\ EnteredOnce /\ Younger /\ HoldersEntered
  BY <1>1 DEF UniqueNames, EnteredOnce, Younger, HoldersEntered
<1>3. dent_pos \in [Dirs -> Nat]
  BY DEF TmpfsDirInit
<1>4. Idle \in StreamRec
  BY <1>0 DEF Idle, StreamRec
<1>5. stream \in [Readers -> StreamRec] /\ since \in [Readers -> SinceRec] /\ \A r \in Readers : since[r] = NoNews
  BY <1>4, NoNewsIs DEF TmpfsDirInit
<1>6. ReadersOK
  BY <1>5, NoNewsIs, SharedOK DEF ReadersOK
<1> QED
  BY <1>1, <1>2, <1>3, <1>5, <1>6 DEF DirInv, TreeOK

(* The list of d changes, and its readers take note. *)
LEMMA NewsReaders ==
  ASSUME DirInv, NEW d \in Dirs, NEW what \in {"added", "removed"}, since' = NewsOf(d, what),
         stream' = stream, dent_pos' = dent_pos, \A p \in Dirs \ {d} : list'[p] = list[p],
         \A st : \A s \in SinceRec : ReaderOK(st, s, list[d], dent_pos[d]) =>
                   ReaderOK(st, News(s, what), list'[d], dent_pos[d])
  PROVE  since' \in [Readers -> SinceRec] /\ ReadersOK'
<1>1. ASSUME NEW r \in Readers
      PROVE  /\ since'[r] = (IF "shared" \notin since[r].news /\ stream[r].dir = d THEN News(since[r], what) ELSE since[r])
             /\ since[r] \in SinceRec /\ since'[r] \in SinceRec /\ stream[r].dir \in Dirs
             /\ ReaderOK(stream[r].st, since[r], list[stream[r].dir], dent_pos[stream[r].dir])
  <2>1. since[r] \in SinceRec /\ stream[r] \in StreamRec /\ ReaderOK(stream[r].st, since[r], list[stream[r].dir], dent_pos[stream[r].dir])
    BY DEF DirInv, ReadersOK
  <2>2. since'[r] = IF "shared" \notin since[r].news /\ stream[r].dir = d THEN News(since[r], what) ELSE since[r]
    BY DEF NewsOf
  <2>3. News(since[r], what) \in SinceRec
    BY <2>1, NewsIs
  <2> QED
    BY <2>1, <2>2, <2>3 DEF StreamRec
<1>2. since' \in [Readers -> SinceRec]
  <2>1. PICK f : f = since' /\ f = NewsOf(d, what)
    OBVIOUS
  <2>2. \A r \in Readers : f[r] \in SinceRec
    BY <1>1, <2>1
  <2>3. f \in [Readers -> SinceRec]
    BY <2>1, <2>2 DEF NewsOf
  <2> QED
    BY <2>1, <2>3
<1>3. ASSUME NEW r \in Readers PROVE ReaderOK(stream[r].st, since'[r], list'[stream[r].dir], dent_pos[stream[r].dir])
  <2>1. CASE "shared" \in since[r].news
    BY <1>1, <2>1, SharedOK
  <2>2. CASE "shared" \notin since[r].news /\ stream[r].dir = d
    <3>1. since'[r] = News(since[r], what) /\ ReaderOK(stream[r].st, since[r], list[d], dent_pos[d]) /\ since[r] \in SinceRec
      BY <1>1, <2>2
    <3>2. ReaderOK(stream[r].st, News(since[r], what), list'[d], dent_pos[d])
      BY <3>1
    <3> QED
      BY <2>2, <3>1, <3>2
  <2>3. CASE stream[r].dir # d
    <3>1. since'[r] = since[r] /\ list'[stream[r].dir] = list[stream[r].dir]
      BY <1>1, <2>3
    <3> QED
      BY <1>1, <3>1
  <2> QED
    BY <2>1, <2>2, <2>3
<1> QED
  BY <1>2, <1>3 DEF ReadersOK

(* create and mkdir. *)
LEMMA DirAddStep ==
  ASSUME DirInv, NEW d \in Dirs, NEW n \in Names, create(d, n) \/ mkdir(d, n)
  PROVE  DirInv'
<1>1. PICK sub \in Dirs : /\ Add(d, n, sub) /\ ndirs' \in Dirs /\ stream' = stream /\ dent_pos' = dent_pos
                          /\ (sub = 0 /\ ndirs' = ndirs) \/ (sub = ndirs + 1 /\ ndirs' = sub)
  <2>1. CASE create(d, n)
    <3>1. Add(d, n, 0) /\ ndirs' = ndirs /\ stream' = stream /\ dent_pos' = dent_pos
      BY <2>1 DEF create, None
    <3>2. 0 \in Dirs /\ ndirs \in Dirs
      BY TmpfsDirAssumption DEF DirInv, TreeOK, Dirs
    <3> QED
      BY <3>1, <3>2
  <2>2. CASE mkdir(d, n)
    <3>1. Add(d, n, ndirs + 1) /\ ndirs' = ndirs + 1 /\ stream' = stream /\ dent_pos' = dent_pos /\ ndirs < MaxDirs
      BY <2>2 DEF mkdir
    <3>2. ndirs + 1 \in Dirs
      BY <3>1, TmpfsDirAssumption DEF DirInv, TreeOK, Dirs
    <3> QED
      BY <3>1, <3>2
  <2> QED
    BY <2>1, <2>2
<1>2. PICK x \in EntryRec : x = [name |-> n, sub |-> sub]
  BY DEF EntryRec
<1>3. /\ Reachable(d) /\ NameFree(d, n) /\ since' = NewsOf(d, "added")
      /\ list' = [list EXCEPT ![d] = <<[name |-> n, sub |-> sub]>> \o @]
  BY <1>1 DEF Add
<1>4. TreeOK /\ list \in [Dirs -> Seq(EntryRec)] /\ list' = [list EXCEPT ![d] = <<x>> \o @]
  BY <1>2, <1>3 DEF DirInv, TreeOK
<1>5. TreeOK'
  BY <1>1, <1>3, <1>4, TreeAdd
<1>6. (\A p \in Dirs \ {d} : list'[p] = list[p]) /\ Len(list[d]) \in Nat /\ dent_pos[d] \in Nat
  BY <1>4, AddedList DEF DirInv
<1>7. \A i \in 1 .. Len(list[d]) : \E j \in 1 .. Len(list'[d]) : list'[d][j] = list[d][i] /\ j >= i
  BY <1>4, AddedEntries
<1>8. ASSUME NEW st, NEW s \in SinceRec, ReaderOK(st, s, list[d], dent_pos[d])
      PROVE  ReaderOK(st, News(s, "added"), list'[d], dent_pos[d])
  BY <1>6, <1>7, <1>8, AddedReader
<1>9. since' \in [Readers -> SinceRec] /\ ReadersOK'
  BY <1>1, <1>3, <1>6, <1>8, NewsReaders
<1> QED
  BY <1>1, <1>5, <1>9 DEF DirInv

(* unlink and rmdir. *)
LEMMA DirRemoveStep ==
  ASSUME DirInv, NEW d \in Dirs, NEW k \in DOMAIN list[d], unlink_file(d, k) \/ rmdir(d, k)
  PROVE  DirInv'
<1>1. /\ list' = [list EXCEPT ![d] = Unlinked(@, k)] /\ since' = NewsOf(d, "removed")
      /\ dent_pos' = dent_pos /\ ndirs' = ndirs /\ stream' = stream
  BY DEF unlink_file, rmdir, Remove
<1>2. TreeOK /\ list \in [Dirs -> Seq(EntryRec)] /\ list[d] \in Seq(EntryRec)
  BY DEF DirInv, TreeOK
<1>3. k \in 1 .. Len(list[d])
  BY <1>2, LenProperties
<1>4. list[d][k].sub # 0 => Len(list[list[d][k].sub]) = 0
  BY EmptySeq DEF unlink_file, rmdir, IsEmpty, None
<1>5. TreeOK'
  BY <1>1, <1>2, <1>3, <1>4, TreeRemove
<1>6. (\A p \in Dirs \ {d} : list'[p] = list[p]) /\ dent_pos[d] \in Nat
  BY <1>1, <1>2 DEF DirInv
<1>7. list' \in [Dirs -> Seq(EntryRec)] /\ \A j \in 1 .. Len(list'[d]) : Stays(d, k, d, j)
  BY <1>1, <1>2, <1>3, RemovedEntries
<1>8. Len(list'[d]) \in Nat /\ \A j \in 1 .. Len(list'[d]) : \E i \in 1 .. Len(list[d]) : list'[d][j] = list[d][i] /\ i >= j
  <2>1. Len(list'[d]) \in Nat
    BY <1>7
  <2>2. ASSUME NEW j \in 1 .. Len(list'[d]) PROVE \E i \in 1 .. Len(list[d]) : list'[d][j] = list[d][i] /\ i >= j
    BY <1>7 DEF Stays
  <2> QED
    BY <2>1, <2>2
<1>9. ASSUME NEW st, NEW s \in SinceRec, ReaderOK(st, s, list[d], dent_pos[d])
      PROVE  ReaderOK(st, News(s, "removed"), list'[d], dent_pos[d])
  BY <1>6, <1>8, <1>9, RemovedReader
<1>10. since' \in [Readers -> SinceRec] /\ ReadersOK'
  BY <1>1, <1>6, <1>9, NewsReaders
<1> QED
  BY <1>1, <1>5, <1>10 DEF DirInv

(* A step that leaves the lists alone keeps the tree. *)
LEMMA TreeSame ==
  ASSUME TreeOK, list' = list, ndirs' = ndirs
  PROVE  TreeOK'
<1>1. (list \in [Dirs -> Seq(EntryRec)] /\ ndirs \in Dirs)'
  BY DEF TreeOK
<1>2. UniqueNames' /\ EnteredOnce'
  BY SMTT(30) DEF TreeOK, UniqueNames, EnteredOnce
<1>3. Younger'
  BY DEF TreeOK, Younger
<1>4. HoldersEntered'
  BY DEF TreeOK, HoldersEntered, IsEntered
<1> QED
  BY <1>1, <1>2, <1>3, <1>4 DEF TreeOK

(* A listing begins. *)
LEMMA DirOpenStep ==
  ASSUME DirInv, NEW r \in Readers, NEW d \in Dirs, opendir(r, d)
  PROVE  DirInv'
<1>1. list' = list /\ dent_pos' = dent_pos /\ ndirs' = ndirs
  BY DEF opendir
<1>2. TreeOK' /\ dent_pos' \in [Dirs -> Nat]
  BY <1>1, TreeSame DEF DirInv
<1>3. PICK new \in StreamRec : new = [st |-> "open", dir |-> d] /\ new.st = "open" /\ new.dir = d
  <2>1. [st |-> "open", dir |-> d] \in StreamRec
    BY DEF StreamRec
  <2> QED
    BY <2>1
<1>4. stream' \in [Readers -> StreamRec] /\ stream'[r] = new /\ \A q \in Readers \ {r} : stream'[q] = stream[q]
  BY <1>3 DEF opendir, DirInv
<1>5. DOMAIN list[d] = 1 .. Len(list[d]) /\ Len(list[d]) \in Nat
  <2>1. list[d] \in Seq(EntryRec)
    BY DEF DirInv, TreeOK
  <2> QED
    BY <2>1, LenProperties
<1>6. PICK f \in SUBSET Names : f = NamesIn(d)
  <2>1. ASSUME NEW n \in NamesIn(d) PROVE n \in Names
    <3>1. PICK i \in 1 .. Len(list[d]) : n = list[d][i].name
      BY <1>5 DEF NamesIn, Entries
    <3>2. TreeOK
      BY DEF DirInv
    <3> QED
      BY <3>1, <3>2, EntryIs
  <2> QED
    BY <2>1
<1>7. PICK z \in [Names -> 0 .. 2] : z = NoNews.times /\ \A n \in Names : z[n] = 0
  BY NoNewsIs DEF SinceRec
<1>8. PICK x \in SinceRec : x = (IF dent_pos[d] = 0 THEN [news |-> {}, first |-> f, times |-> z] ELSE NoNews)
  <2>1. [news |-> {}, first |-> f, times |-> z] \in SinceRec
    BY DEF SinceRec
  <2> QED
    BY <2>1, NoNewsIs
<1>9. since' \in [Readers -> SinceRec] /\ since'[r] = x /\ \A q \in Readers \ {r} : since'[q] = since[q]
  <2>1. since' = [since EXCEPT ![r] = x]
    BY <1>6, <1>7, <1>8 DEF opendir
  <2> QED
    BY <2>1 DEF DirInv
<1>10. ReaderOK("open", x, list[d], dent_pos[d])
  <2>1. CASE dent_pos[d] # 0
    BY <1>8, <2>1, NoNewsIs, SharedOK
  <2>2. CASE dent_pos[d] = 0
    <3>1. x.first = f /\ x.times = z
      BY <1>8, <2>2
    <3>2. ASSUME NEW n \in f PROVE Ahead(n, list[d], 0)
      <4>1. PICK i \in 1 .. Len(list[d]) : n = list[d][i].name
        BY <1>5, <1>6 DEF NamesIn, Entries
      <4>2. i > 0
        OBVIOUS
      <4> QED
        BY <4>1, <4>2 DEF Ahead
    <3>3. \A n \in Names : z[n] <= 1 /\ z[n] = 0
      BY <1>7
    <3> QED
      BY <2>2, <3>1, <3>2, <3>3 DEF ReaderOK
  <2> QED
    BY <2>1, <2>2
<1>11. ReadersOK'
  <2>1. ASSUME NEW q \in Readers
        PROVE  ReaderOK(stream'[q].st, since'[q], list'[stream'[q].dir], dent_pos'[stream'[q].dir])
    <3>1. CASE q = r
      BY <1>1, <1>3, <1>4, <1>9, <1>10, <3>1
    <3>2. CASE q # r
      <4>1. stream'[q] = stream[q] /\ since'[q] = since[q]
        BY <1>4, <1>9, <3>2
      <4>2. ReaderOK(stream[q].st, since[q], list[stream[q].dir], dent_pos[stream[q].dir])
        BY DEF DirInv, ReadersOK
      <4> QED
        BY <1>1, <4>1, <4>2
    <3> QED
      BY <3>1, <3>2
  <2> QED
    BY <2>1 DEF ReadersOK
<1> QED
  BY <1>2, <1>4, <1>9, <1>11 DEF DirInv

(* A listing is given up or over. *)
LEMMA DirCloseStep ==
  ASSUME DirInv, NEW r \in Readers, closedir(r)
  PROVE  DirInv'
<1>1. list' = list /\ dent_pos' = dent_pos /\ ndirs' = ndirs
  BY DEF closedir
<1>2. TreeOK' /\ dent_pos' \in [Dirs -> Nat]
  BY <1>1, TreeSame DEF DirInv
<1>3. Idle \in StreamRec
  BY TmpfsDirAssumption DEF Idle, StreamRec, Dirs
<1>4. stream' \in [Readers -> StreamRec] /\ \A q \in Readers \ {r} : stream'[q] = stream[q]
  BY <1>3 DEF closedir, DirInv
<1>5. since' \in [Readers -> SinceRec] /\ since'[r] = NoNews /\ \A q \in Readers \ {r} : since'[q] = since[q]
  BY NoNewsIs DEF closedir, DirInv
<1>6. ASSUME NEW q \in Readers
      PROVE  ReaderOK(stream'[q].st, since'[q], list'[stream'[q].dir], dent_pos'[stream'[q].dir])
  <2>1. CASE q = r
    BY <1>5, <2>1, NoNewsIs, SharedOK
  <2>2. CASE q # r
    <3>1. stream'[q] = stream[q] /\ since'[q] = since[q]
      BY <1>4, <1>5, <2>2
    <3>2. ReaderOK(stream[q].st, since[q], list[stream[q].dir], dent_pos[stream[q].dir])
      BY DEF DirInv, ReadersOK
    <3> QED
      BY <1>1, <3>1, <3>2
  <2> QED
    BY <2>1, <2>2
<1>7. ReadersOK'
  BY <1>6 DEF ReadersOK
<1> QED
  BY <1>2, <1>4, <1>5, <1>7 DEF DirInv

(* Entries are returned, or the end. *)
LEMMA DirListStep ==
  ASSUME DirInv, NEW r \in Readers, NEW room \in 1 .. 2, getdents(r, room)
  PROVE  DirInv'
<1>1. PICK d \in Dirs : d = stream[r].dir
  BY DEF DirInv, StreamRec
<1>2. PICK L \in Seq(EntryRec), p \in Nat : L = list[d] /\ p = dent_pos[d] /\ Len(L) \in Nat
  BY DEF DirInv, TreeOK
<1>3. PICK g \in Nat : /\ g = (IF Len(L) - p <= 0 THEN 0 ELSE IF Len(L) - p < room THEN Len(L) - p ELSE room)
                       /\ (g = 0 <=> Len(L) <= p) /\ (g > 0 => p + g <= Len(L))
  <2>1. PICK g \in Int : g = (IF Len(L) - p <= 0 THEN 0 ELSE IF Len(L) - p < room THEN Len(L) - p ELSE room)
    BY <1>2
  <2>2. g \in Nat /\ (g = 0 <=> Len(L) <= p) /\ (g > 0 => p + g <= Len(L))
    <3>1. CASE Len(L) - p <= 0
      BY <1>2, <2>1, <3>1
    <3>2. CASE Len(L) - p > 0
      BY <1>2, <2>1, <3>2
    <3> QED
      BY <1>2, <3>1, <3>2
  <2> QED
    BY <2>1, <2>2
<1>4. PICK part : part = SubSeq(L, p + 1, p + g)
  OBVIOUS
<1>5. PICK st \in {"end", "open"}, y \in Nat :
        st = (IF g = 0 THEN "end" ELSE "open") /\ y = (IF g = 0 THEN 0 ELSE p + g)
  OBVIOUS
<1>6. /\ stream[r].st = "open" /\ list' = list /\ ndirs' = ndirs
      /\ dent_pos' = [dent_pos EXCEPT ![d] = y]
      /\ stream' = [stream EXCEPT ![r] = [st |-> st, dir |-> d]]
      /\ since' = [q \in Readers |->
           IF q # r /\ stream[q].dir = d THEN NoNews
           ELSE IF q = r /\ "shared" \notin since[r].news THEN Returned(since[r], part) ELSE since[q]]
  BY <1>1, <1>2, <1>3, <1>4, <1>5, Zenon DEF getdents, Advanced, Returned
<1>7. TreeOK'
  BY <1>6, TreeSame DEF DirInv
<1>8. dent_pos' \in [Dirs -> Nat] /\ dent_pos'[d] = y /\ \A e \in Dirs \ {d} : dent_pos'[e] = dent_pos[e]
  BY <1>6 DEF DirInv
<1>9. PICK new \in StreamRec : new = [st |-> st, dir |-> d] /\ new.st = st /\ new.dir = d
  <2>1. [st |-> st, dir |-> d] \in StreamRec
    BY DEF StreamRec
  <2> QED
    BY <2>1
<1>10. stream' \in [Readers -> StreamRec] /\ stream'[r] = new /\ \A q \in Readers \ {r} : stream'[q] = stream[q]
  BY <1>6, <1>9 DEF DirInv
<1>11. since[r] \in SinceRec /\ ReaderOK("open", since[r], L, p)
  BY <1>1, <1>2, <1>6 DEF DirInv, ReadersOK
<1>12. NamesOnce(L)
  BY <1>2 DEF DirInv, TreeOK, UniqueNames, NamesOnce
<1>13. Returned(since[r], part) \in SinceRec /\ ReaderOK(st, Returned(since[r], part), L, y)
  <2>1. PICK s \in SinceRec : s = since[r]
    BY <1>11
  <2>2. st = (IF g = 0 THEN "end" ELSE "open") /\ y = (IF g = 0 THEN 0 ELSE p + g) /\ ReaderOK("open", s, L, p)
    BY <1>5, <1>11, <2>1
  <2>3. Gets(L, p, g)
    BY <1>3 DEF Gets
  <2>4. Returned(s, part) \in SinceRec /\ ReaderOK(st, Returned(s, part), L, y)
    BY <1>4, <1>12, <2>2, <2>3, ListedReader
  <2> QED
    BY <2>1, <2>4
<1>14. ASSUME NEW q \in Readers
       PROVE  /\ since'[q] \in SinceRec
              /\ ReaderOK(stream'[q].st, since'[q], list'[stream'[q].dir], dent_pos'[stream'[q].dir])
  <2>1. /\ since[q] \in SinceRec /\ stream[q].dir \in Dirs
        /\ ReaderOK(stream[q].st, since[q], list[stream[q].dir], dent_pos[stream[q].dir])
    BY DEF DirInv, ReadersOK, StreamRec
  <2>2. CASE q # r /\ stream[q].dir = d
    <3>1. since'[q] = NoNews
      BY <1>6, <2>2
    <3> QED
      BY <3>1, NoNewsIs, SharedOK
  <2>3. CASE q # r /\ stream[q].dir # d
    <3>1. since'[q] = since[q] /\ stream'[q] = stream[q] /\ dent_pos'[stream[q].dir] = dent_pos[stream[q].dir]
      BY <1>6, <1>8, <1>10, <2>1, <2>3
    <3> QED
      BY <1>6, <2>1, <3>1
  <2>4. CASE q = r /\ "shared" \in since[r].news
    <3>1. since'[q] = since[q]
      BY <1>6, <2>4
    <3> QED
      BY <2>1, <2>4, <3>1, SharedOK
  <2>5. CASE q = r /\ "shared" \notin since[r].news
    <3>1. since'[q] = Returned(since[r], part)
      BY <1>6, <2>5
    <3>2. stream'[q].st = st /\ stream'[q].dir = d /\ list'[d] = L /\ dent_pos'[d] = y
      BY <1>2, <1>6, <1>8, <1>9, <1>10, <2>5
    <3> QED
      BY <1>13, <3>1, <3>2
  <2> QED
    BY <2>2, <2>3, <2>4, <2>5
<1>15. since' \in [Readers -> SinceRec]
  <2>1. PICK f : f = since' /\ DOMAIN f = Readers /\ f = [q \in Readers |-> f[q]]
    BY <1>6
  <2>2. \A q \in Readers : f[q] \in SinceRec
    BY <1>14, <2>1
  <2>3. f \in [Readers -> SinceRec]
    BY <2>1, <2>2
  <2> QED
    BY <2>1, <2>3
<1>16. ReadersOK'
  BY <1>14 DEF ReadersOK
<1> QED
  BY <1>7, <1>8, <1>10, <1>15, <1>16 DEF DirInv

(* Every step keeps the invariant. *)
LEMMA DirKeeps == DirInv /\ [TmpfsDirNext]_tmpdirVars => DirInv'
<1> SUFFICES ASSUME DirInv, [TmpfsDirNext]_tmpdirVars PROVE DirInv'
  OBVIOUS
<1>1. ASSUME NEW d \in Dirs, NEW n \in Names, create(d, n) \/ mkdir(d, n) PROVE DirInv'
  BY <1>1, DirAddStep
<1>2. ASSUME NEW d \in Dirs, NEW i \in DOMAIN list[d], unlink_file(d, i) \/ rmdir(d, i) PROVE DirInv'
  BY <1>2, DirRemoveStep
<1>3. ASSUME NEW r \in Readers, NEW d \in Dirs, opendir(r, d) PROVE DirInv'
  BY <1>3, DirOpenStep
<1>4. ASSUME NEW r \in Readers, NEW room \in 1 .. 2, getdents(r, room) PROVE DirInv'
  BY <1>4, DirListStep
<1>5. ASSUME NEW r \in Readers, closedir(r) PROVE DirInv'
  BY <1>5, DirCloseStep
<1>6. CASE UNCHANGED tmpdirVars
  BY <1>6, TreeSame DEF tmpdirVars, DirInv, ReadersOK
<1> QED
  BY <1>1, <1>2, <1>3, <1>4, <1>5, <1>6 DEF TmpfsDirNext

(* The invariant gives the property. *)
LEMMA DirInvSound == DirInv => DirectoriesSound
<1> SUFFICES ASSUME DirInv PROVE DirectoriesSound
  OBVIOUS
<1>1. DirTree
  BY TreeIsTree DEF DirInv
<1>2. \A r \in Readers : ReaderOK(stream[r].st, since[r], list[stream[r].dir], dent_pos[stream[r].dir])
  BY DEF DirInv, ReadersOK
<1>3. NoneMissed
  BY <1>2 DEF NoneMissed, ReaderOK
<1>4. NoneTwice
  BY <1>2 DEF NoneTwice, ReaderOK
<1> QED
  BY <1>1, <1>3, <1>4 DEF DirectoriesSound

(* However directories are made, removed and listed at the same time        *)
(* (Tmpfs_dir), they stay a tree, and a reader that has the position to     *)
(* itself misses nothing that was there while entries are only added and    *)
(* gets nothing twice while they are only removed.                          *)
THEOREM DirectoriesKept == TmpfsDirSpec => []DirectoriesSound
<1>1. TmpfsDirSpec => []DirInv
  BY DirStart, DirKeeps, PTL DEF TmpfsDirSpec
<1> QED
  BY <1>1, DirInvSound, PTL
=============================================================================
