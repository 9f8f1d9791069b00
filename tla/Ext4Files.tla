------------------------------ MODULE Ext4Files ------------------------------
(***************************************************************************)
(* One file of the ext4 server and the processes that have it open: the    *)
(* per-open server object (filesystem/ext4/server/src/ext4_file_svr.cc),   *)
(* the lookup that makes it (ext4_ns.cc, op_query), and the client library *)
(* on top (client/src/ext4_vfs.cc), which moves data in chunks through a   *)
(* bounce buffer and keeps a copy of the size.                             *)
(*                                                                         *)
(* The server has one thread, so an RPC is one step; what the client does  *)
(* between two RPCs touches only its own handle and belongs to the step of *)
(* the RPC before.  A handle is used by one thread at a time.  Bytes are   *)
(* numbered in the order in which clients hand them to pwritev; 0 is the   *)
(* byte of a hole, which nobody wrote.  lwext4 is external: an ext4_file   *)
(* has the size of the file in a field of its own, brought up to date by   *)
(* reading, writing and truncating, and trusted by ext4_fseek, which       *)
(* refuses to go beyond it and takes it for the end.                       *)
(***************************************************************************)
EXTENDS Integers, Sequences, FiniteSets

CONSTANTS
  Clients,        \* processes; each has the file open at most once
  BUF_SIZE,       \* bytes in the bounce buffer (64 KiB in the code)
  MaxRw,          \* bound: longest read or write
  MaxBytes,       \* bound: bytes ever written
  MaxOff,         \* bound: offsets of reads and writes, and sizes to truncate to
  MaxOpens        \* bound: lookups of the file

ASSUME Ext4Assumption ==
  /\ IsFiniteSet(Clients) /\ BUF_SIZE \in Nat \ {0}
  /\ MaxRw \in Nat \ {0} /\ MaxBytes \in Nat /\ MaxOff \in Nat /\ MaxOpens \in Nat

VARIABLES
  file,           \* the bytes of the file
  handle,         \* per client: the Ext4_file_vfs, if any, and the fsize of
                  \* the ext4_file in its server object
  op,             \* per client: the preadv or pwritev that is running
  svr_objs,       \* Ext4_file_svr objects in the registry of the server
  opens, fresh,   \* lookups made and bytes numbered so far
  hist            \* history, for the properties only

ext4Vars == <<file, handle, op, svr_objs, opens, fresh, hist>>

NoHandle == [st |-> "none", size |-> 0, fsize |-> 0, append |-> FALSE]
NoOp     == [kind |-> "none", pos |-> 0, data |-> <<>>, want |-> 0,
             calls |-> 0]        \* calls is history: the RPCs made

Smaller(a, b) == IF a < b THEN a ELSE b
Larger(a, b)  == IF a > b THEN a ELSE b
Bytes(s)      == {s[i] : i \in DOMAIN s}

-----------------------------------------------------------------------------
(* lwext4 (external): bytes s written at off; what is between the end of   *)
(* the file and off becomes a hole                                         *)
Overlay(f, off, s) ==
  [i \in 1 .. Larger(Len(f), off + Len(s)) |->
     IF i > off /\ i <= off + Len(s) THEN s[i - off] ELSE IF i <= Len(f) THEN f[i] ELSE 0]

(* lwext4 (external): n bytes read at off; beyond the end there is nothing *)
(* or a hole                                                               *)
BytesAt(off, n) ==
  IF off <= Len(file) THEN {SubSeq(file, off + 1, off + Smaller(n, Len(file) - off))}
                      ELSE {<<>>, [i \in 1 .. n |-> 0]}

(* What op_pwrite and op_pappend can do with the ext4_file of c: nothing,  *)
(* when ext4_fseek fails; all bytes; or an error after some of them        *)
(* (ext4_fwrite failed, or wc # len).  end is its fsize afterwards.        *)
Result(f, put) == [f |-> f, put |-> put, end |-> Len(f)]

Written(c, off, s) ==
  LET nothing == [f |-> file, put |-> 0, end |-> handle[c].fsize]
  IN  IF off > handle[c].fsize THEN {nothing} ELSE
      {Result(Overlay(file, off, s), Len(s)), Result(file, 0), nothing}
        \cup {Result(Overlay(file, off, SubSeq(s, 1, k)), 0) : k \in 0 .. Len(s)}

(* lwext4 (external), ext4_ftruncate: it never makes a file longer, and a  *)
(* long cut is made in pieces, of which one may fail                       *)
Truncated(n) ==
  LET m == Smaller(n, Len(file))
  IN  {[f |-> SubSeq(file, 1, m), ok |-> TRUE, end |-> m]}
        \cup {[f |-> SubSeq(file, 1, k), ok |-> FALSE, end |-> Len(file)] : k \in m .. Len(file)}

(* Mutant: the end is the one the client remembers *)
RememberedEnd(c) == handle[c].size

(* op_pappend: seek to the end and write there, in the same RPC; the end   *)
(* is the one of this ext4_file                                            *)
append_offset(c) == handle[c].fsize

-----------------------------------------------------------------------------
(* f has all of g, at the same places *)
Extends(f, g) == Len(g) <= Len(f) /\ \A i \in 1 .. Len(g) : f[i] = g[i]

(* History.                                                                *)
(*   kept     bytes that appends reported, less those that a pwrite        *)
(*            replaced or a truncation cut off                             *)
(*   unseen   per client: what others wrote since the fsize of its         *)
(*            ext4_file was last brought up to date                        *)
(*   overrun  what was unseen by a client when it appended                 *)
(*   alone    nobody else changed the file since the handle was opened,    *)
(*            and all calls of its own did what they were asked            *)
(*   cut      another handle cut the file, or an ftruncate of its own      *)
(*            asked for more than there is or failed halfway               *)
(*   steady   the file has only grown since the read began                 *)
(*   stray    server objects that no handle refers to                      *)
(* Changed: c makes f of the file, writing s.                              *)
Changed(c, f, s, end, append) ==
  [hist EXCEPT
    !.kept    = IF append THEN @ ELSE @ \ (Bytes(file) \ Bytes(f)),
    !.overrun = IF append THEN @ \cup (hist.kept \cap hist.unseen[c]) ELSE @,
    !.unseen  = [d \in Clients |->
                   IF d # c THEN Bytes(f) \cap (@[d] \cup (IF handle[d].st = "valid" THEN Bytes(s) ELSE {}))
                   ELSE IF end = Len(f) THEN {} ELSE @[c]],
    !.alone   = {d \in @ : d = c \/ f = file},
    !.cut     = @ \cup {d \in Clients : handle[d].st = "valid" /\ d # c /\ Len(f) < Len(file)},
    !.steady  = {d \in @ : Extends(f, file)}]

(* c has no handle any more; left is the number of objects it left behind *)
Forgotten(c, left) ==
  [hist EXCEPT !.alone = @ \ {c}, !.cut = @ \ {c}, !.steady = @ \ {c}, !.unseen[c] = {},
               !.stray = @ + left]

(* Namespace lookup of the file: a server object for every call *)
op_query(c) ==
  /\ handle[c].st = "none" /\ opens < MaxOpens
  /\ opens' = opens + 1 /\ svr_objs' = svr_objs + 1
  /\ handle' = [handle EXCEPT ![c].st = "found"]
  /\ UNCHANGED <<file, op, fresh, hist>>

(* A lookup of "file/rest": the object is made and the reply says that the *)
(* name is partly resolved; the client cannot go on and drops the cap.     *)
op_query_partly ==
  /\ opens < MaxOpens
  /\ opens' = opens + 1 /\ svr_objs' = svr_objs + 1
  /\ hist' = [hist EXCEPT !.stray = @ + 1]
  /\ UNCHANGED <<file, handle, op, fresh>>

(* Ext4_file_vfs(): setup hands out buffer and size; with an error from it *)
(* or from the mapping of the buffer the handle stays invalid.             *)
op_setup(c) ==
  /\ handle[c].st = "found"
  /\ \/ \E a \in BOOLEAN :       \* set_status_flags: opened with O_APPEND or not
          handle' = [handle EXCEPT ![c] = [st |-> "valid", size |-> Len(file),
                                           fsize |-> Len(file), append |-> a]]
     \/ handle' = [handle EXCEPT ![c].st = "invalid"]
  /\ hist' = [hist EXCEPT !.alone = @ \cup {c}]
  /\ UNCHANGED <<file, op, svr_objs, opens, fresh>>

(* Mutant: only a handle that worked is released *)
ReleasedIfValid(c) == handle[c].st = "valid"

(* the destructor calls release whatever the constructor reached *)
released(c) == TRUE

(* ~Ext4_file_vfs() and op_release: the object unregisters and deletes itself *)
op_release(c) ==
  /\ handle[c].st \in {"valid", "invalid"} /\ op[c].kind = "none"
  /\ svr_objs' = svr_objs - (IF released(c) THEN 1 ELSE 0)
  /\ handle' = [handle EXCEPT ![c] = NoHandle]
  /\ hist' = Forgotten(c, 0)
  /\ UNCHANGED <<file, op, opens, fresh>>

(* The process is killed: no destructor runs, and the server is not told *)
client_dies(c) ==
  /\ handle[c].st # "none"
  /\ handle' = [handle EXCEPT ![c] = NoHandle] /\ op' = [op EXCEPT ![c] = NoOp]
  /\ hist' = Forgotten(c, 1)
  /\ UNCHANGED <<file, svr_objs, opens, fresh>>

-----------------------------------------------------------------------------
(* preadv: n bytes from off on *)
preadv(c, off, n) ==
  /\ handle[c].st = "valid" /\ op[c].kind = "none"
  /\ op' = [op EXCEPT ![c] = [NoOp EXCEPT !.kind = "read", !.pos = off, !.want = n]]
  /\ hist' = [hist EXCEPT !.steady = IF off <= Len(file) THEN @ \cup {c} ELSE @ \ {c}]
  /\ UNCHANGED <<file, handle, svr_objs, opens, fresh>>

(* preadv ends at end of file (nothing, or less than asked) and when full *)
read_done(got, chunk, left) == got = 0 \/ got < chunk \/ left = 0

(* Mutant: every chunk is read at the place of the first *)
NotAdvanced(o, got) == o.pos

(* where the next chunk is read *)
read_on(o, got) == o.pos + got

(* ext4_fread, like ext4_fwrite, begins with the size in the inode; S are  *)
(* the steady readers afterwards                                           *)
Synced(c, S) ==
  /\ op[c].pos <= handle[c].fsize                             \* ext4_fseek
  /\ handle' = [handle EXCEPT ![c].fsize = Len(file)]
  /\ hist' = [hist EXCEPT !.unseen[c] = {}, !.steady = S]

read_chunk(c) ==
  LET o     == op[c]
      chunk == Smaller(o.want, BUF_SIZE)
  IN  /\ o.kind = "read"
      /\ \/ /\ Synced(c, hist.steady)
            /\ \E s \in BytesAt(o.pos, chunk) :
                 LET left == o.want - Len(s)
                 IN  op' = [op EXCEPT ![c] =
                       [kind |-> IF read_done(Len(s), chunk, left) THEN "did_read" ELSE "read",
                        pos  |-> read_on(o, Len(s)), data |-> o.data \o s,
                        want |-> left, calls |-> o.calls + 1]]
         \/ /\ op' = [op EXCEPT ![c] = NoOp]       \* the bytes before count, or EIO
            /\ \/ Synced(c, hist.steady \ {c})               \* ext4_fread failed
               \/ /\ UNCHANGED handle                        \* ext4_fseek failed
                  /\ hist' = [hist EXCEPT !.steady = @ \ {c}]
      /\ UNCHANGED <<file, svr_objs, opens, fresh>>

(* preadv returns the bytes it has *)
read_return(c) ==
  /\ op[c].kind = "did_read"
  /\ op' = [op EXCEPT ![c] = NoOp]
  /\ hist' = [hist EXCEPT !.steady = @ \ {c}]
  /\ UNCHANGED <<file, handle, svr_objs, opens, fresh>>

(* pwritev: the next n bytes, at off or, with O_APPEND, at the end; the    *)
(* offset plays no part then and is taken as 0                             *)
pwritev(c, off, n) ==
  /\ handle[c].st = "valid" /\ op[c].kind = "none" /\ fresh + n <= MaxBytes
  /\ handle[c].append => off = 0
  /\ op' = [op EXCEPT ![c] = [NoOp EXCEPT !.kind = "write", !.pos = off,
                                          !.data = [i \in 1 .. n |-> fresh + i]]]
  /\ fresh' = fresh + n
  /\ UNCHANGED <<file, handle, svr_objs, opens, hist>>

(* Mutant: the size follows the position *)
SizeIsPosition(size, pos) == pos

(* _size grows with the position *)
grown(size, pos) == Larger(size, pos)

write_chunk(c) ==
  LET o     == op[c]
      a     == handle[c].append
      chunk == SubSeq(o.data, 1, Smaller(Len(o.data), BUF_SIZE))
      rest  == SubSeq(o.data, Len(chunk) + 1, Len(o.data))
      at    == IF a THEN append_offset(c) ELSE o.pos
  IN  /\ o.kind = "write"
      /\ \E w \in Written(c, at, chunk) :
           LET r == Changed(c, w.f, chunk, w.end, a)
           IN  /\ file' = w.f
               /\ \/ /\ w.put > 0
                     /\ op' = [op EXCEPT ![c] = IF rest = <<>> THEN NoOp
                                 ELSE [o EXCEPT !.pos = IF a THEN 0 ELSE at + w.put,
                                                !.data = rest, !.calls = o.calls + 1]]
                     /\ handle' = [handle EXCEPT ![c].size = grown(@, at + w.put),
                                                 ![c].fsize = w.end]
                     /\ hist' = [r EXCEPT !.kept = IF a THEN @ \cup Bytes(chunk) ELSE @]
                  \/ /\ w.put = 0                   \* the bytes before count, or EIO
                     /\ op' = [op EXCEPT ![c] = NoOp]
                     /\ handle' = [handle EXCEPT ![c].fsize = w.end]
                     /\ hist' = [r EXCEPT !.alone = @ \ {c}]
      /\ UNCHANGED <<svr_objs, opens, fresh>>

(* ftruncate to any size: with an error the client keeps its _size *)
ftruncate(c, n) ==
  /\ handle[c].st = "valid" /\ op[c].kind = "none"
  /\ \E w \in Truncated(n) :
       LET done == w.ok /\ n <= Len(file)
       IN  /\ file' = w.f
           /\ handle' = [handle EXCEPT ![c].size = IF w.ok THEN n ELSE @, ![c].fsize = w.end]
           /\ hist' = [Changed(c, w.f, <<>>, w.end, FALSE) EXCEPT
                         !.alone = IF done THEN @ ELSE @ \ {c},
                         !.cut   = IF done THEN @ ELSE @ \cup {c}]
  /\ UNCHANGED <<op, svr_objs, opens, fresh>>

Ext4Init ==
  /\ file = <<>>
  /\ handle = [c \in Clients |-> NoHandle] /\ op = [c \in Clients |-> NoOp]
  /\ svr_objs = 0 /\ opens = 0 /\ fresh = 0
  /\ hist = [kept |-> {}, overrun |-> {0}, unseen |-> [c \in Clients |-> {}], stray |-> 0,
             alone |-> {}, cut |-> {}, steady |-> {}]

Ext4Next ==
  \/ op_query_partly
  \/ \E c \in Clients :
       \/ op_query(c) \/ op_setup(c) \/ op_release(c) \/ client_dies(c)
       \/ \E off \in 0 .. MaxOff : preadv(c, off, MaxRw)
       \/ \E off \in 0 .. MaxOff, n \in 1 .. MaxRw : pwritev(c, off, n)
       \/ \E n \in 0 .. MaxOff : ftruncate(c, n)
       \/ read_chunk(c) \/ write_chunk(c) \/ read_return(c)

Ext4Spec == Ext4Init /\ [][Ext4Next]_ext4Vars

-----------------------------------------------------------------------------
(* Properties *)

Ext4TypeOK ==
  /\ file \in Seq(0 .. MaxBytes)
  /\ handle \in [Clients -> [st : {"none", "found", "valid", "invalid"},
                             size : Nat, fsize : Nat, append : BOOLEAN]]
  /\ op \in [Clients -> [kind : {"none", "read", "did_read", "write"},
                         pos : Nat, data : Seq(0 .. MaxBytes), want : 0 .. MaxRw,
                         calls : Nat]]
  /\ svr_objs \in Nat /\ opens \in 0 .. MaxOpens /\ fresh \in 0 .. MaxBytes

(* "Concurrent appenders never overwrite each other" (ext4_vfs.cc,         *)
(* pwritev): every byte that an append has reported as written is in the   *)
(* file, unless a pwrite or a truncation hit it.  It is not so: op_pappend *)
(* goes to the end that its own ext4_file remembers.                       *)
AppendsKept == hist.kept \subseteq Bytes(file)

(* What op_pappend does guarantee: an append destroys no reported byte but *)
(* those that others wrote since the same handle last read, wrote or       *)
(* truncated.                                                              *)
SeenAppendsKept == hist.kept \ hist.overrun \subseteq Bytes(file)

(* fstat's cached size: a handle takes the file for longer than it is only *)
(* if another handle has cut it since, or an ftruncate of its own asked    *)
(* for more than there is, which lwext4 leaves alone, or failed halfway    *)
(* (ext4_vfs.cc, _size).                                                   *)
SizeNeverAhead ==
  \A c \in Clients :
    handle[c].st = "valid" => handle[c].size <= Len(file) \/ c \in hist.cut

(* The cached size and that of the server object are right while nobody    *)
(* else changes the file and the handle's own calls do what they are asked.*)
SizeExactAlone ==
  \A c \in Clients :
    handle[c].st = "valid" /\ c \in hist.alone =>
      handle[c].size = Len(file) /\ handle[c].fsize = Len(file)

(* The size a handle remembers, which fstat and SEEK_END answer, is wrong  *)
(* only through other handles and failed or growing truncations: both      *)
(* statements above.                                                       *)
CachedSize == SizeNeverAhead /\ SizeExactAlone

(* A read in several chunks is not torn while the file only grows between  *)
(* them: the bytes are those of the file from the offset on (ext4_vfs.cc,  *)
(* preadv).                                                                *)
ReadNotTorn ==
  \A c \in Clients :
    LET o == op[c]
        n == Len(o.data)
    IN  o.kind \in {"read", "did_read"} /\ c \in hist.steady =>
          n <= o.pos /\ o.data = SubSeq(file, o.pos - n + 1, o.pos)

(* A read that ends with less than asked met the end of the file as it was *)
(* at that moment, unless an RPC failed, which a short count may hide from *)
(* the caller (ext4_vfs.cc, "short read => EOF reached").                  *)
ShortReadIsEOF ==
  \A c \in Clients :
    op[c].kind = "read" /\ op'[c].kind = "did_read" /\ op'[c].want > 0
      => Len(file) <= op'[c].pos

(* The server keeps one object for every open handle, and beyond those     *)
(* only what a killed client or a half resolved name left behind: nothing  *)
(* is freed twice and nothing else leaks (ext4_file_svr.cc, op_release).   *)
ObjectsAccounted ==
  svr_objs = Cardinality({c \in Clients : handle[c].st # "none"}) + hist.stray

(* A read or write is over after as many RPCs as its bytes fill buffers,  *)
(* whatever others append or cut between them: the loops of preadv and     *)
(* pwritev never ask again for bytes that are not there.                   *)
CallsBounded == \A c \in Clients : (op[c].calls - 1) * BUF_SIZE < MaxRw

(* A read of several RPCs, with others at work on the file between them,   *)
(* is whole, ends, and ends short only at the end of the file.             *)
ReadsSound == [][ReadNotTorn' /\ CallsBounded' /\ ShortReadIsEOF]_ext4Vars

=============================================================================
