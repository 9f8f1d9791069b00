------------------------------ MODULE Syslogd ------------------------------
(***************************************************************************)
(* syslogd (pkg/syslogd/server/src/main.cc) and a process that logs to it. *)
(*                                                                         *)
(* klog_write sends an entry after it has left g_lock, so that two threads *)
(* may send in the other order than they numbered; the send does not wait: *)
(* a message that finds the server inside op_log is lost.  op_log appends  *)
(* to a stdio stream and closes and reopens the file to flush it: after    *)
(* every warning, and when REOPEN_BYTES have been written.                 *)
(*                                                                         *)
(* The file is that of Klog.tla: LOG_PATH and KLOG_FILE_PATH are the same. *)
(* A line is its entry and a length; the longest line klog_write can send  *)
(* (200 characters of message) fits line[320].                             *)
(***************************************************************************)
EXTENDS Klog

CONSTANTS
  REOPEN_BYTES,   \* 3000 in the code
  LineLens        \* the lengths of lines

ASSUME SyslogdAssumption ==
  /\ REOPEN_BYTES \in Nat \ {0}
  /\ LineLens # {} /\ LineLens \subseteq Nat \ {0}

VARIABLES
  at,             \* where the server is: "wait" (for a message), "open",
                  \* "write" or "flush" in op_log
  line,           \* the line op_log works on
  fopened,        \* _f is not null
  written,        \* _written
  buffer,         \* lines in the stream's buffer, not yet in the file
  taken           \* history: the lines received, in order

sysvars == <<at, line, fopened, written, buffer, taken>>

NoLine == [seq |-> 0, level |-> "WARN", by |-> CHOOSE t \in Threads : TRUE, len |-> 0]

Seqs(ls) == [i \in DOMAIN ls |-> ls[i].seq]

(* reopen: fclose writes the buffer out; then fopen, which may fail *)
Reopened(ok) ==
  /\ fopened' = ok /\ written' = 0 /\ buffer' = <<>>
  /\ file' = file \o Seqs(buffer)

-----------------------------------------------------------------------------
(* A send while the server waits for a message is received... *)
log_received(t) ==
  /\ klog_send(t)
  /\ at = "wait"
  /\ \E n \in LineLens :
       /\ line' = [seq |-> sending[t].seq, level |-> sending[t].level, by |-> t, len |-> n]
       /\ taken' = Append(taken, line')
  /\ at' = "open"
  /\ UNCHANGED <<file, unopened, fopened, written, buffer>>

(* ... and while it is busy, dropped. *)
log_dropped(t) ==
  /\ klog_send(t)
  /\ at # "wait"
  /\ UNCHANGED <<file, unopened>> /\ UNCHANGED sysvars

MustReopen == written >= REOPEN_BYTES

(* op_log: reopen when enough was written; the open of an unopened file is   *)
(* tried twice then, which comes to one that may fail                      *)
op_log_open ==
  /\ at = "open"
  /\ \E ok \in BOOLEAN :
       /\ \/ MustReopen /\ Reopened(ok)
          \/ ~MustReopen /\ fopened /\ ok
             /\ UNCHANGED <<fopened, written, buffer, file>>
          \/ ~MustReopen /\ ~fopened
             /\ fopened' = ok /\ UNCHANGED <<written, buffer, file>>
       /\ \/ ok /\ at' = "write" /\ UNCHANGED unopened
          \/ ~ok /\ at' = "wait" /\ unopened' = unopened \cup {line.seq}   \* -L4_EIO
  /\ UNCHANGED <<line, taken>>

(* Mutant: a warning is written past the stream's buffer *)
WrittenDirect ==
  IF line.level = "WARN"
  THEN file' = Append(file, line.seq) /\ UNCHANGED buffer
  ELSE buffer' = Append(buffer, line) /\ UNCHANGED file

(* fwrite: into the stream's buffer, which is written out first when full *)
Written ==
  \/ buffer' = Append(buffer, line) /\ UNCHANGED file
  \/ buffer' = <<line>> /\ buffer # <<>> /\ file' = file \o Seqs(buffer)

CountedBytes == written + line.len

op_log_write ==
  /\ at = "write"
  /\ Written
  /\ written' = CountedBytes
  /\ at' = "flush"
  /\ UNCHANGED <<line, fopened, taken, unopened>>

(* Mutant: the warnings themselves stay in the buffer *)
IsUrgentBelow == FALSE

(* WARN or worse *)
IsUrgent == line.level = "WARN"

op_log_flush ==
  /\ at = "flush"
  /\ \/ IsUrgent /\ \E ok \in BOOLEAN : Reopened(ok)
     \/ ~IsUrgent /\ UNCHANGED <<fopened, written, buffer, file>>
  /\ at' = "wait"
  /\ UNCHANGED <<line, taken, unopened>>

SysInit ==
  /\ at = "wait" /\ line = NoLine
  /\ fopened = FALSE /\ written = 0 /\ buffer = <<>> /\ taken = <<>>

op_log ==
  /\ op_log_open \/ op_log_write \/ op_log_flush
  /\ UNCHANGED <<ring, head, count, global_seq, file_seq, pc, syslogd, sending, snap, io>>

LogInit == Init /\ SysInit

LogNext ==
  \/ \E t \in Threads :
       \/ LocalStep(t) /\ UNCHANGED sysvars
       \/ log_received(t)
       \/ log_dropped(t)
  \/ op_log

LogSpec == LogInit /\ [][LogNext]_<<vars, sysvars>>

-----------------------------------------------------------------------------
(* Properties *)

Lines == [seq : Nat, level : Levels, by : Threads, len : LineLens \cup {0}]

SysTypeOK ==
  /\ at \in {"wait", "open", "write", "flush"}
  /\ line \in Lines /\ fopened \in BOOLEAN /\ written \in Nat
  /\ buffer \in Seq(Lines) /\ taken \in Seq(Lines)

InBuffer(q) == \E k \in DOMAIN buffer : buffer[k].seq = q

(* Once a message is received it is not lost: it is in the file, in the        *)
(* stream of an open file, in work, or it was refused since the file would    *)
(* not open; whichever way reopens and failed opens follow each other (main.cc,*)
(* op_log and reopen).                                                        *)
TakenKept ==
  \A k \in DOMAIN taken :
    LET q == taken[k].seq
    IN  \/ InFile(q) \/ q \in unopened
        \/ fopened /\ InBuffer(q)
        \/ at # "wait" /\ line.seq = q

(* "Flush immediately on WARN (4) or higher severity" (main.cc, op_log): when  *)
(* syslogd waits again, every warning it received and did not refuse is in    *)
(* the file, and so is all it received before that warning.                  *)
WarnDurable ==
  at = "wait" =>
    \A j, k \in DOMAIN taken :
      j <= k /\ taken[k].level = "WARN" /\ taken[k].seq \notin unopened
        => InFile(taken[j].seq) \/ taken[j].seq \in unopened

(* "close and reopen the file every ~3 KB" (main.cc, head comment): less than  *)
(* REOPEN_BYTES and one line is unwritten at any time, and _written counts it. *)
BufferBounded ==
  LET pending == Total([k \in DOMAIN buffer |-> buffer[k].len])
  IN  /\ pending <= written
      /\ \A n \in LineLens : (\A m \in LineLens : m <= n) => written < REOPEN_BYTES + n

(* What syslogd has received it keeps, in a bounded buffer, and warnings at    *)
(* once on disk: the three statements above, over any sequence of messages,    *)
(* reopens and failed opens.                                                 *)
SyslogKept == TakenKept /\ WarnDurable /\ BufferBounded

(* The order of one thread's entries in the log is the order in which it        *)
(* wrote them, and none is there twice, although sends race and lines wait in *)
(* the buffer (klog.cc, klog_write; main.cc, op_log).                          *)
ThreadOrder ==
  LET log       == file \o Seqs(buffer)
      By(q, t)  == \E k \in DOMAIN taken : taken[k].seq = q /\ taken[k].by = t
  IN  syslogd =>
        \A j, k \in DOMAIN log, t \in Threads :
          j < k /\ By(log[j], t) /\ By(log[k], t) => log[j] < log[k]

=============================================================================
