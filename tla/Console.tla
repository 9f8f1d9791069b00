------------------------------ MODULE Console ------------------------------
(***************************************************************************)
(* The shell's two threads (pkg/native_shell/server/src/main.cc): the      *)
(* monitor thread, which reads the console and puts keys into a ring, and  *)
(* the main loop, which reads lines from it, redirects stdout and runs     *)
(* commands.  Ctrl-C goes by two flags that both threads use without a     *)
(* lock.                                                                   *)
(*                                                                         *)
(* The monitor's step for one key ends where it touches shared state; the  *)
(* ring is under its mutex, so a push or a pop is one step.  readline is   *)
(* external: it takes keys and returns a line at a newline; the vendored   *)
(* version has no function for Ctrl-C and raises no signal, so that        *)
(* handle_sigint and its siglongjmp are never reached.                     *)
(***************************************************************************)
EXTENDS Integers, Sequences, FiniteSets

CONSTANTS
  Keys,           \* what can be typed: "nl", "etx" (Ctrl-C), "eot", "q" and others
  KbdSize,        \* places of the ring (256 in the code)
  MaxFds          \* bound: free file descriptors at the start

ASSUME ConsoleAssumption ==
  KbdSize \in Nat \ {0, 1} /\ MaxFds \in Nat /\ {"nl", "etx"} \subseteq Keys

VARIABLES
  g_kbd_buf, g_kbd_head, g_kbd_tail,
  g_shell_interrupt, g_cmd_running,
  mon,            \* the monitor: "read", or in a Ctrl-C after the flag or the test
  pc,             \* where the main loop is
  cmd,            \* the line: its command and whether output goes to a file
  stdout, saved_stdout, redir_fd,
  fds,            \* free descriptors
  key_io,         \* history: the last key that was typed or taken
  leaked,         \* history: saved copies of stdout that nobody closes
  etx             \* history: when the flag was last set by a Ctrl-C

ring        == <<g_kbd_buf, g_kbd_head, g_kbd_tail, key_io>>
flags       == <<g_shell_interrupt, g_cmd_running>>
descriptors == <<stdout, saved_stdout, redir_fd, fds, leaked>>
consoleVars == <<ring, flags, mon, pc, cmd, descriptors, etx>>

Commands == {"cat",       \* ends with its input, if that ends, or with the flag
             "top",       \* ends with q, Ctrl-C or the flag
             "other",     \* does not look at the flag
             "none"}      \* "> f" or "&" alone: no word is left for argv[0]
NoCmd == [name |-> "other", redir |-> FALSE]

-----------------------------------------------------------------------------
(* The history of the ring: each call is an event, also when it drops a key *)
KeyEvent(kind, c) == key_io' = [kind |-> kind, key |-> c, turn |-> 1 - key_io.turn]

(* Mutant: full one place too early *)
FullEarly(next) == next = g_kbd_tail \/ (next + 1) % KbdSize = g_kbd_tail

(* one place stays free, so that a full ring differs from an empty one *)
Full(next) == next = g_kbd_tail

(* kbd_push: a key that does not fit is dropped *)
kbd_push(c) ==
  LET next == (g_kbd_head + 1) % KbdSize
  IN  /\ KeyEvent("typed", c) /\ UNCHANGED g_kbd_tail
      /\ IF Full(next) THEN UNCHANGED <<g_kbd_buf, g_kbd_head>>
         ELSE g_kbd_buf' = [g_kbd_buf EXCEPT ![g_kbd_head] = c] /\ g_kbd_head' = next

(* kbd_pop when it does not wait, and kbd_try_pop when it finds a key *)
kbd_pop(c) ==
  /\ g_kbd_head # g_kbd_tail
  /\ c = g_kbd_buf[g_kbd_tail] /\ KeyEvent("taken", c)
  /\ g_kbd_tail' = (g_kbd_tail + 1) % KbdSize
  /\ UNCHANGED <<g_kbd_buf, g_kbd_head>>

-----------------------------------------------------------------------------
(* stdin_monitor: a key other than Ctrl-C *)
monitor_key(c) ==
  /\ mon = "read" /\ c # "etx"
  /\ kbd_push(c)
  /\ UNCHANGED <<flags, mon, pc, cmd, descriptors, etx>>

(* Ctrl-C: the flag first *)
monitor_flag ==
  /\ mon = "read" /\ mon' = "flagged"
  /\ g_shell_interrupt' = 1
  /\ etx' = IF g_cmd_running THEN "run" ELSE "line"
  /\ UNCHANGED <<ring, g_cmd_running, pc, cmd, descriptors>>

(* then the test, which the main loop can outdate at once *)
monitor_test ==
  /\ mon = "flagged"
  /\ mon' = IF g_cmd_running THEN "read" ELSE "push"
  /\ UNCHANGED <<ring, flags, pc, cmd, descriptors, etx>>

(* then the key, for readline *)
monitor_push ==
  /\ mon = "push" /\ mon' = "read"
  /\ kbd_push("etx")
  /\ UNCHANGED <<flags, pc, cmd, descriptors, etx>>

-----------------------------------------------------------------------------
(* The top of the main loop *)
loop_top ==
  /\ pc = "top" /\ pc' = "readline"
  /\ g_shell_interrupt' = 0 /\ g_cmd_running' = FALSE
  /\ UNCHANGED <<ring, mon, cmd, descriptors, etx>>

(* readline takes a key: a line ends with a newline; without a word the    *)
(* loop starts over.  The Ctrl-C that set the flag is then an old one.     *)
readline(c) ==
  /\ pc = "readline" /\ kbd_pop(c)
  /\ \/ /\ c # "nl" /\ UNCHANGED <<pc, cmd, etx>>
     \/ /\ c = "eot" /\ pc' = "gone" /\ UNCHANGED <<cmd, etx>>      \* Goodbye
     \/ /\ c = "nl" /\ pc' = "top" /\ UNCHANGED <<cmd, etx>>
     \/ /\ c = "nl" /\ pc' = "redirect"
        /\ \E name \in Commands, redir \in BOOLEAN :
             cmd' = [name |-> name, redir |-> redir]
        /\ etx' = "old"
  /\ UNCHANGED <<flags, mon, descriptors>>

(* "> file": stdout is saved, the file is opened and put in its place; if  *)
(* it cannot be opened the command runs on the console                     *)
redirect ==
  LET dups == IF fds > 0 THEN 1 ELSE 0
  IN  /\ pc = "redirect" /\ pc' = "clear"
      /\ IF ~cmd.redir THEN UNCHANGED descriptors ELSE
           \/ /\ fds - dups > 0
              /\ saved_stdout' = dups /\ redir_fd' = 1 /\ stdout' = "file"
              /\ fds' = fds - 2 /\ UNCHANGED leaked
           \/ /\ saved_stdout' = dups /\ redir_fd' = 0
              /\ fds' = fds - dups /\ leaked' = leaked + dups
              /\ UNCHANGED stdout
      /\ UNCHANGED <<ring, flags, mon, cmd, etx>>

(* Mutant: the flags the other way round *)
StartSwapped(k) ==
  \/ k = 2 /\ g_shell_interrupt' = 0 /\ UNCHANGED g_cmd_running
  \/ k = 1 /\ g_cmd_running' = TRUE /\ UNCHANGED g_shell_interrupt

(* before a command: no interrupt, then running *)
StartFlags(k) ==
  \/ k = 1 /\ g_shell_interrupt' = 0 /\ UNCHANGED g_cmd_running
  \/ k = 2 /\ g_cmd_running' = TRUE /\ UNCHANGED g_shell_interrupt

clear_flag ==
  /\ pc = "clear" /\ pc' = "start" /\ StartFlags(1)
  /\ UNCHANGED <<ring, mon, cmd, descriptors, etx>>

(* strcmp on argv[0] faults when there is none *)
start ==
  /\ pc = "start" /\ StartFlags(2)
  /\ pc' = IF cmd.name = "none" THEN "faulted" ELSE "run"
  /\ UNCHANGED <<ring, mon, cmd, descriptors, etx>>

-----------------------------------------------------------------------------
(* Mutant: the flag is not looked at *)
GoesOnAlways == TRUE

(* what the two loops of cmd_cat test before a file and before a block *)
GoesOn == g_shell_interrupt = 0

cat_test ==
  /\ pc = "run" /\ cmd.name = "cat"
  /\ pc' = IF GoesOn THEN "block" ELSE "ended"
  /\ UNCHANGED <<ring, flags, mon, cmd, descriptors, etx>>

(* fopen or fread: there is more to do, or this was the end of the last    *)
(* file.  The input of cat may be endless, and a read may not return.      *)
cat_read ==
  /\ pc = "block" /\ pc' \in {"run", "ended"}
  /\ UNCHANGED <<ring, flags, mon, cmd, descriptors, etx>>

(* a tick of cmd_top: a key, if there is one, and the flag, which it resets *)
top_tick ==
  /\ pc = "run" /\ cmd.name = "top"
  /\ \E c \in Keys \cup {"nokey"} :
       /\ \/ kbd_pop(c)
          \/ c = "nokey" /\ g_kbd_head = g_kbd_tail /\ UNCHANGED ring
       /\ IF c \in {"q", "etx"} \/ g_shell_interrupt = 1
          THEN pc' = "ended" /\ g_shell_interrupt' = 0
          ELSE UNCHANGED <<pc, g_shell_interrupt>>
  /\ UNCHANGED <<g_cmd_running, mon, cmd, descriptors, etx>>

other_ends ==
  /\ pc = "run" /\ cmd.name = "other" /\ pc' = "ended"
  /\ UNCHANGED <<ring, flags, mon, cmd, descriptors, etx>>

command_over ==
  /\ pc = "ended" /\ pc' = "restore"
  /\ g_cmd_running' = FALSE /\ etx' = "old"
  /\ UNCHANGED <<ring, g_shell_interrupt, mon, cmd, descriptors>>

(* dup2(saved_stdout, STDOUT_FILENO) *)
StdoutBack == IF redir_fd = 1 /\ saved_stdout = 1 THEN "console" ELSE stdout

(* Mutant: the file stays open *)
ClosesSaved == redir_fd * saved_stdout

(* descriptors that are closed: the copy, if it was used, and the file *)
Closes == redir_fd * saved_stdout + redir_fd

restore ==
  /\ pc = "restore" /\ pc' = "top"
  /\ stdout' = StdoutBack /\ fds' = fds + Closes
  /\ saved_stdout' = 0 /\ redir_fd' = 0 /\ cmd' = NoCmd
  /\ UNCHANGED <<ring, flags, mon, leaked, etx>>

-----------------------------------------------------------------------------
ConsoleInit ==
  /\ g_kbd_buf = [i \in 0 .. KbdSize - 1 |-> "nl"] /\ g_kbd_head = 0 /\ g_kbd_tail = 0
  /\ key_io = [kind |-> "none", key |-> "none", turn |-> 0]
  /\ g_shell_interrupt = 0 /\ g_cmd_running = FALSE
  /\ mon = "read" /\ pc = "top" /\ cmd = NoCmd
  /\ stdout = "console" /\ saved_stdout = 0 /\ redir_fd = 0
  /\ fds = MaxFds /\ leaked = 0 /\ etx = "old"

Monitor == monitor_flag \/ monitor_test \/ monitor_push \/ \E c \in Keys : monitor_key(c)

MainLoop ==
  \/ loop_top \/ redirect \/ clear_flag \/ start \/ command_over \/ restore
  \/ cat_test \/ top_tick
  \/ \E c \in Keys : readline(c)

ConsoleNext == Monitor \/ MainLoop \/ cat_read \/ other_ends

(* The main thread is not held up by the monitor.  Nothing is assumed of a *)
(* command that does not look at the flag, nor of a file that is read: the *)
(* read may not return, and if it always does, there may be no end.        *)
ConsoleFairness == WF_consoleVars(MainLoop)

ConsoleSpec == ConsoleInit /\ [][ConsoleNext]_consoleVars /\ ConsoleFairness

-----------------------------------------------------------------------------
(* Properties *)

ConsoleTypeOK ==
  /\ g_kbd_buf \in [0 .. KbdSize - 1 -> Keys]
  /\ g_kbd_head \in 0 .. KbdSize - 1 /\ g_kbd_tail \in 0 .. KbdSize - 1
  /\ key_io \in [kind : {"none", "typed", "taken"}, key : Keys \cup {"none"}, turn : {0, 1}]
  /\ g_shell_interrupt \in {0, 1} /\ g_cmd_running \in BOOLEAN
  /\ mon \in {"read", "flagged", "push"}
  /\ pc \in {"top", "readline", "gone", "redirect", "clear", "start", "faulted",
             "run", "block", "ended", "restore"}
  /\ cmd \in [name : Commands, redir : BOOLEAN]
  /\ stdout \in {"console", "file"} /\ saved_stdout \in {0, 1} /\ redir_fd \in {0, 1}
  /\ fds \in 0 .. MaxFds /\ leaked \in 0 .. MaxFds
  /\ etx \in {"old", "line", "run"}

(* The ring is a queue that drops what comes when KbdSize - 1 keys wait:   *)
(* no key is lost, doubled or overtaken otherwise, and each reader gets    *)
(* the oldest one (kbd_push, kbd_pop, kbd_try_pop).                        *)
Keyboard == INSTANCE KeyQueue WITH
  Cap   <- KbdSize - 1,
  io    <- key_io,
  queue <- [i \in 1 .. (g_kbd_head - g_kbd_tail) % KbdSize |->
              g_kbd_buf[(g_kbd_tail + i - 1) % KbdSize]]

KeysInOrder == Keyboard!QueueSpec

(* The command is under way *)
Running == pc \in {"run", "block"}

(* A Ctrl-C typed while a command runs stays visible to it: the flags of   *)
(* the main loop cannot swallow it (clear the flag, then set running).     *)
InterruptKept == etx = "run" /\ Running => g_shell_interrupt = 1

(* A command is never interrupted by a Ctrl-C from before its line was     *)
(* entered, although readline leaves the flag of that one set.             *)
NoStaleInterrupt == Running /\ g_shell_interrupt = 1 => etx # "old"

(* The flag a command looks at says exactly that a Ctrl-C came for it.     *)
InterruptExact == InterruptKept /\ NoStaleInterrupt

(* Whatever became of a redirection, output goes to the console again when *)
(* the next line is read.                                                  *)
StdoutRestored == pc \in {"top", "readline"} => stdout = "console"

(* Every descriptor is free, part of the redirection under way, or the     *)
(* copy of stdout of a redirection whose file could not be opened: nothing *)
(* else leaks and nothing is closed twice.                                 *)
FdsAccounted ==
  fds + leaked + (IF redir_fd = 1 THEN redir_fd + saved_stdout ELSE 0) = MaxFds

(* A redirection leaves nothing behind but, where it fails, the one copy   *)
(* of stdout: both statements above.                                       *)
RedirectionUndone == StdoutRestored /\ FdsAccounted

(* A command that looks at the flag ends after a Ctrl-C typed while it     *)
(* runs, whatever the timing of the two threads and however long its input *)
(* is, unless cat hangs in a read that does not return.                    *)
InterruptEnds ==
  (Running /\ cmd.name \in {"cat", "top"} /\ etx = "run") ~> (~Running \/ [](pc = "block"))

=============================================================================
