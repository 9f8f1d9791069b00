--------------------------- MODULE ConsoleProofs ---------------------------
(***************************************************************************)
(* Proofs about Console, for every set of keys, every size of the ring and *)
(* every number of file descriptors, and about Login, for every shadow     *)
(* file, length of a line and number of attempts.                          *)
(***************************************************************************)
EXTENDS Console, Login, DataLemmas, SequenceTheorems, TLAPS

(* Where the main loop has a line whose redirection is set up. *)
Redirected == {"clear", "start", "faulted", "run", "block", "ended", "restore"}

(* The flags and the place of the main loop.  After the flag is cleared     *)
(* (pc = "start") it can only be set by a Ctrl-C newer than the line, and    *)
(* while the command runs g_cmd_running is set, so that such a Ctrl-C counts *)
(* as one of the command.                                                   *)
FlagInv ==
  /\ Running => g_cmd_running
  /\ pc \in {"top", "readline", "redirect", "clear", "start", "restore"} => ~g_cmd_running
  /\ pc \in {"redirect", "clear", "start"} => etx # "run"
  /\ pc = "start" /\ g_shell_interrupt = 1 => etx # "old"

(* The descriptors and the place of the main loop: outside a redirection     *)
(* none is in use, and stdout goes to a file only while its copy is kept.    *)
DescriptorInv ==
  /\ pc \notin Redirected => stdout = "console" /\ saved_stdout = 0 /\ redir_fd = 0
  /\ stdout = "file" => redir_fd = 1 /\ saved_stdout = 1

IInv ==
  /\ ConsoleTypeOK /\ FlagInv /\ InterruptExact
  /\ DescriptorInv /\ RedirectionUndone

-----------------------------------------------------------------------------
(* The ring holds keys and its indices are places of it. *)
RingType ==
  /\ g_kbd_buf \in [0 .. KbdSize - 1 -> Keys]
  /\ g_kbd_head \in 0 .. KbdSize - 1 /\ g_kbd_tail \in 0 .. KbdSize - 1
  /\ key_io \in [kind : {"none", "typed", "taken"}, key : Keys \cup {"none"}, turn : {0, 1}]

(* kbd_push keeps the indices inside the ring. *)
LEMMA PushType ==
  ASSUME RingType, NEW c \in Keys, kbd_push(c)
  PROVE  RingType'
<1>1. key_io' \in [kind : {"none", "typed", "taken"}, key : Keys \cup {"none"}, turn : {0, 1}]
  BY DEF RingType, kbd_push, KeyEvent
<1>2. CASE UNCHANGED <<g_kbd_buf, g_kbd_head, g_kbd_tail>>
  BY <1>1, <1>2 DEF RingType
<1>3. CASE /\ g_kbd_buf' = [g_kbd_buf EXCEPT ![g_kbd_head] = c]
           /\ g_kbd_head' = (g_kbd_head + 1) % KbdSize
           /\ UNCHANGED g_kbd_tail
  BY <1>1, <1>3, ConsoleAssumption DEF RingType
<1> QED
  BY <1>2, <1>3 DEF kbd_push

(* So do kbd_pop and kbd_try_pop, which return a key. *)
LEMMA PopType ==
  ASSUME RingType, NEW c, kbd_pop(c)
  PROVE  RingType' /\ c \in Keys
BY ConsoleAssumption DEF RingType, kbd_pop, KeyEvent

(* The initial state. *)
LEMMA InitInv == ConsoleInit => IInv
<1> SUFFICES ASSUME ConsoleInit PROVE IInv
  OBVIOUS
<1> USE ConsoleAssumption DEF ConsoleInit
<1>1. ConsoleTypeOK
  <2>1. cmd \in [name : Commands, redir : BOOLEAN] /\ g_cmd_running \in BOOLEAN
    BY DEF NoCmd, Commands
  <2>2. g_kbd_buf \in [0 .. KbdSize - 1 -> Keys]
    OBVIOUS
  <2> QED
    BY <2>1, <2>2 DEF ConsoleTypeOK
<1>2. FlagInv /\ InterruptExact
  BY DEF FlagInv, InterruptExact, InterruptKept, NoStaleInterrupt, Running
<1>3. DescriptorInv /\ RedirectionUndone
  BY DEF DescriptorInv, RedirectionUndone, StdoutRestored, FdsAccounted, Redirected
<1> QED
  BY <1>1, <1>2, <1>3 DEF IInv

-----------------------------------------------------------------------------
(* The monitor thread: whatever it does between two steps of the main loop,  *)
(* the descriptors are untouched and the flag it sets is the new Ctrl-C.     *)
LEMMA MonitorInv == IInv /\ Monitor => IInv'
<1> SUFFICES ASSUME IInv, Monitor PROVE IInv'
  OBVIOUS
<1> USE DEF IInv
<1>1. UNCHANGED <<pc, cmd, descriptors, g_cmd_running>>
  BY DEF Monitor, monitor_flag, monitor_test, monitor_push, monitor_key, flags
<1>2. RingType'
  <2>1. RingType
    BY DEF ConsoleTypeOK, RingType
  <2>2. CASE UNCHANGED ring
    BY <2>1, <2>2 DEF RingType, ring
  <2>3. CASE \E c \in Keys : kbd_push(c)
    BY <2>1, <2>3, PushType
  <2> QED
    BY <2>2, <2>3, ConsoleAssumption
    DEF Monitor, monitor_flag, monitor_test, monitor_push, monitor_key
<1>3. \/ g_shell_interrupt' = 1 /\ etx' = IF g_cmd_running THEN "run" ELSE "line"
      \/ UNCHANGED <<g_shell_interrupt, etx>>
  BY DEF Monitor, monitor_flag, monitor_test, monitor_push, monitor_key, flags
<1>4. ConsoleTypeOK'
  <2>1. mon' \in {"read", "flagged", "push"}
    BY DEF Monitor, monitor_flag, monitor_test, monitor_push, monitor_key, ConsoleTypeOK
  <2> QED
    BY <1>1, <1>2, <1>3, <2>1 DEF ConsoleTypeOK, RingType, descriptors
<1>5. FlagInv' /\ InterruptExact'
  BY <1>1, <1>3 DEF FlagInv, InterruptExact, InterruptKept, NoStaleInterrupt, Running, ConsoleTypeOK
<1>6. DescriptorInv' /\ RedirectionUndone'
  BY <1>1 DEF descriptors, DescriptorInv, RedirectionUndone, StdoutRestored, FdsAccounted
<1> QED
  BY <1>4, <1>5, <1>6

-----------------------------------------------------------------------------
(* A step of the main loop that only moves on, or sets the flags, leaves the *)
(* descriptors as they are.                                                  *)
LEMMA SameDescriptors ==
  ASSUME IInv, UNCHANGED descriptors, pc \in Redirected => pc' \in Redirected,
         pc' \in Redirected \/ (pc \notin Redirected)
  PROVE  DescriptorInv' /\ RedirectionUndone'
BY DEF IInv, descriptors, DescriptorInv, RedirectionUndone, StdoutRestored, FdsAccounted,
   Redirected

(* A step of the main loop that leaves the ring and the descriptors alone. *)
LEMMA SameStores ==
  ASSUME ConsoleTypeOK, UNCHANGED <<ring, descriptors, mon, cmd>>,
         g_shell_interrupt' \in {0, 1}, g_cmd_running' \in BOOLEAN,
         pc' \in {"top", "readline", "gone", "redirect", "clear", "start", "faulted", "run",
                 "block", "ended", "restore"},
         etx' \in {"old", "line", "run"}
  PROVE  ConsoleTypeOK'
<1>1. /\ g_kbd_buf' = g_kbd_buf /\ g_kbd_head' = g_kbd_head /\ g_kbd_tail' = g_kbd_tail
      /\ key_io' = key_io /\ mon' = mon /\ cmd' = cmd
  BY DEF ring
<1>2. /\ stdout' = stdout /\ saved_stdout' = saved_stdout /\ redir_fd' = redir_fd
      /\ fds' = fds /\ leaked' = leaked
  BY DEF descriptors
<1> QED
  BY <1>1, <1>2, Zenon DEF ConsoleTypeOK

(* The top of the loop: the flag of an earlier Ctrl-C is cleared. *)
LEMMA LoopTopInv == IInv /\ loop_top => IInv'
<1> SUFFICES ASSUME IInv, loop_top PROVE IInv'
  OBVIOUS
<1> USE DEF IInv, loop_top
<1>1. ConsoleTypeOK'
  <2>1. g_shell_interrupt \in {0, 1} /\ g_cmd_running \in BOOLEAN /\ etx \in {"old", "line", "run"}
    BY DEF ConsoleTypeOK
  <2> QED
    BY <2>1, SameStores
<1>2. FlagInv' /\ InterruptExact'
  BY DEF FlagInv, InterruptExact, InterruptKept, NoStaleInterrupt, Running
<1>3. DescriptorInv' /\ RedirectionUndone'
  BY SameDescriptors DEF Redirected
<1> QED
  BY <1>1, <1>2, <1>3

(* readline: from the end of the line on, every earlier Ctrl-C is old. *)
LEMMA ReadlineInv ==
  ASSUME IInv, NEW c \in Keys, readline(c)
  PROVE  IInv'
<1> USE DEF IInv
<1>1. RingType'
  BY PopType DEF ConsoleTypeOK, RingType, readline
<1>2. pc = "readline" /\ UNCHANGED <<flags, mon, descriptors>>
  BY DEF readline
<1>3. \/ pc' \in {"readline", "gone", "top"} /\ UNCHANGED <<cmd, etx>>
      \/ /\ pc' = "redirect" /\ etx' = "old"
         /\ cmd' \in [name : Commands, redir : BOOLEAN]
  <2>1. CASE UNCHANGED <<cmd, etx>>
    BY <1>2, <2>1 DEF readline
  <2>2. CASE \E name \in Commands, redir \in BOOLEAN : cmd' = [name |-> name, redir |-> redir]
    BY <1>2, <2>2 DEF readline
  <2> QED
    BY <2>1, <2>2 DEF readline
<1>4. ConsoleTypeOK'
  BY <1>1, <1>2, <1>3 DEF ConsoleTypeOK, RingType, flags, descriptors
<1>5. FlagInv' /\ InterruptExact'
  BY <1>2, <1>3 DEF FlagInv, InterruptExact, InterruptKept, NoStaleInterrupt, Running, flags
<1>6. DescriptorInv' /\ RedirectionUndone'
  BY <1>2, <1>3, SameDescriptors DEF Redirected
<1> QED
  BY <1>4, <1>5, <1>6

(* The redirection: what dup and open take is in use, or, where open fails,   *)
(* lost; stdout goes to the file only when its copy exists.                   *)
LEMMA RedirectInv == IInv /\ redirect => IInv'
<1> SUFFICES ASSUME IInv, redirect PROVE IInv'
  OBVIOUS
<1> USE DEF IInv
<1>1. /\ pc = "redirect" /\ pc' = "clear"
      /\ UNCHANGED <<ring, flags, mon, cmd, etx>>
  BY DEF redirect
<1>2. /\ fds \in Nat /\ leaked \in Nat /\ MaxFds \in Nat /\ fds + leaked = MaxFds
      /\ stdout = "console" /\ saved_stdout = 0 /\ redir_fd = 0
  BY <1>1, ConsoleAssumption DEF ConsoleTypeOK, DescriptorInv, Redirected,
     RedirectionUndone, FdsAccounted
<1>3. \/ UNCHANGED descriptors
      \/ /\ fds > 1 /\ saved_stdout' = 1 /\ redir_fd' = 1 /\ stdout' = "file"
         /\ fds' = fds - 2 /\ leaked' = leaked
      \/ /\ fds > 0 /\ saved_stdout' = 1 /\ redir_fd' = 0
         /\ fds' = fds - 1 /\ leaked' = leaked + 1 /\ stdout' = stdout
      \/ /\ saved_stdout' = 0 /\ redir_fd' = 0
         /\ fds' = fds /\ leaked' = leaked /\ stdout' = stdout
  <2>1. CASE fds > 0
    BY <1>2, <2>1 DEF redirect
  <2>2. CASE fds = 0
    BY <1>2, <2>2 DEF redirect
  <2> QED
    BY <1>2, <2>1, <2>2
<1>4. ConsoleTypeOK'
  BY <1>1, <1>2, <1>3 DEF ConsoleTypeOK, ring, flags, descriptors
<1>5. FlagInv' /\ InterruptExact'
  BY <1>1 DEF FlagInv, InterruptExact, InterruptKept, NoStaleInterrupt, Running, flags
<1>6. DescriptorInv' /\ RedirectionUndone'
  BY <1>1, <1>2, <1>3 DEF DescriptorInv, RedirectionUndone, StdoutRestored, FdsAccounted,
     Redirected, descriptors
<1> QED
  BY <1>4, <1>5, <1>6

(* Before a command: the flag is cleared first ... *)
LEMMA ClearFlagInv == IInv /\ clear_flag => IInv'
<1> SUFFICES ASSUME IInv, clear_flag PROVE IInv'
  OBVIOUS
<1> USE DEF IInv, clear_flag, StartFlags
<1>1. ConsoleTypeOK'
  <2>1. g_shell_interrupt \in {0, 1} /\ g_cmd_running \in BOOLEAN /\ etx \in {"old", "line", "run"}
    BY DEF ConsoleTypeOK
  <2> QED
    BY <2>1, SameStores
<1>2. FlagInv' /\ InterruptExact'
  BY DEF FlagInv, InterruptExact, InterruptKept, NoStaleInterrupt, Running
<1>3. DescriptorInv' /\ RedirectionUndone'
  BY SameDescriptors DEF Redirected
<1> QED
  BY <1>1, <1>2, <1>3

(* ... then the command counts as running.  A Ctrl-C between the two steps    *)
(* is one for the command, and its flag stays.                               *)
LEMMA StartInv == IInv /\ start => IInv'
<1> SUFFICES ASSUME IInv, start PROVE IInv'
  OBVIOUS
<1> USE DEF IInv
<1>1. /\ pc = "start" /\ pc' \in {"faulted", "run"} /\ g_cmd_running' = TRUE
      /\ UNCHANGED <<g_shell_interrupt, ring, mon, cmd, descriptors, etx>>
  BY DEF start, StartFlags
<1>2. ConsoleTypeOK'
  <2>1. g_shell_interrupt \in {0, 1} /\ g_cmd_running \in BOOLEAN /\ etx \in {"old", "line", "run"}
    BY DEF ConsoleTypeOK
  <2> QED
    BY <1>1, <2>1, SameStores
<1>3. FlagInv' /\ InterruptExact'
  BY <1>1 DEF FlagInv, InterruptExact, InterruptKept, NoStaleInterrupt, Running, ConsoleTypeOK
<1>4. DescriptorInv' /\ RedirectionUndone'
  BY <1>1, SameDescriptors DEF Redirected
<1> QED
  BY <1>2, <1>3, <1>4

-----------------------------------------------------------------------------
(* A running command ends or goes on; only top resets the flag, and it ends   *)
(* with that.                                                                *)
LEMMA RunningInv == IInv /\ (cat_test \/ cat_read \/ top_tick \/ other_ends) => IInv'
<1> SUFFICES ASSUME IInv, cat_test \/ cat_read \/ top_tick \/ other_ends PROVE IInv'
  OBVIOUS
<1> USE DEF IInv
<1>1. /\ pc \in {"run", "block"} /\ UNCHANGED <<g_cmd_running, mon, cmd, descriptors, etx>>
      /\ \/ pc' = "ended" /\ g_shell_interrupt' \in {0, g_shell_interrupt}
         \/ pc' \in {"run", "block"} /\ UNCHANGED g_shell_interrupt
  BY DEF cat_test, cat_read, top_tick, other_ends, flags
<1>2. RingType'
  <2>1. RingType
    BY DEF ConsoleTypeOK, RingType
  <2>2. CASE UNCHANGED ring
    BY <2>1, <2>2 DEF RingType, ring
  <2>3. CASE \E c : kbd_pop(c)
    BY <2>1, <2>3, PopType
  <2> QED
    BY <2>2, <2>3 DEF cat_test, cat_read, top_tick, other_ends
<1>3. ConsoleTypeOK'
  BY <1>1, <1>2 DEF ConsoleTypeOK, RingType, descriptors
<1>4. FlagInv' /\ InterruptExact'
  BY <1>1 DEF FlagInv, InterruptExact, InterruptKept, NoStaleInterrupt, Running
<1>5. DescriptorInv' /\ RedirectionUndone'
  BY <1>1, SameDescriptors DEF Redirected
<1> QED
  BY <1>3, <1>4, <1>5

(* After a command its Ctrl-C is an old one. *)
LEMMA CommandOverInv == IInv /\ command_over => IInv'
<1> SUFFICES ASSUME IInv, command_over PROVE IInv'
  OBVIOUS
<1> USE DEF IInv, command_over
<1>1. ConsoleTypeOK'
  <2>1. g_shell_interrupt \in {0, 1} /\ g_cmd_running \in BOOLEAN /\ etx \in {"old", "line", "run"}
    BY DEF ConsoleTypeOK
  <2> QED
    BY <2>1, SameStores
<1>2. FlagInv' /\ InterruptExact'
  BY DEF FlagInv, InterruptExact, InterruptKept, NoStaleInterrupt, Running
<1>3. DescriptorInv' /\ RedirectionUndone'
  BY SameDescriptors DEF Redirected
<1> QED
  BY <1>1, <1>2, <1>3

(* The end of a redirection: everything it holds is given back. *)
LEMMA RestoreInv == IInv /\ restore => IInv'
<1> SUFFICES ASSUME IInv, restore PROVE IInv'
  OBVIOUS
<1> USE DEF IInv
<1>1. /\ pc = "restore" /\ pc' = "top"
      /\ UNCHANGED <<ring, flags, mon, leaked, etx>>
      /\ saved_stdout' = 0 /\ redir_fd' = 0 /\ cmd' = NoCmd
  BY DEF restore
<1>0. leaked \in Nat /\ MaxFds \in Nat
  BY ConsoleAssumption DEF ConsoleTypeOK
<1>2. fds' \in Nat /\ fds' = MaxFds - leaked /\ stdout' = "console"
  <2>1. CASE redir_fd = 0
    BY <1>0, <2>1 DEF restore, Closes, StdoutBack, ConsoleTypeOK, DescriptorInv,
       RedirectionUndone, FdsAccounted
  <2>2. CASE redir_fd = 1
    BY <1>0, <2>2 DEF restore, Closes, StdoutBack, ConsoleTypeOK, DescriptorInv,
       RedirectionUndone, FdsAccounted
  <2> QED
    BY <2>1, <2>2 DEF ConsoleTypeOK
<1>3. ConsoleTypeOK'
  <2>1. cmd' \in [name : Commands, redir : BOOLEAN]
    BY <1>1 DEF NoCmd, Commands
  <2>2. fds' \in 0 .. MaxFds
    BY <1>2, <1>0
  <2> QED
    BY <1>1, <1>2, <2>1, <2>2 DEF ConsoleTypeOK, ring, flags
<1>4. FlagInv' /\ InterruptExact'
  BY <1>1 DEF FlagInv, InterruptExact, InterruptKept, NoStaleInterrupt, Running, flags
<1>5. DescriptorInv' /\ RedirectionUndone'
  BY <1>1, <1>0, <1>2 DEF DescriptorInv, RedirectionUndone, StdoutRestored, FdsAccounted,
     Redirected
<1> QED
  BY <1>3, <1>4, <1>5

-----------------------------------------------------------------------------
(* Every step of the two threads preserves IInv. *)
LEMMA NextInv == IInv /\ [ConsoleNext]_consoleVars => IInv'
<1>1. IInv /\ MainLoop => IInv'
  BY LoopTopInv, RedirectInv, ClearFlagInv, StartInv, CommandOverInv, RestoreInv,
     RunningInv, ReadlineInv DEF MainLoop
<1>2. IInv /\ UNCHANGED consoleVars => IInv'
  BY DEF consoleVars, ring, flags, descriptors, IInv, ConsoleTypeOK, FlagInv, InterruptExact,
     InterruptKept, NoStaleInterrupt, Running, DescriptorInv, RedirectionUndone, StdoutRestored,
     FdsAccounted
<1> QED
  BY <1>1, <1>2, MonitorInv, RunningInv DEF ConsoleNext

(* IInv holds in every reachable state, whatever the timing of the threads. *)
THEOREM Invariance == ConsoleSpec => []IInv
BY InitInv, NextInv, PTL DEF ConsoleSpec

(* The shell's loop is type-correct; in particular the indices stay inside    *)
(* the ring.                                                                 *)
THEOREM ConsoleTypeCorrect == ConsoleSpec => []ConsoleTypeOK
<1>1. IInv => ConsoleTypeOK
  BY DEF IInv
<1> QED
  BY <1>1, Invariance, PTL

(* The two unlocked flags carry a Ctrl-C to the command it was typed for, and *)
(* to no other.                                                              *)
THEOREM InterruptsExact == ConsoleSpec => []InterruptExact
<1>1. IInv => InterruptExact
  BY DEF IInv
<1> QED
  BY <1>1, Invariance, PTL

(* A redirection is undone before the next line is read, and of the           *)
(* descriptors only the copy of stdout of a failed one is lost.               *)
THEOREM RedirectionsUndone == ConsoleSpec => []RedirectionUndone
<1>1. IInv => RedirectionUndone
  BY DEF IInv
<1> QED
  BY <1>1, Invariance, PTL

-----------------------------------------------------------------------------
(* The ring as a queue: KeyQueue's variable under the refinement mapping. *)
Waiting  == RingLen(g_kbd_head, g_kbd_tail, KbdSize)
Queue    == [i \in 1 .. Waiting |-> g_kbd_buf[RingPlace(g_kbd_tail, i, KbdSize)]]

(* The keys that wait are a sequence. *)
LEMMA QueueType ==
  ASSUME RingType
  PROVE  Queue \in Seq(Keys) /\ Len(Queue) = Waiting /\ Waiting \in 0 .. KbdSize - 1
<1>1. Waiting \in 0 .. KbdSize - 1 /\ KbdSize \in Nat
  BY RingLength, ConsoleAssumption DEF RingType, Waiting
<1>2. \A i \in 1 .. Waiting : RingPlace(g_kbd_tail, i, KbdSize) \in 0 .. KbdSize - 1
  <2>1. \A i \in 1 .. Waiting : i \in 1 .. KbdSize
    BY <1>1
  <2> QED
    BY <2>1, RingPlaces, ConsoleAssumption DEF RingType
<1>3. Waiting \in Nat /\ \A i \in 1 .. Waiting : g_kbd_buf[RingPlace(g_kbd_tail, i, KbdSize)] \in Keys
  BY <1>1, <1>2 DEF RingType
<1> QED
  BY <1>1, <1>3 DEF Queue

(* kbd_push is KeyQueue's Put. *)
LEMMA PushPuts ==
  ASSUME RingType, NEW c \in Keys, kbd_push(c)
  PROVE  /\ Queue' = IF Len(Queue) < KbdSize - 1 THEN Append(Queue, c) ELSE Queue
         /\ key_io' = [kind |-> "typed", key |-> c, turn |-> 1 - key_io.turn]
<1>0. /\ KbdSize \in Nat \ {0} /\ g_kbd_head \in 0 .. KbdSize - 1
      /\ g_kbd_tail \in 0 .. KbdSize - 1 /\ g_kbd_buf \in [0 .. KbdSize - 1 -> Keys]
  BY ConsoleAssumption DEF RingType
<1>3. key_io' = [kind |-> "typed", key |-> c, turn |-> 1 - key_io.turn]
  BY DEF kbd_push, KeyEvent
<1>1. CASE (g_kbd_head + 1) % KbdSize = g_kbd_tail
  <2>1. UNCHANGED <<g_kbd_buf, g_kbd_head, g_kbd_tail>>
    BY <1>1 DEF kbd_push, Full
  <2>2. Queue' = Queue
    BY <2>1 DEF Queue, Waiting
  <2>3. Waiting = KbdSize - 1
    <3>1. Waiting = IF g_kbd_head >= g_kbd_tail THEN g_kbd_head - g_kbd_tail
                    ELSE g_kbd_head - g_kbd_tail + KbdSize
      BY <1>0, RingLength DEF Waiting
    <3>2. (g_kbd_head + 1) % KbdSize = IF g_kbd_head + 1 = KbdSize THEN 0 ELSE g_kbd_head + 1
      BY <1>0, RingNext
    <3> QED
      BY <1>0, <1>1, <3>1, <3>2
  <2> QED
    BY <1>3, <2>2, <2>3, QueueType
<1>2. CASE (g_kbd_head + 1) % KbdSize # g_kbd_tail
  <2>1. /\ g_kbd_buf' = [g_kbd_buf EXCEPT ![g_kbd_head] = c]
        /\ g_kbd_head' = (g_kbd_head + 1) % KbdSize
        /\ g_kbd_tail' = g_kbd_tail
    BY <1>2 DEF kbd_push, Full
  <2>2. /\ Waiting < KbdSize - 1 /\ Waiting' = Waiting + 1
        /\ RingPlace(g_kbd_tail, Waiting + 1, KbdSize) = g_kbd_head
        /\ \A i \in 1 .. Waiting : RingPlace(g_kbd_tail, i, KbdSize) # g_kbd_head
    BY <1>0, <1>2, <2>1, RingAppend DEF Waiting
  <2>3. Waiting \in Nat /\ Len(Queue) = Waiting /\ Queue \in Seq(Keys)
    BY <1>0, QueueType
  <2>4. Queue' = [i \in 1 .. Waiting + 1 |-> g_kbd_buf'[RingPlace(g_kbd_tail, i, KbdSize)]]
    BY <2>1, <2>2 DEF Queue
  <2>5. \A i \in 1 .. Waiting : Queue[i] = g_kbd_buf[RingPlace(g_kbd_tail, i, KbdSize)]
    BY DEF Queue
  <2>6. \A i \in 1 .. Waiting + 1 :
           g_kbd_buf'[RingPlace(g_kbd_tail, i, KbdSize)] = IF i = Waiting + 1 THEN c ELSE Queue[i]
    <3>1. \A i \in 1 .. Waiting + 1 : i = Waiting + 1 \/ i \in 1 .. Waiting
      BY <2>3
    <3>2. \A i \in 1 .. Waiting : RingPlace(g_kbd_tail, i, KbdSize) \in 0 .. KbdSize - 1
      <4>1. \A i \in 1 .. Waiting : i \in 1 .. KbdSize
        BY <1>0, <2>2, <2>3
      <4> QED
        BY <1>0, <4>1, RingPlaces
    <3>3. \A i \in 1 .. Waiting : g_kbd_buf'[RingPlace(g_kbd_tail, i, KbdSize)] = Queue[i]
      BY <1>0, <2>1, <2>2, <2>5, <3>2
    <3>4. g_kbd_buf'[RingPlace(g_kbd_tail, Waiting + 1, KbdSize)] = c
      BY <1>0, <2>1, <2>2
    <3>5. \A i \in 1 .. Waiting : i # Waiting + 1
      BY <2>3
    <3> QED
      BY <3>1, <3>3, <3>4, <3>5, Zenon
  <2>7. Append(Queue, c) = [i \in 1 .. Waiting + 1 |-> IF i = Waiting + 1 THEN c ELSE Queue[i]]
    BY <2>3, AppendEntries
  <2>8. Queue' = Append(Queue, c)
    BY <2>4, <2>6, <2>7
  <2> QED
    BY <1>3, <2>2, <2>3, <2>8
<1> QED
  BY <1>1, <1>2

(* kbd_pop is KeyQueue's Take. *)
LEMMA PopTakes ==
  ASSUME RingType, NEW c, kbd_pop(c)
  PROVE  /\ Queue # <<>> /\ Queue' = Tail(Queue)
         /\ key_io' = [kind |-> "taken", key |-> Head(Queue), turn |-> 1 - key_io.turn]
<1>0. /\ KbdSize \in Nat \ {0} /\ g_kbd_head \in 0 .. KbdSize - 1
      /\ g_kbd_tail \in 0 .. KbdSize - 1
  BY ConsoleAssumption DEF RingType
<1>1. /\ g_kbd_head # g_kbd_tail /\ UNCHANGED <<g_kbd_buf, g_kbd_head>>
      /\ g_kbd_tail' = (g_kbd_tail + 1) % KbdSize
  BY DEF kbd_pop
<1>2. /\ Waiting > 0 /\ Waiting' = Waiting - 1
      /\ \A i \in 1 .. KbdSize - 1 : RingPlace(g_kbd_tail', i, KbdSize) = RingPlace(g_kbd_tail, i + 1, KbdSize)
  BY <1>0, <1>1, RingTake DEF Waiting
<1>3. /\ Waiting \in Nat /\ Waiting <= KbdSize - 1
      /\ Len(Queue) = Waiting /\ Queue \in Seq(Keys)
  BY <1>0, QueueType
<1>4. Tail(Queue) = [i \in 1 .. Waiting - 1 |-> Queue[i + 1]]
  <2>1. Queue # <<>>
    BY <1>2, <1>3
  <2> QED
    BY <1>3, <2>1, TailEntries
<1>5. \A i \in 1 .. Waiting : Queue[i] = g_kbd_buf[RingPlace(g_kbd_tail, i, KbdSize)]
  BY DEF Queue
<1>6. Queue' = [i \in 1 .. Waiting - 1 |-> g_kbd_buf[RingPlace(g_kbd_tail', i, KbdSize)]]
  BY <1>1, <1>2 DEF Queue
<1>7. \A i \in 1 .. Waiting - 1 : g_kbd_buf[RingPlace(g_kbd_tail', i, KbdSize)] = Queue[i + 1]
  <2>1. \A i \in 1 .. Waiting - 1 : i + 1 \in 1 .. Waiting /\ i \in 1 .. KbdSize - 1
    BY <1>0, <1>3
  <2> QED
    BY <1>2, <1>5, <2>1
<1>8. Queue' = Tail(Queue)
  BY <1>4, <1>6, <1>7
<1>9. c = Head(Queue)
  <2>1. Head(Queue) = Queue[1] /\ 1 \in 1 .. Waiting
    BY <1>2, <1>3
  <2>2. RingPlace(g_kbd_tail, 1, KbdSize) = g_kbd_tail
    BY <1>0 DEF RingPlace
  <2> QED
    BY <1>5, <2>1, <2>2 DEF kbd_pop
<1>10. key_io' = [kind |-> "taken", key |-> Head(Queue), turn |-> 1 - key_io.turn]
  BY <1>9 DEF kbd_pop, KeyEvent
<1> QED
  BY <1>2, <1>3, <1>8, <1>10

(* The ring of keys is the queue KeyQueue describes, for every size of it:    *)
(* a key is dropped only when KbdSize - 1 keys wait, and every reader gets    *)
(* the oldest one.                                                           *)
THEOREM KeysStayInOrder == ConsoleSpec => KeysInOrder
<1>1. ConsoleInit => Queue = <<>> /\ key_io = Keyboard!NoEvent
  <2> SUFFICES ASSUME ConsoleInit PROVE Queue = <<>> /\ key_io = Keyboard!NoEvent
    OBVIOUS
  <2>1. RingType /\ g_kbd_head = g_kbd_tail
    BY InitInv DEF IInv, ConsoleTypeOK, RingType, ConsoleInit
  <2>2. Len(Queue) = 0 /\ Queue \in Seq(Keys)
    <3>1. g_kbd_head - g_kbd_tail = 0
      BY <2>1 DEF RingType
    <3>2. Waiting = 0
      BY <3>1, ConsoleAssumption DEF Waiting, RingLen
    <3> QED
      BY <2>1, <3>2, QueueType
  <2> QED
    BY <2>2 DEF ConsoleInit, Keyboard!NoEvent
<1>2. IInv /\ [ConsoleNext]_consoleVars =>
        [Keyboard!Take \/ \E c \in Keys : Keyboard!Put(c)]_<<Queue, key_io>>
  <2> SUFFICES ASSUME IInv, [ConsoleNext]_consoleVars
               PROVE  [Keyboard!Take \/ \E c \in Keys : Keyboard!Put(c)]_<<Queue, key_io>>
    OBVIOUS
  <2>0. RingType
    BY DEF IInv, ConsoleTypeOK, RingType
  <2>1. CASE UNCHANGED ring
    BY <2>1 DEF Queue, Waiting, ring
  <2>2. CASE \E c \in Keys : kbd_push(c)
    BY <2>0, <2>2, PushPuts DEF Keyboard!Put, Keyboard!Event, Queue, Waiting, RingLen, RingPlace
  <2>3. CASE \E c : kbd_pop(c)
    BY <2>0, <2>3, PopTakes DEF Keyboard!Take, Keyboard!Event, Queue, Waiting, RingLen, RingPlace
  <2>4. UNCHANGED ring \/ (\E c \in Keys : kbd_push(c)) \/ (\E c : kbd_pop(c))
    BY ConsoleAssumption
    DEF ConsoleNext, consoleVars, Monitor, MainLoop, monitor_flag, monitor_test, monitor_push,
        monitor_key, loop_top, readline, redirect, clear_flag, start, cat_test, cat_read, top_tick,
        other_ends, command_over, restore
  <2> QED
    BY <2>1, <2>2, <2>3, <2>4
<1> QED
  BY <1>1, <1>2, Invariance, PTL DEF ConsoleSpec, KeysInOrder, Keyboard!QueueSpec, Keyboard!queueVars, Queue, Waiting, RingLen, RingPlace

-----------------------------------------------------------------------------
(* Login *)

ShadowLine == [usable : BOOLEAN, user : Seq(Chars), pass : Seq(Chars)]

(* authd works on what it loaded from the file that it found. *)
LoadedInv == authd = "ready" => shadow \in Shadows /\ creds = load_credentials(shadow)

(* What authd has loaded decides as the file does: the first entry of a      *)
(* name in the table comes from the first usable line of that name.          *)
LEMMA DecidesAsFile ==
  ASSUME LoadedInv, NEW u, NEW p
  PROVE  auth_check(u, p) <=> Entitled(u, p)
<1>1. CASE authd # "ready"
  BY <1>1 DEF auth_check, Entitled
<1>2. CASE authd = "ready"
  <2>1. PICK sq \in Seq(ShadowLine) : sq = shadow.lines
    BY <1>2, LoginAssumption DEF LoadedInv, ShadowLine
  <2>2. PICK n \in Nat : n = Len(sq) /\ DOMAIN sq = 1 .. n
    BY LenProperties
  <2>3. PICK keep : keep = {i \in 1 .. n : sq[i].usable}
    OBVIOUS
  <2>4. PICK out \in Seq(ShadowLine) : out = Kept(sq, keep)
    BY KeptPicks, Zenon
  <2>5. PICK at : Picks(sq, keep, n, out, at)
    BY <2>2, <2>4, KeptPicks
  <2>6. PICK m \in Nat : m = Len(out) /\ DOMAIN out = 1 .. m
    BY LenProperties
  <2>7. /\ \A k \in 1 .. m : at[k] \in 1 .. n /\ sq[at[k]].usable /\ out[k] = sq[at[k]]
        /\ \A j, k \in 1 .. m : j < k => at[j] < at[k]
        /\ \A i \in 1 .. n : sq[i].usable => \E k \in 1 .. m : at[k] = i
    BY <2>3, <2>5, <2>6 DEF Picks
  <2>8. creds = IF shadow.opens /\ out # <<>> THEN out ELSE <<Fallback>>
    BY <1>2, <2>1, <2>2, <2>3, <2>4 DEF LoadedInv, load_credentials
  <2>9. out # <<>> <=> \E i \in 1 .. n : sq[i].usable
    <3>1. out # <<>> <=> m # 0
      BY <2>6, EmptySeq
    <3>2. m # 0 => 1 \in 1 .. m
      OBVIOUS
    <3> QED
      BY <2>7, <3>1, <3>2
  <2>10. Entitled(u, p) <=>
           IF shadow.opens /\ out # <<>>
           THEN \E i \in 1 .. n : /\ sq[i].usable /\ sq[i].user = u /\ sq[i].pass = p
                                  /\ \A j \in 1 .. i - 1 : ~(sq[j].usable /\ sq[j].user = u)
           ELSE u = Fallback.user /\ p = Fallback.pass
    BY <1>2, <2>1, <2>2, <2>9, Zenon DEF Entitled
  <2>11. auth_check(u, p) <=>
           \E k \in DOMAIN creds : /\ creds[k].user = u /\ creds[k].pass = p
                                   /\ \A j \in 1 .. k - 1 : creds[j].user # u
    BY <1>2 DEF auth_check, op_authenticate
  <2>12. CASE ~(shadow.opens /\ out # <<>>)
    <3>1. creds = <<Fallback>> /\ DOMAIN creds = {1} /\ creds[1] = Fallback
      BY <2>8, <2>12
    <3>2. auth_check(u, p) <=> Fallback.user = u /\ Fallback.pass = p
      BY <2>11, <3>1
    <3> QED
      BY <2>10, <2>12, <3>2
  <2>13. CASE shadow.opens /\ out # <<>>
    <3>1. ASSUME NEW k \in 1 .. m, out[k].user = u, out[k].pass = p, \A j \in 1 .. k - 1 : out[j].user # u
          PROVE  \E i \in 1 .. n : /\ sq[i].usable /\ sq[i].user = u /\ sq[i].pass = p
                                   /\ \A j \in 1 .. i - 1 : ~(sq[j].usable /\ sq[j].user = u)
      <4>1. PICK i \in 1 .. n : i = at[k] /\ sq[i].usable /\ out[k] = sq[i]
        BY <2>7
      <4>2. ASSUME NEW j \in 1 .. i - 1, sq[j].usable, sq[j].user = u PROVE FALSE
        <5>1. j \in 1 .. n /\ j < i
          OBVIOUS
        <5>2. PICK l \in 1 .. m : at[l] = j
          BY <2>7, <4>2, <5>1
        <5>3. l < k
          <6>1. ~(l = k) /\ ~(k < l)
            BY <2>7, <4>1, <5>1, <5>2
          <6> QED
            BY <6>1
        <5>4. l \in 1 .. k - 1 /\ out[l] = sq[j]
          BY <2>7, <5>2, <5>3
        <5> QED
          BY <3>1, <4>2, <5>4
      <4> QED
        BY <3>1, <4>1, <4>2
    <3>2. ASSUME NEW i \in 1 .. n, sq[i].usable, sq[i].user = u, sq[i].pass = p,
                 \A j \in 1 .. i - 1 : ~(sq[j].usable /\ sq[j].user = u)
          PROVE  \E k \in 1 .. m : /\ out[k].user = u /\ out[k].pass = p
                                   /\ \A j \in 1 .. k - 1 : out[j].user # u
      <4>1. PICK k \in 1 .. m : at[k] = i /\ out[k] = sq[i]
        BY <2>7, <3>2
      <4>2. ASSUME NEW j \in 1 .. k - 1 PROVE out[j].user # u
        <5>1. j \in 1 .. m /\ j < k
          OBVIOUS
        <5>2. at[j] \in 1 .. i - 1 /\ sq[at[j]].usable /\ out[j] = sq[at[j]]
          BY <2>7, <4>1, <5>1
        <5> QED
          BY <3>2, <5>2
      <4> QED
        BY <3>2, <4>1, <4>2
    <3>3. creds = out /\ DOMAIN creds = 1 .. m
      BY <2>6, <2>8, <2>13
    <3> QED
      BY <2>10, <2>11, <2>13, <3>1, <3>2, <3>3
  <2> QED
    BY <2>12, <2>13
<1> QED
  BY <1>1, <1>2

(* authd loads its table once. *)
LEMMA LoadedKept == LoadedInv /\ [LoginNext]_loginVars => LoadedInv'
<1> SUFFICES ASSUME LoadedInv, [LoginNext]_loginVars PROVE LoadedInv'
  OBVIOUS
<1>1. ASSUME NEW s \in Shadows, authd_main(s) PROVE LoadedInv'
  BY <1>1 DEF authd_main, LoadedInv, load_credentials
<1>2. CASE no_authd
  BY <1>2 DEF no_authd, LoadedInv
<1>3. CASE read_user
  BY <1>3 DEF read_user, LoadedInv, load_credentials
<1>4. CASE read_password
  BY <1>4 DEF read_password, LoadedInv, load_credentials
<1>5. ASSUME NEW c \in LoginKeys \ {"nl"}, login_key(c) PROVE LoadedInv'
  BY <1>5 DEF login_key, LoadedInv, load_credentials
<1>6. CASE UNCHANGED loginVars
  BY <1>6 DEF loginVars, LoadedInv, load_credentials
<1> QED
  BY <1>1, <1>2, <1>3, <1>4, <1>5, <1>6 DEF LoginNext

(* The dialogue ends a password with the answer to it. *)
LEMMA AnswerStep ==
  ASSUME LoadedInv, [LoginNext]_loginVars, lpc = "pass", lpc' # "pass"
  PROVE  lpc' = "in" <=> Entitled(user, line)
<1>1. read_password
  BY DEF LoginNext, loginVars, no_authd, authd_main, read_user, login_key
<1>2. lpc' = "in" <=> auth_check(user, line)
  BY <1>1 DEF read_password
<1> QED
  BY <1>2, DecidesAsFile

(* Whatever is typed and whatever file authd finds, a password is accepted   *)
(* exactly when the first usable line of the user has it, or the built-in    *)
(* entry when there is no usable line, and never without authd (do_login,    *)
(* op_authenticate).                                                        *)
THEOREM LoginIsExact == LoginSpec => LoginExact
<1>1. LoginInit => LoadedInv
  BY DEF LoginInit, LoadedInv
<1>2. LoadedInv /\ [LoginNext]_loginVars
        => [lpc = "pass" /\ lpc' # "pass" => (lpc' = "in" <=> Entitled(user, line))]_loginVars
  BY AnswerStep
<1> QED
  BY <1>1, <1>2, LoadedKept, PTL DEF LoginSpec, LoginExact
=============================================================================
