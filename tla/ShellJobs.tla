------------------------------ MODULE ShellJobs ------------------------------
(***************************************************************************)
(* The job control of native_shell (server/src/commands.cc) together with  *)
(* spawnd: the commands run, wait and kill, the call each makes, and the   *)
(* table of background tasks (g_tasks) that list_tasks and top show.       *)
(*                                                                         *)
(* spawnd is here what its clients see of it: the handles live and die as  *)
(* in Lifecycle, which Spawnd implements; its table has MAX slots; and its *)
(* one dispatch thread serves one call at a time, so while it polls for    *)
(* one shell it serves no other.  Internal tasks (handle 0) are left out:  *)
(* no code registers one.                                                  *)
(***************************************************************************)
EXTENDS Integers, Sequences, FiniteSets

CONSTANTS
  Shells,         \* the running shells, each with its own table
  NoShell,        \* not a shell
  MAX_TASKS,      \* entries of g_tasks (16 in the code)
  MAX,            \* slots of spawnd's table (32 in the code)
  MaxHandle,      \* bound: handles ever given out
  Codes           \* exit codes of the programs

ASSUME ShellJobsAssumption ==
  /\ NoShell \notin Shells
  /\ MAX_TASKS \in Nat /\ MAX \in Nat /\ MaxHandle \in Nat
  /\ Codes \subseteq Int

Handles == 1 .. MaxHandle
ENOENT  == -2
ENOMEM  == -12

VARIABLES
  life, code, answer,   \* spawnd's handles, as in Lifecycle
  serving,              \* the shell whose call occupies spawnd, or NoShell
  pc,                   \* of every shell: prompt, called (queued at spawnd),
                        \*   loading, polling (spawnd is at it), replied
  call,                 \* its call: the operation and the handle
  ret,                  \* the reply
  tasks,                \* g_tasks up to g_task_count
  ender,                \* history: the shell whose wait or kill ended a handle
  starter               \* history: the shell that a handle was given to

spawndVars == <<life, code, answer, serving>>
shellVars  == <<pc, call, ret, tasks>>
history    == <<ender, starter>>
vars       == <<spawndVars, shellVars, history>>

S == INSTANCE Lifecycle WITH NoAnswer <- <<>>

-----------------------------------------------------------------------------
(* The table of background tasks *)

(* Mutant: no entry for a background program *)
NotRegistered(sh, h) == tasks

(* task_register_proc: entries are only ever added, up to MAX_TASKS *)
Registered(sh, h) ==
  IF Len(tasks[sh]) < MAX_TASKS
  THEN [tasks EXCEPT ![sh] = Append(@, [handle |-> h, active |-> TRUE])]
  ELSE tasks

Lists(sh, k, h) == tasks[sh][k].active /\ tasks[sh][k].handle = h

(* task_unregister_proc: the first active entry with the handle *)
Unregistered(sh, h) ==
  [tasks EXCEPT ![sh] =
     [k \in DOMAIN @ |->
        IF Lists(sh, k, h) /\ \A j \in 1 .. k - 1 : ~Lists(sh, j, h)
        THEN [@[k] EXCEPT !.active = FALSE] ELSE @[k]]]

(* what list_tasks prints *)
Listed(sh) == {tasks[sh][k].handle : k \in {k \in DOMAIN tasks[sh] : tasks[sh][k].active}}

-----------------------------------------------------------------------------
(* The shells: a command sends its call and blocks *)

Call(sh, op, h) ==
  /\ pc[sh] = "prompt"
  /\ pc' = [pc EXCEPT ![sh] = "called"]
  /\ call' = [call EXCEPT ![sh] = [op |-> op, h |-> h]]
  /\ UNCHANGED <<spawndVars, ret, tasks, history>>

(* cmd_run and shell_try_exec, with or without & *)
cmd_run(sh, background) == Call(sh, IF background THEN "SPAWN_BG" ELSE "SPAWN_WAIT", 0)

cmd_wait(sh, h) == Call(sh, "wait", h)

cmd_kill(sh, h) == Call(sh, "kill", h)

(* Mutant: a reply below zero is taken for an unknown handle *)
TasksIfPositive(sh) ==
  CASE call[sh].op = "SPAWN_BG" /\ ret[sh] >= 0 -> Registered(sh, ret[sh])
    [] call[sh].op \in {"wait", "kill"} /\ ret[sh] >= 0 -> Unregistered(sh, call[sh].h)
    [] OTHER -> tasks

(* the table after the reply to the call of sh *)
TasksAfter(sh) ==
  CASE call[sh].op = "SPAWN_BG" /\ ret[sh] >= 0 -> Registered(sh, ret[sh])
    [] call[sh].op \in {"wait", "kill"} /\ ret[sh] # ENOENT -> Unregistered(sh, call[sh].h)
    [] OTHER -> tasks

(* Mutant: the call is repeated as long as it fails *)
RetryOnError(sh) ==
  /\ pc[sh] = "replied"
  /\ tasks' = TasksAfter(sh)
  /\ pc' = [pc EXCEPT ![sh] = IF ret[sh] < 0 THEN "called" ELSE "prompt"]
  /\ ret' = [ret EXCEPT ![sh] = 0]
  /\ UNCHANGED <<spawndVars, call, history>>

(* the rest of the command, back to the prompt *)
Finish(sh) ==
  /\ pc[sh] = "replied"
  /\ tasks' = TasksAfter(sh)
  /\ pc' = [pc EXCEPT ![sh] = "prompt"]
  /\ call' = [call EXCEPT ![sh] = [op |-> "none", h |-> 0]]
  /\ ret' = [ret EXCEPT ![sh] = 0]
  /\ UNCHANGED <<spawndVars, history>>

-----------------------------------------------------------------------------
(* spawnd *)

Known(h) == life[h] \in {"live", "exited"}

Reply(sh, r) ==
  /\ pc' = [pc EXCEPT ![sh] = "replied"] /\ ret' = [ret EXCEPT ![sh] = r]
  /\ serving' = NoShell

Ended(sh, h) == ender' = [ender EXCEPT ![h] = sh]

Hold(sh, where) == pc' = [pc EXCEPT ![sh] = where] /\ serving' = sh /\ UNCHANGED ret

(* op_spawn: a slot and the next handle, if there is a slot (and, by the      *)
(* bound, a handle)                                                        *)
serve_spawn(sh) ==
  /\ serving = NoShell /\ pc[sh] = "called" /\ call[sh].op \in {"SPAWN_BG", "SPAWN_WAIT"}
  /\ LET full == \/ Cardinality({h \in Handles : Known(h)}) >= MAX
                 \/ \A h \in Handles : life[h] # "unborn"
     IN  \/ full /\ S!OtherReply /\ Reply(sh, ENOMEM) /\ UNCHANGED <<call, starter>>
         \/ /\ ~full
            /\ \E h \in Handles :
                 /\ \A g \in Handles : life[g] = "unborn" => h <= g
                 /\ S!Spawn(h)
                 /\ call' = [call EXCEPT ![sh].h = h]
                 /\ starter' = [starter EXCEPT ![h] = sh]
            /\ Hold(sh, "loading")
  /\ UNCHANGED <<tasks, ender>>

(* do_spawn: the program is loaded, or cannot be *)
serve_loaded(sh) ==
  /\ serving = sh /\ pc[sh] = "loading"
  /\ \/ S!Discard(call[sh].h) /\ Reply(sh, ENOMEM)
     \/ call[sh].op = "SPAWN_BG" /\ S!OtherReply /\ Reply(sh, call[sh].h)
     \/ call[sh].op = "SPAWN_WAIT" /\ Hold(sh, "polling") /\ UNCHANGED <<life, code, answer>>
  /\ UNCHANGED <<call, tasks, history>>

(* op_wait *)
serve_wait(sh) ==
  /\ serving = NoShell /\ pc[sh] = "called" /\ call[sh].op = "wait"
  /\ LET h == call[sh].h
     IN  \/ ~Known(h) /\ S!OtherReply /\ Reply(sh, ENOENT) /\ UNCHANGED ender
         \/ life[h] = "exited" /\ S!Collect(h) /\ Reply(sh, code[h]) /\ Ended(sh, h)
         \/ life[h] = "live" /\ Hold(sh, "polling") /\ UNCHANGED <<life, code, answer, ender>>
  /\ UNCHANGED <<call, tasks, starter>>

(* do_wait sees the exit; the slot is freed and the code is the reply *)
serve_polled(sh) ==
  /\ serving = sh /\ pc[sh] = "polling" /\ life[call[sh].h] = "exited"
  /\ S!Collect(call[sh].h) /\ Reply(sh, code[call[sh].h]) /\ Ended(sh, call[sh].h)
  /\ UNCHANGED <<call, tasks, starter>>

(* op_kill *)
serve_kill(sh) ==
  /\ serving = NoShell /\ pc[sh] = "called" /\ call[sh].op = "kill"
  /\ LET h == call[sh].h
     IN  \/ ~Known(h) /\ S!OtherReply /\ Reply(sh, ENOENT) /\ UNCHANGED ender
         \/ Known(h) /\ S!Discard(h) /\ Reply(sh, 0) /\ Ended(sh, h)
  /\ UNCHANGED <<call, tasks, starter>>

(* a program ends and the reaper marks it *)
ChildExit(h, c) ==
  /\ life[h] = "live"
  /\ life' = [life EXCEPT ![h] = "exited"]
  /\ code' = [code EXCEPT ![h] = c]
  /\ UNCHANGED <<answer, serving, shellVars, history>>

-----------------------------------------------------------------------------
Init ==
  /\ S!Init
  /\ serving = NoShell
  /\ pc = [sh \in Shells |-> "prompt"]
  /\ call = [sh \in Shells |-> [op |-> "none", h |-> 0]]
  /\ ret = [sh \in Shells |-> 0]
  /\ tasks = [sh \in Shells |-> <<>>]
  /\ ender = [h \in Handles |-> NoShell] /\ starter = [h \in Handles |-> NoShell]

Command(sh) ==
  \/ \E background \in BOOLEAN : cmd_run(sh, background)
  \/ \E h \in Handles : cmd_wait(sh, h) \/ cmd_kill(sh, h)

Serve(sh) ==
  \/ serve_spawn(sh) \/ serve_loaded(sh)
  \/ serve_wait(sh) \/ serve_polled(sh) \/ serve_kill(sh)

Next ==
  \/ \E sh \in Shells : Command(sh) \/ Serve(sh) \/ Finish(sh)
  \/ \E h \in Handles, c \in Codes : ChildExit(h, c)

Spec == Init /\ [][Next]_vars

(* spawnd runs and passes over no queued caller for ever, and a shell that    *)
(* has its reply goes on.  Nothing is assumed of the programs: one may run    *)
(* for ever, or hang in an exec call that spawnd does not serve.             *)
FairSpec ==
  /\ Spec
  /\ \A sh \in Shells : SF_vars(Serve(sh)) /\ WF_vars(Finish(sh))

-----------------------------------------------------------------------------
(* Properties *)

TypeOK ==
  /\ life \in [Handles -> {"unborn", "live", "exited", "over"}]
  /\ code \in [Handles -> Int]
  /\ serving \in Shells \cup {NoShell}
  /\ pc \in [Shells -> {"prompt", "called", "loading", "polling", "replied"}]
  /\ call \in [Shells -> [op : {"none", "SPAWN_BG", "SPAWN_WAIT", "wait", "kill"}, h : Nat]]
  /\ ret \in [Shells -> Int]
  /\ ender \in [Handles -> Shells \cup {NoShell}]
  /\ starter \in [Handles -> Shells \cup {NoShell}]
  /\ \A sh \in Shells : tasks[sh] \in Seq([handle : Handles, active : BOOLEAN])

InCall(h) == \E sh \in Shells : pc[sh] # "prompt" /\ call[sh].h = h

(* The table of sh was full of older jobs when h came. *)
TurnedAway(sh, h) ==
  Len(tasks[sh]) >= MAX_TASKS /\ \A k \in DOMAIN tasks[sh] : tasks[sh][k].handle < h

(* No child is lost: a slot of spawnd that is still taken belongs to a call   *)
(* under way, or is listed by the shell that started it, so that a wait or    *)
(* kill can free it.  The one exception is task_register_proc's: a job that   *)
(* came when the table, whose entries are never reused, was full.           *)
NoLostChild ==
  \A h \in Handles : Known(h) =>
    \/ InCall(h)
    \/ \E sh \in Shells : sh = starter[h] /\ (h \in Listed(sh) \/ TurnedAway(sh, h))

(* A shell at its prompt lists no job that spawnd has forgotten, unless       *)
(* another shell waited for it or killed it: what the shell itself has ended  *)
(* is off its list, a crash (code -1) included.  (Exit codes other than -2,   *)
(* which wait cannot tell from -L4_ENOENT.)                                 *)
NoGhostJob ==
  \A sh \in Shells : pc[sh] = "prompt" =>
    \A h \in Listed(sh) : Known(h) \/ ender[h] \in Shells \ {sh}

(* spawnd polls for a program that still runs. *)
HeldUp ==
  \E sh \in Shells : serving = sh /\ pc[sh] = "polling" /\ life[call[sh].h] = "live"

(* Every command returns to the prompt, unless spawnd is held up for ever by  *)
(* one program that somebody waits for and that never ends: no reply is lost  *)
(* and no shell starves behind the others' calls.                           *)
CommandReturns ==
  \A sh \in Shells : []<>(pc[sh] = "prompt") \/ <>[]HeldUp

=============================================================================
