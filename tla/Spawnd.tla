------------------------------- MODULE Spawnd -------------------------------
(***************************************************************************)
(* spawnd, the process server (pkg/spawn/server/src): the task table, the  *)
(* dispatch thread that serves every request in turn, the reaper thread    *)
(* that receives the exit IPC of the children, and the children.           *)
(*                                                                         *)
(* Every access to the table is inside a critical section of _mtx, so one  *)
(* action is one critical section, or one step between two of them.        *)
(* Left out: names, argument packing (unpack_args), printing, and the      *)
(* being_waited flag, which is written and never read.                     *)
(***************************************************************************)
EXTENDS Integers, FiniteSets

CONSTANTS
  MAX,            \* Task_table::MAX, the number of slots (32 in the code)
  MaxSpawns,      \* bound: handles ever given out (below 2^30, so that
                  \*   neither _next_handle nor the label h << 2 wraps)
  MaxImages,      \* bound: program images ever loaded; then loading fails
  ExitCodes,      \* the codes programs pass to _exit
  MultiThreaded   \* may a program exit in one thread while another is in exec?

ASSUME SpawndAssumption ==
  /\ MAX \in Nat \ {0}
  /\ MaxSpawns \in Nat /\ MaxImages \in Nat
  /\ ExitCodes \subseteq Int
  /\ MultiThreaded \in BOOLEAN

Slots  == 0 .. MAX - 1
Images == 1 .. MaxImages
None   == 0                        \* no image, and the handle of a FREE slot

ENOENT == -2
EIO    == -5
EAGAIN == -11
ENOMEM == -12
EINVAL == -22

VARIABLES
  \* Task_table: one Child_task per slot
  state,          \* FREE, LOADING, RUNNING or EXITED
  handle,         \* handle of the child, None when FREE
  exit_code,
  task,           \* image whose task/thread/rm/gate capabilities the slot owns
  next_handle,    \* _next_handle
  \* the children: one image per successful load_image
  nimages,        \* images launched so far
  alive,          \* none, alive, dead (its thread has died), gone (destroyed)
  label,          \* handle its parent gate is bound with
  exiting,        \* its exit IPC: no, sent, rcvd (by the reaper), done (answered)
  code,           \* exit code in that IPC
  execing,        \* its exec call: no, queued at the server, served
  \* the dispatch thread
  pc,             \* where it is; "loop" when it takes requests
  slot, h, img,   \* the locals of the handler: slot, handle, image being loaded
  caller,         \* image that called exec
  mode,           \* SPAWN_WAIT or SPAWN_BG
  result,         \* do_wait's result
  reply,          \* the last reply it sent
  \* the reaper thread
  rpc, rimg       \* where it is, and whose exit IPC it holds

tableVars  == <<state, handle, exit_code, task, next_handle>>
imageVars  == <<nimages, alive, label, exiting, code, execing>>
localVars  == <<slot, h, img, caller, mode, result>>
serverVars == <<pc, localVars, reply>>
reaperVars == <<rpc, rimg>>
vars       == <<tableVars, imageVars, serverVars, reaperVars>>

-----------------------------------------------------------------------------
(* Task_table *)

IsFirst(s, S) == s \in S /\ \A t \in S : s <= t

(* Task_table::find; the code takes the first match *)
Find(hh) == {s \in Slots : state[s] # "FREE" /\ handle[s] = hh}

FreeSlots == {s \in Slots : state[s] = "FREE"}

(* Mutants: the slot number as handle; the counter that is not advanced *)
SlotAsHandle(s) == s + 1
StuckCounter == next_handle

(* Task_table::alloc, into the first FREE slot s; a handle is never reused *)
NewHandle(s) == next_handle

NextHandle == next_handle + 1

Alloc(s) ==
  /\ state'       = [state EXCEPT ![s] = "LOADING"]
  /\ handle'      = [handle EXCEPT ![s] = NewHandle(s)]
  /\ exit_code'   = [exit_code EXCEPT ![s] = 0]
  /\ next_handle' = NextHandle
  /\ UNCHANGED task

(* Task_table::free: deleting the capabilities destroys the child *)
Free(s) ==
  /\ state'  = [state EXCEPT ![s] = "FREE"]
  /\ handle' = [handle EXCEPT ![s] = None]
  /\ task'   = [task EXCEPT ![s] = None]
  /\ alive'  = [i \in Images |-> IF i = task[s] THEN "gone" ELSE alive[i]]
  /\ UNCHANGED <<exit_code, next_handle>>

(* Task_table::count *)
Count == Cardinality({s \in Slots : state[s] \in {"RUNNING", "EXITED"}})

-----------------------------------------------------------------------------
(* The dispatch thread *)

(* the handler returns: the reply goes out and the server takes requests *)
Return(op, hh, kind, val) ==
  /\ pc' = "loop"
  /\ slot' = 0 /\ h' = None /\ img' = None /\ caller' = None
  /\ mode' = "SPAWN_BG" /\ result' = 0
  /\ reply' = [op |-> op, h |-> hh, kind |-> kind, val |-> val]

(* op_spawn and op_spawn_con refuse an empty path, and op_spawn_con a       *)
(* request that carries no console capability                              *)
op_spawn_invalid ==
  /\ pc = "loop"
  /\ Return("spawn", None, "error", EINVAL)
  /\ UNCHANGED <<tableVars, imageVars, reaperVars>>

(* op_spawn, op_spawn_con, up to the allocation in do_spawn *)
op_spawn(flags) ==
  /\ pc = "loop"
  /\ \/ /\ FreeSlots = {}
        /\ Return("spawn", None, "error", ENOMEM)
        /\ UNCHANGED tableVars
     \/ \E s \in Slots :
          /\ IsFirst(s, FreeSlots)
          /\ next_handle <= MaxSpawns
          /\ Alloc(s)
          /\ pc' = "load" /\ slot' = s /\ h' = NewHandle(s) /\ mode' = flags
          /\ UNCHANGED <<img, caller, result, reply>>
  /\ UNCHANGED <<imageVars, reaperVars>>

(* load_image: the gate is bound to the reaper with label hh, then the      *)
(* program is launched                                                     *)
Launch(hh) ==
  /\ nimages < MaxImages
  /\ nimages' = nimages + 1
  /\ alive' = [alive EXCEPT ![nimages + 1] = "alive"]
  /\ label' = [label EXCEPT ![nimages + 1] = hh]
  /\ img' = nimages + 1
  /\ UNCHANGED <<exiting, code, execing>>

(* do_spawn, step 2: load_image without the lock *)
do_spawn_load ==
  /\ pc = "load"
  /\ \/ Launch(h) /\ pc' = "install"
     \/ pc' = "load_failed" /\ UNCHANGED <<imageVars, img>>
  /\ UNCHANGED <<tableVars, slot, h, caller, mode, result, reply, reaperVars>>

(* Mutant: the slot of a failed load is not given back *)
FailedKeepsSlot ==
  /\ pc = "load_failed"
  /\ Return("spawn", None, "error", ENOMEM)
  /\ UNCHANGED <<tableVars, imageVars, reaperVars>>

(* do_spawn after a failed load *)
do_spawn_failed ==
  /\ pc = "load_failed"
  /\ \E s \in Slots : IsFirst(s, Find(h)) /\ Free(s)
  /\ Return("spawn", None, "error", ENOMEM)
  /\ UNCHANGED <<nimages, label, exiting, code, execing, reaperVars>>

(* Mutant: the mark the reaper made during the load is overwritten *)
InstallOverwrites(s) == "RUNNING"

(* a slot the reaper has already marked stays EXITED *)
InstalledState(s) == IF state[s] = "LOADING" THEN "RUNNING" ELSE state[s]

(* do_spawn, step 3: the slot takes over the capabilities; then the          *)
(* SPAWN_WAIT or SPAWN_BG tail                                             *)
do_spawn_install ==
  /\ pc = "install"
  /\ task'  = [task EXCEPT ![slot] = img]
  /\ state' = [state EXCEPT ![slot] = InstalledState(slot)]
  /\ \/ /\ mode = "SPAWN_WAIT"
        /\ pc' = "poll" /\ img' = None
        /\ UNCHANGED <<slot, h, caller, mode, result, reply>>
     \/ /\ mode = "SPAWN_BG"
        /\ Return("spawn", h, "handle", h)
  /\ UNCHANGED <<handle, exit_code, next_handle, imageVars, reaperVars>>

(* do_wait: the poll that finds the slot EXITED *)
do_wait_done ==
  /\ pc = "poll"
  /\ state[slot] = "EXITED"
  /\ pc' = "collect" /\ result' = exit_code[slot]
  /\ UNCHANGED <<tableVars, imageVars, slot, h, img, caller, mode, reply,
                 reaperVars>>

(* the free after do_wait, in op_spawn, op_spawn_con and op_wait *)
do_wait_free ==
  /\ pc = "collect"
  /\ \E s \in Slots : IsFirst(s, Find(h)) /\ Free(s)
  /\ Return(IF mode = "SPAWN_WAIT" THEN "spawn" ELSE "wait", h, "code", result)
  /\ UNCHANGED <<nimages, label, exiting, code, execing, reaperVars>>

op_wait(hh, nohang) ==
  /\ pc = "loop"
  /\ \/ /\ Find(hh) = {}
        /\ Return("wait", hh, "error", ENOENT)
        /\ UNCHANGED <<tableVars, alive>>
     \/ \E s \in Slots :
          /\ IsFirst(s, Find(hh))
          /\ \/ /\ state[s] = "EXITED"
                /\ Free(s)
                /\ Return("wait", hh, "code", exit_code[s])
             \/ /\ state[s] # "EXITED" /\ nohang
                /\ Return("wait", hh, "error", EAGAIN)
                /\ UNCHANGED <<tableVars, alive>>
             \/ /\ state[s] # "EXITED" /\ ~nohang
                /\ pc' = "poll" /\ slot' = s /\ h' = hh
                /\ UNCHANGED <<tableVars, alive, img, caller, mode, result, reply>>
  /\ UNCHANGED <<nimages, label, exiting, code, execing, reaperVars>>

op_kill(hh) ==
  /\ pc = "loop"
  /\ \/ /\ Find(hh) = {}
        /\ Return("kill", hh, "error", ENOENT)
        /\ UNCHANGED <<tableVars, alive>>
     \/ /\ \E s \in Slots : IsFirst(s, Find(hh)) /\ Free(s)
        /\ Return("kill", hh, "ok", 0)
  /\ UNCHANGED <<nimages, label, exiting, code, execing, reaperVars>>

op_task_count ==
  /\ pc = "loop"
  /\ Return("count", None, "ok", Count)
  /\ UNCHANGED <<tableVars, imageVars, reaperVars>>

op_task_stat(s) ==
  /\ pc = "loop"
  /\ \/ /\ s \in Slots => state[s] \in {"FREE", "LOADING"}
        /\ Return("stat", None, "error", ENOENT)
     \/ /\ s \in Slots /\ state[s] \in {"RUNNING", "EXITED"}
        /\ Return("stat", handle[s], "ok", IF state[s] = "RUNNING" THEN 1 ELSE 2)
  /\ UNCHANGED <<tableVars, imageVars, reaperVars>>

(* an exec call that fails is answered and the caller keeps its image *)
ExecError(i, err) ==
  /\ execing' = [execing EXCEPT ![i] = "no"]
  /\ Return("exec", label[i], "error", err)
  /\ UNCHANGED <<tableVars, nimages, alive, label, exiting, code, reaperVars>>

(* op_exec up to the check that the caller is a live child: image i calls   *)
(* with its own handle (SPAWND_HANDLE)                                     *)
op_exec(i) ==
  /\ pc = "loop" /\ execing[i] = "queued" /\ alive[i] # "gone"
  /\ \/ ExecError(i, EINVAL)
     \/ /\ ~ \E s \in Slots : IsFirst(s, Find(label[i])) /\ state[s] = "RUNNING"
        /\ ExecError(i, ENOENT)
     \/ /\ \E s \in Slots : IsFirst(s, Find(label[i])) /\ state[s] = "RUNNING"
        /\ execing' = [execing EXCEPT ![i] = "served"]
        /\ pc' = "exec_load" /\ h' = label[i] /\ caller' = i
        /\ UNCHANGED <<tableVars, nimages, alive, label, exiting, code, slot, img,
                       mode, result, reply, reaperVars>>

(* op_exec: load_image, without the lock, under the same handle *)
op_exec_load ==
  /\ pc = "exec_load"
  /\ \/ /\ Launch(h) /\ pc' = "exec_swap"
        /\ UNCHANGED <<tableVars, slot, h, caller, mode, result, reply, reaperVars>>
     \/ ExecError(caller, EIO)

(* Mutant: the new image is forgotten instead of destroyed *)
ForgetImage(i) == UNCHANGED alive

(* the new image of an exec that came too late is destroyed *)
DropImage(i) == alive' = [alive EXCEPT ![i] = "gone"]

(* op_exec: the swap.  Overwriting the capabilities destroys the old image; *)
(* if the slot is no longer RUNNING the new one is dropped.  No reply       *)
(* either way (ENOREPLY).                                                  *)
op_exec_swap ==
  /\ pc = "exec_swap"
  /\ \/ \E s \in Slots :
          /\ IsFirst(s, Find(h)) /\ state[s] = "RUNNING"
          /\ task'  = [task EXCEPT ![s] = img]
          /\ alive' = [i \in Images |-> IF i = task[s] THEN "gone" ELSE alive[i]]
     \/ /\ ~ \E s \in Slots : IsFirst(s, Find(h)) /\ state[s] = "RUNNING"
        /\ DropImage(img)
        /\ UNCHANGED task
  /\ Return("exec", h, "none", 0)
  /\ UNCHANGED <<state, handle, exit_code, next_handle, nimages, label, exiting,
                 code, execing, reaperVars>>

-----------------------------------------------------------------------------
(* The reaper thread *)

(* l4_ipc_wait or the wait half of l4_ipc_reply_and_wait returns a message *)
ReaperReceive ==
  /\ rpc = "wait"
  /\ \E i \in Images :
       /\ exiting[i] = "sent" /\ alive[i] # "gone"
       /\ exiting' = [exiting EXCEPT ![i] = "rcvd"]
       /\ rimg' = i
  /\ rpc' = "got"
  /\ UNCHANGED <<tableVars, nimages, alive, label, code, execing, serverVars>>

(* Mutant: exits count only once the slot is RUNNING *)
AcceptsRunning(s) == state[s] = "RUNNING"

(* an exit IPC counts in the LOADING state too, and only once *)
AcceptsExit(s) == state[s] # "EXITED"

(* the critical section that marks the slot EXITED *)
ReaperMark ==
  /\ rpc = "got"
  /\ \/ \E s \in Slots :
          /\ IsFirst(s, Find(label[rimg])) /\ AcceptsExit(s)
          /\ state'     = [state EXCEPT ![s] = "EXITED"]
          /\ exit_code' = [exit_code EXCEPT ![s] = code[rimg]]
     \/ /\ ~ \E s \in Slots : IsFirst(s, Find(label[rimg])) /\ AcceptsExit(s)
        /\ UNCHANGED <<state, exit_code>>
  /\ rpc' = "reply"
  /\ UNCHANGED <<handle, task, next_handle, imageVars, serverVars, rimg>>

(* the reply half: the child's call returns, if the child still exists *)
ReaperReply ==
  /\ rpc = "reply"
  /\ exiting' = [exiting EXCEPT ![rimg] = "done"]
  /\ rpc' = "wait" /\ rimg' = None
  /\ UNCHANGED <<tableVars, nimages, alive, label, code, execing, serverVars>>

(* 500 ms without an exit IPC *)
ReaperTimeout ==
  /\ rpc = "wait"
  /\ \A i \in Images : exiting[i] = "sent" => alive[i] = "gone"
  /\ rpc' = "timeout"
  /\ UNCHANGED <<tableVars, imageVars, serverVars, rimg>>

(* Mutant: crash detection looks at slots that have no thread yet *)
CrashedLoading(s) == state[s] = "LOADING" /\ task[s] \in Images /\ alive[task[s]] = "dead"

Crashed(s) == state[s] = "RUNNING" /\ task[s] \in Images /\ alive[task[s]] = "dead"

(* Mutant: the reaper frees the slot of a crashed child itself *)
ReapToFree == "FREE"

(* a crashed child is marked, never freed, by the reaper *)
ReapedState == "EXITED"

(* reap_once: every RUNNING slot whose thread is dead becomes EXITED *)
reap_once ==
  /\ rpc = "timeout"
  /\ state'     = [s \in Slots |-> IF Crashed(s) THEN ReapedState ELSE state[s]]
  /\ exit_code' = [s \in Slots |-> IF Crashed(s) THEN -1 ELSE exit_code[s]]
  /\ rpc' = "wait"
  /\ UNCHANGED <<handle, task, next_handle, imageVars, serverVars, rimg>>

-----------------------------------------------------------------------------
(* The children (not in src/ except pkg/exectest).  A program with one      *)
(* thread is blocked while its exit IPC or its exec call is pending.        *)

Idle(i) == execing[i] = "no" /\ exiting[i] = "no"

ChildExit(i, c) ==
  /\ alive[i] = "alive" /\ exiting[i] = "no"
  /\ MultiThreaded \/ Idle(i)
  /\ exiting' = [exiting EXCEPT ![i] = "sent"]
  /\ code' = [code EXCEPT ![i] = c]
  /\ UNCHANGED <<tableVars, nimages, alive, label, execing, serverVars, reaperVars>>

ChildCrash(i) ==
  /\ alive[i] = "alive"
  /\ MultiThreaded \/ Idle(i)
  /\ alive' = [alive EXCEPT ![i] = "dead"]
  /\ UNCHANGED <<tableVars, nimages, label, exiting, code, execing, serverVars, reaperVars>>

ChildExec(i) ==
  /\ alive[i] = "alive" /\ execing[i] = "no"
  /\ MultiThreaded \/ Idle(i)
  /\ execing' = [execing EXCEPT ![i] = "queued"]
  /\ UNCHANGED <<tableVars, nimages, alive, label, exiting, code, serverVars, reaperVars>>

-----------------------------------------------------------------------------
Init ==
  /\ state = [s \in Slots |-> "FREE"] /\ handle = [s \in Slots |-> None]
  /\ exit_code = [s \in Slots |-> 0]  /\ task = [s \in Slots |-> None]
  /\ next_handle = 1
  /\ nimages = 0
  /\ alive = [i \in Images |-> "none"] /\ label = [i \in Images |-> None]
  /\ exiting = [i \in Images |-> "no"] /\ code = [i \in Images |-> 0]
  /\ execing = [i \in Images |-> "no"]
  /\ pc = "loop" /\ slot = 0 /\ h = None /\ img = None /\ caller = None
  /\ mode = "SPAWN_BG" /\ result = 0
  /\ reply = [op |-> "none", h |-> None, kind |-> "none", val |-> 0]
  /\ rpc = "wait" /\ rimg = None

(* requests, from any client and with any handle *)
Request ==
  \/ op_spawn_invalid
  \/ \E flags \in {"SPAWN_WAIT", "SPAWN_BG"} : op_spawn(flags)
  \/ \E hh \in 0 .. MaxSpawns, nohang \in BOOLEAN : op_wait(hh, nohang)
  \/ \E hh \in 0 .. MaxSpawns : op_kill(hh)
  \/ op_task_count
  \/ \E s \in 0 .. MAX : op_task_stat(s)

(* what the dispatch thread does without a new request *)
ServerStep ==
  \/ do_spawn_load \/ do_spawn_failed \/ do_spawn_install
  \/ do_wait_done \/ do_wait_free
  \/ op_exec_load \/ op_exec_swap

ExecRequest == \E i \in Images : op_exec(i)

ReaperStep ==
  ReaperReceive \/ ReaperMark \/ ReaperReply \/ ReaperTimeout \/ reap_once

ChildStep ==
  \E i \in Images :
    \/ \E c \in ExitCodes : ChildExit(i, c)
    \/ ChildCrash(i)
    \/ ChildExec(i)

Next == Request \/ ExecRequest \/ ServerStep \/ ReaperStep \/ ChildStep

Spec == Init /\ [][Next]_vars

(* Scheduling: both threads of spawnd keep running, and the server, whenever *)
(* it takes requests, does not pass over a queued exec for ever.            *)
Fairness ==
  /\ WF_vars(ServerStep)
  /\ WF_vars(ReaperStep)
  /\ \A i \in Images : SF_vars(op_exec(i))

(* The programs: every program that is not blocked in a call ends. *)
ChildrenEnd == \A i \in Images : WF_vars(\E c \in ExitCodes : ChildExit(i, c))

FairSpec == Spec /\ Fairness
EndingSpec == FairSpec /\ ChildrenEnd

-----------------------------------------------------------------------------
(* Properties *)

TableType ==
  /\ state \in [Slots -> {"FREE", "LOADING", "RUNNING", "EXITED"}]
  /\ handle \in [Slots -> Nat] /\ exit_code \in [Slots -> Int]
  /\ task \in [Slots -> Images \cup {None}]
  /\ next_handle \in Nat \ {0}

ImageType ==
  /\ nimages \in 0 .. MaxImages
  /\ alive \in [Images -> {"none", "alive", "dead", "gone"}]
  /\ label \in [Images -> Nat] /\ code \in [Images -> Int]
  /\ exiting \in [Images -> {"no", "sent", "rcvd", "done"}]
  /\ execing \in [Images -> {"no", "queued", "served"}]

Replies == [op : {"none", "spawn", "wait", "kill", "count", "stat", "exec"},
            h : Nat, kind : {"none", "error", "handle", "code", "ok"}, val : Int]

ServerType ==
  /\ pc \in {"loop", "load", "load_failed", "install", "poll", "collect",
             "exec_load", "exec_swap"}
  /\ slot \in Slots /\ h \in Nat /\ result \in Int
  /\ mode \in {"SPAWN_WAIT", "SPAWN_BG"}
  /\ img \in Images \cup {None} /\ caller \in Images \cup {None}
  /\ reply \in Replies

ReaperType ==
  /\ rpc \in {"wait", "got", "reply", "timeout"}
  /\ rimg \in Images \cup {None}

TypeOK == TableType /\ ImageType /\ ServerType /\ ReaperType

(* No two children in the table have the same handle, and no handle yet to  *)
(* be given out is in use: find() can return only the child that was meant  *)
(* (task_table.cc, alloc and find).                                        *)
HandlesUnique ==
  \A s \in Slots : state[s] # "FREE" =>
    /\ handle[s] # None /\ handle[s] < next_handle
    /\ \A t \in Slots : state[t] # "FREE" /\ handle[t] = handle[s] => t = s

(* do_wait and op_wait keep a pointer to a slot across unlock, sleep and     *)
(* lock: while they do, the slot still holds the child they were asked for,  *)
(* and the code they return is the one the slot still shows when it is freed *)
(* (spawnd.cc, do_wait and op_wait).                                       *)
WaitedSlotStable ==
  pc \in {"poll", "collect"} =>
    /\ state[slot] \in {"RUNNING", "EXITED"} /\ handle[slot] = h
    /\ pc = "collect" => state[slot] = "EXITED" /\ exit_code[slot] = result

(* Every task that exists is owned: by the slot that its parent gate's label *)
(* names, or by the handler that is loading it.  No path of do_spawn,        *)
(* op_exec, kill or wait loses a task whose capabilities nobody can free.    *)
NoOrphan ==
  \A i \in Images : alive[i] \in {"alive", "dead"} =>
    \/ \E s \in Slots : task[s] = i /\ state[s] # "FREE" /\ handle[s] = label[i]
    \/ pc \in {"install", "exec_swap"} /\ img = i

(* A slot is LOADING only while the dispatch thread is in do_spawn for it:   *)
(* no failed load leaves the slot taken, and no client ever sees LOADING.    *)
LoadingInFlight ==
  \A s \in Slots : state[s] = "LOADING" =>
    pc \in {"load", "load_failed", "install"} /\ slot = s

(* Once the reaper has answered a child's exit IPC, the child's slot shows   *)
(* EXITED until it is freed, even when the child exits before do_spawn or    *)
(* op_exec has installed it: no exit is lost (spawnd.cc, reaper_main).      *)
ExitRecorded ==
  \A i \in Images : exiting[i] = "done" /\ alive[i] # "gone" =>
    \E s \in Slots : handle[s] = label[i] /\ state[s] = "EXITED"

(* The code of an EXITED slot was left by the program now behind the handle: *)
(* the one the slot owns, or one that came after it (ended before do_spawn   *)
(* or op_exec could install it).  No exit IPC of an earlier child, or of the *)
(* program that an exec has replaced, is charged to it.                     *)
ExitIsOfCurrentProgram ==
  \A s \in Slots : state[s] = "EXITED" =>
    \E i \in Images :
      /\ label[i] = handle[s] /\ i >= task[s]
      /\ \/ exiting[i] \in {"rcvd", "done"} /\ exit_code[s] = code[i]
         \/ alive[i] = "dead" /\ exit_code[s] = -1

(* A child's exit IPC is noticed: its slot becomes EXITED or is freed, unless *)
(* the program is destroyed first by a kill or an exec.                     *)
ExitNoticed ==
  \A i \in Images :
    (exiting[i] = "sent" /\ alive[i] # "gone") ~>
      \/ alive[i] = "gone"
      \/ \A s \in Slots : state[s] \in {"LOADING", "RUNNING"} => handle[s] # label[i]

(* A crash without exit IPC is noticed by reap_once: the slot does not stay  *)
(* RUNNING on a dead thread.                                               *)
CrashNoticed ==
  \A i \in Images :
    (alive[i] = "dead" /\ \E s \in Slots : task[s] = i /\ state[s] = "RUNNING")
      ~> ~ \E s \in Slots : task[s] = i /\ state[s] = "RUNNING"

(* A blocking wait on a child that has exited or crashed is answered, also   *)
(* when the child was gone before do_spawn installed it.                    *)
WaitReturns ==
  (pc = "poll" /\ \E i \in Images : task[slot] = i /\ (exiting[i] # "no" \/ alive[i] = "dead"))
    ~> (pc = "loop")

(* A blocking wait returns when every program that is not blocked ends: what *)
(* pkg/exectest says of `run exectest`, whose program replaces itself by     *)
(* exec while the shell waits for it.                                      *)
BlockingWaitReturns == (pc = "poll") ~> (pc = "loop")

(* spawnd implements Lifecycle.  A handle is live while its slot is LOADING  *)
(* or RUNNING, exited while it is EXITED, over when the table has forgotten  *)
(* it.                                                                     *)
Holder(hh) == CHOOSE s \in Find(hh) : TRUE

lifeOf(hh) ==
  IF Find(hh) # {}
  THEN IF state[Holder(hh)] = "EXITED" THEN "exited" ELSE "live"
  ELSE IF hh < next_handle THEN "over" ELSE "unborn"

L == INSTANCE Lifecycle WITH
       Handles  <- 1 .. MaxSpawns,
       NoAnswer <- <<>>,
       life     <- [hh \in 1 .. MaxSpawns |-> lifeOf(hh)],
       code     <- [hh \in 1 .. MaxSpawns |->
                      IF lifeOf(hh) = "exited" THEN exit_code[Holder(hh)] ELSE 0],
       answer   <- IF reply.kind = "code" THEN <<reply.h, reply.val>> ELSE <<>>

(* Every behaviour of spawnd is one of Lifecycle: handles are born once, an   *)
(* exit code never changes once set, exactly one waiter collects it, and a    *)
(* killed or collected handle never comes back, exec or not.                *)
LifecycleSpec == L!Spec

=============================================================================
