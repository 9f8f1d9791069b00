---------------------------- MODULE SpawndProofs ----------------------------
(***************************************************************************)
(* Proofs about Spawnd, for every size of the table, every number of       *)
(* handles and images and every set of exit codes.                         *)
(***************************************************************************)
EXTENDS Spawnd, FiniteSetTheorems, TLAPS

(* The program counters at which a handler holds a slot it is filling. *)
Filling == {"load", "load_failed", "install"}

(* A FREE slot is empty; a RUNNING one owns a task. *)
SlotInv ==
  /\ \A s \in Slots : state[s] = "FREE" => handle[s] = None /\ task[s] = None
  /\ \A s \in Slots : state[s] = "RUNNING" => task[s] # None

(* What is known of an image: unused ones are blank, used ones carry a      *)
(* handle that was given out, and a slot owns only existing images with     *)
(* its own label.                                                          *)
ImageInv ==
  /\ \A i \in Images : i > nimages =>
       alive[i] = "none" /\ label[i] = None /\ exiting[i] = "no" /\ execing[i] = "no"
  /\ \A i \in Images : i <= nimages =>
       alive[i] # "none" /\ label[i] # None /\ label[i] < next_handle
  /\ \A s \in Slots : task[s] # None =>
       label[task[s]] = handle[s] /\ alive[task[s]] \in {"alive", "dead"}

(* The locals of the handler that is running. *)
ServerInv ==
  /\ pc \in Filling =>
       state[slot] \in {"LOADING", "EXITED"} /\ handle[slot] = h /\ task[slot] = None
  /\ pc \in {"load", "load_failed"} =>
       state[slot] = "LOADING" /\ \A i \in Images : label[i] # h
  /\ pc \in {"install", "exec_swap"} =>
       /\ img \in Images /\ label[img] = h /\ alive[img] \in {"alive", "dead"}
       /\ \A s \in Slots : task[s] # img
  /\ pc \in {"exec_load", "exec_swap"} =>
       /\ caller \in Images
       /\ \E s \in Slots : handle[s] = h /\ state[s] \in {"RUNNING", "EXITED"}

(* The exit IPC the reaper holds; when it is about to answer, the exit is    *)
(* already recorded.                                                       *)
ReaperInv ==
  /\ rpc \in {"got", "reply"} => rimg \in Images /\ exiting[rimg] = "rcvd"
  /\ rpc = "reply" /\ alive[rimg] # "gone" =>
       \E s \in Slots : handle[s] = label[rimg] /\ state[s] = "EXITED"

IInv ==
  /\ TypeOK /\ SlotInv /\ HandlesUnique /\ ImageInv /\ ServerInv /\ ReaperInv
  /\ LoadingInFlight /\ WaitedSlotStable /\ NoOrphan /\ ExitRecorded

-----------------------------------------------------------------------------
(* Task_table::count is a number. *)
LEMMA CountType == Count \in Int
<1> DEFINE S == {s \in Slots : state[s] \in {"RUNNING", "EXITED"}}
<1>1. IsFiniteSet(Slots)
  BY FS_Interval, SpawndAssumption DEF Slots
<1>2. IsFiniteSet(S)
  BY <1>1, FS_Subset
<1>3. Cardinality(S) \in Nat
  BY <1>2, FS_CardinalityType
<1> QED
  BY <1>3 DEF Count

(* What IsFirst is used for. *)
LEMMA FirstIn == \A S : \A s : IsFirst(s, S) => s \in S
BY DEF IsFirst

(* Slot 0 exists. *)
LEMMA ZeroSlot == 0 \in Slots
BY SpawndAssumption DEF Slots

(* There is a next image below the bound, and it is not None. *)
LEMMA NextImage == /\ \A n \in 0 .. MaxImages : n < MaxImages => n + 1 \in Images
                   /\ None \notin Images
                   /\ \A i \in Images : i \in Nat
BY SpawndAssumption DEF Images, None

(* The initial state. *)
LEMMA InitInv == Init => IInv
<1> SUFFICES ASSUME Init PROVE IInv
  OBVIOUS
<1> USE SpawndAssumption DEF Init, Slots, Images, None
<1>1. TypeOK
  BY DEF TypeOK, TableType, ImageType, ServerType, ReaperType, Replies
<1>2. SlotInv /\ HandlesUnique /\ LoadingInFlight
  BY DEF SlotInv, HandlesUnique, LoadingInFlight
<1>3. ImageInv
  BY DEF ImageInv
<1>4. ServerInv /\ ReaperInv /\ WaitedSlotStable
  BY DEF ServerInv, ReaperInv, WaitedSlotStable, Filling
<1>5. NoOrphan /\ ExitRecorded
  BY DEF NoOrphan, ExitRecorded
<1> QED
  BY <1>1, <1>2, <1>3, <1>4, <1>5 DEF IInv

-----------------------------------------------------------------------------
(* A handler that returns leaves well-typed locals and a well-typed reply. *)
LEMMA ReturnType ==
  ASSUME NEW op \in {"spawn", "wait", "kill", "count", "stat", "exec"},
         NEW hh \in Nat, NEW kind \in {"none", "error", "handle", "code", "ok"},
         NEW val \in Int, Return(op, hh, kind, val)
  PROVE  pc' = "loop" /\ ServerType'
BY ZeroSlot DEF Return, ServerType, Replies, None

(* A reply that changes neither the table nor the children preserves IInv;   *)
(* an exec call may end with it.                                           *)
LEMMA QuietInv ==
  ASSUME IInv, pc \in {"loop", "exec_load"}, pc' = "loop", ServerType',
         UNCHANGED <<tableVars, nimages, alive, label, exiting, code, reaperVars>>,
         execing' = execing \/ \E i \in Images : execing' = [execing EXCEPT ![i] = "no"]
  PROVE  IInv'
<1> USE DEF IInv, TypeOK, tableVars, reaperVars
<1>1. TableType' /\ ImageType' /\ ReaperType'
  BY DEF TableType, ImageType, ReaperType
<1>2. SlotInv' /\ HandlesUnique'
  BY DEF SlotInv, HandlesUnique
<1>3. ImageInv'
  BY DEF ImageInv, ImageType
<1>4. ServerInv' /\ WaitedSlotStable'
  BY DEF ServerInv, WaitedSlotStable, Filling
<1>5. LoadingInFlight'
  BY DEF LoadingInFlight
<1>6. NoOrphan'
  BY DEF NoOrphan
<1>7. ReaperInv' /\ ExitRecorded'
  BY DEF ReaperInv, ExitRecorded
<1> QED
  BY <1>1, <1>2, <1>3, <1>4, <1>5, <1>6, <1>7

(* Freeing a slot, from wherever the code does it, preserves IInv. *)
LEMMA FreeInv ==
  ASSUME IInv, NEW s \in Slots, state[s] # "FREE", Free(s),
         pc \in {"loop", "load_failed", "collect"}, pc = "load_failed" => s = slot,
         pc' = "loop", ServerType',
         UNCHANGED <<nimages, label, exiting, code, execing, reaperVars>>
  PROVE  IInv'
<1> USE DEF IInv, TypeOK, reaperVars, None
<1>1. TableType' /\ ImageType' /\ ReaperType'
  BY DEF TableType, ImageType, ReaperType, Free
<1>2. SlotInv' /\ HandlesUnique'
  BY DEF SlotInv, HandlesUnique, Free, TableType
<1>3. \A i \in Images : alive'[i] \in {"alive", "dead"} => alive'[i] = alive[i] /\ i # task[s]
  BY DEF Free
<1>4. ImageInv'
  <2>1. \A t \in Slots : task'[t] # None => t # s /\ task'[t] = task[t] /\ handle'[t] = handle[t]
    BY DEF Free, TableType
  <2>2. \A t \in Slots : task'[t] # None => task[t] # task[s] /\ task[t] \in Images
    BY <2>1 DEF HandlesUnique, ImageInv, SlotInv, TableType
  <2>3. \A t \in Slots : task'[t] # None =>
          label'[task'[t]] = handle'[t] /\ alive'[task'[t]] \in {"alive", "dead"}
    BY <2>1, <2>2 DEF Free, ImageInv
  <2>4. \A i \in Images : i > nimages => i # task[s]
    BY NextImage DEF ImageInv, TableType
  <2> QED
    BY <2>3, <2>4 DEF ImageInv, Free
<1>5. ServerInv' /\ WaitedSlotStable'
  BY DEF ServerInv, WaitedSlotStable, Filling
<1>6. LoadingInFlight'
  BY DEF LoadingInFlight, Free, TableType
<1>7. \A i \in Images : alive'[i] \in {"alive", "dead"} => label[i] # handle[s]
  BY <1>3, NextImage DEF NoOrphan, HandlesUnique, TableType
<1>8. NoOrphan'
  BY <1>3, <1>7 DEF NoOrphan, Free, TableType
<1>9. \A i \in Images : alive'[i] # "gone" /\ exiting[i] \in {"rcvd", "done"} =>
        alive[i] # "gone" /\ label[i] # handle[s]
  <2>1. \A i \in Images : exiting[i] \in {"rcvd", "done"} => alive[i] # "none"
    BY NextImage DEF ImageInv, ImageType
  <2> QED
    BY <1>7, <2>1 DEF Free, ImageType
<1>10. ReaperInv'
  BY <1>9 DEF ReaperInv, Free, TableType
<1>11. ExitRecorded'
  BY <1>9 DEF ExitRecorded, Free, TableType
<1> QED
  BY <1>1, <1>2, <1>4, <1>5, <1>6, <1>8, <1>10, <1>11

(* op_spawn *)
LEMMA SpawnInv ==
  ASSUME IInv, NEW flags \in {"SPAWN_WAIT", "SPAWN_BG"}, op_spawn(flags)
  PROVE  IInv'
<1> USE DEF IInv, TypeOK, reaperVars, imageVars, None
<1>1. CASE UNCHANGED tableVars /\ Return("spawn", None, "error", ENOMEM)
  BY <1>1, ReturnType, QuietInv DEF op_spawn, ENOMEM
<1>2. ASSUME NEW s \in Slots, state[s] = "FREE", Alloc(s), pc' = "load", slot' = s,
             h' = next_handle, mode' = flags, UNCHANGED <<img, caller, result, reply>>
      PROVE  IInv'
  <2> USE <1>2
  <2>0. pc = "loop" /\ UNCHANGED <<imageVars, reaperVars>>
    BY DEF op_spawn
  <2> USE DEF Alloc, NewHandle, NextHandle
  <2>1. TableType' /\ ImageType' /\ ServerType' /\ ReaperType'
    BY <2>0 DEF TableType, ImageType, ServerType, ReaperType
  <2>2. SlotInv' /\ HandlesUnique'
    BY DEF SlotInv, HandlesUnique, TableType
  <2>3. ImageInv'
    BY <2>0 DEF ImageInv, SlotInv, TableType, ImageType
  <2>4. ServerInv'
    <3>1. \A i \in Images : label[i] # next_handle
      BY NextImage DEF ImageInv, ImageType, TableType
    <3> QED
      BY <2>0, <3>1 DEF ServerInv, SlotInv, TableType, Filling
  <2>5. LoadingInFlight' /\ WaitedSlotStable'
    BY <2>0 DEF LoadingInFlight, WaitedSlotStable, TableType
  <2>6. NoOrphan'
    BY <2>0 DEF NoOrphan, TableType
  <2>7. \A t \in Slots : state[t] = "EXITED" => state'[t] = "EXITED" /\ handle'[t] = handle[t]
    BY DEF TableType
  <2>8. ReaperInv' /\ ExitRecorded'
    BY <2>0, <2>7 DEF ReaperInv, ExitRecorded
  <2> QED
    BY <2>1, <2>2, <2>3, <2>4, <2>5, <2>6, <2>8
<1> QED
  BY <1>1, <1>2, FirstIn DEF op_spawn, FreeSlots, NewHandle

(* launching a program, seen from the children and the reaper *)
LEMMA LaunchInv ==
  ASSUME IInv, NEW hh \in Nat, hh # None, hh < next_handle, Launch(hh),
         pc \in {"load", "exec_load"}, UNCHANGED <<tableVars, reaperVars>>
  PROVE  /\ ImageType' /\ ImageInv' /\ ReaperInv' /\ ExitRecorded'
         /\ img' \in Images /\ label'[img'] = hh /\ alive'[img'] = "alive"
         /\ \A s \in Slots : task[s] # img'
         /\ \A i \in Images : i # img' => alive'[i] = alive[i] /\ label'[i] = label[i]
         /\ alive[img'] = "none"
<1> USE DEF IInv, TypeOK, reaperVars, tableVars, Launch
<1>1. img' = nimages + 1 /\ img' \in Images /\ img' # None
  BY NextImage DEF ImageType
<1>2. alive[img'] = "none" /\ exiting[img'] = "no"
  BY <1>1 DEF ImageInv, ImageType
<1>3. ImageType'
  BY <1>1, SpawndAssumption DEF ImageType
<1>4. \A s \in Slots : task[s] # img'
  BY <1>1, <1>2 DEF ImageInv
<1>5. \A i \in Images : i # img' => alive'[i] = alive[i] /\ label'[i] = label[i]
  BY <1>1 DEF ImageType
<1>6. label'[img'] = hh /\ alive'[img'] = "alive"
  BY <1>1 DEF ImageType
<1>7. ImageInv'
  <2>1. \A i \in Images : i > nimages' =>
          alive'[i] = "none" /\ label'[i] = None /\ exiting'[i] = "no" /\ execing'[i] = "no"
    BY <1>1, <1>5, NextImage DEF ImageInv, ImageType
  <2>2. \A i \in Images : i <= nimages' =>
          alive'[i] # "none" /\ label'[i] # None /\ label'[i] < next_handle'
    BY <1>1, <1>5, <1>6, NextImage DEF ImageInv, ImageType
  <2>3. \A s \in Slots : task[s] # None =>
          label'[task[s]] = handle[s] /\ alive'[task[s]] \in {"alive", "dead"}
    BY <1>4, <1>5 DEF ImageInv, TableType
  <2> QED
    BY <2>1, <2>2, <2>3 DEF ImageInv
<1>8. ReaperInv' /\ ExitRecorded'
  BY <1>2, <1>5 DEF ReaperInv, ExitRecorded, ImageType
<1> QED
  BY <1>1, <1>2, <1>3, <1>4, <1>5, <1>6, <1>7, <1>8

(* do_spawn: loading *)
LEMMA LoadInv == ASSUME IInv, do_spawn_load PROVE IInv'
<1> USE DEF IInv, TypeOK, do_spawn_load, tableVars, reaperVars, imageVars
<1>1. CASE Launch(h) /\ pc' = "install"
  <2>1. h \in Nat /\ h # None /\ h < next_handle
    BY DEF ServerInv, Filling, HandlesUnique, ServerType
  <2>2. /\ ImageType' /\ ImageInv' /\ ReaperInv' /\ ExitRecorded'
        /\ img' \in Images /\ label'[img'] = h /\ alive'[img'] = "alive"
        /\ \A s \in Slots : task[s] # img'
        /\ \A i \in Images : i # img' => alive'[i] = alive[i] /\ label'[i] = label[i]
    BY <1>1, <2>1, LaunchInv
  <2>3. TableType' /\ ServerType' /\ ReaperType' /\ SlotInv' /\ HandlesUnique'
    BY <1>1, <2>2 DEF TableType, ServerType, ReaperType, SlotInv, HandlesUnique
  <2>4. ServerInv' /\ LoadingInFlight' /\ WaitedSlotStable'
    BY <1>1, <2>2 DEF ServerInv, LoadingInFlight, WaitedSlotStable, Filling
  <2>5. NoOrphan'
    BY <1>1, <2>2 DEF NoOrphan
  <2> QED
    BY <2>2, <2>3, <2>4, <2>5
<1>2. CASE pc' = "load_failed" /\ UNCHANGED <<imageVars, img>>
  <2>1. TableType' /\ ImageType' /\ ServerType' /\ ReaperType' /\ SlotInv' /\ HandlesUnique'
    BY <1>2 DEF TableType, ImageType, ServerType, ReaperType, SlotInv, HandlesUnique
  <2>2. ServerInv' /\ LoadingInFlight' /\ WaitedSlotStable'
    BY <1>2 DEF ServerInv, LoadingInFlight, WaitedSlotStable, Filling
  <2>3. NoOrphan' /\ ImageInv' /\ ReaperInv' /\ ExitRecorded'
    BY <1>2 DEF NoOrphan, ImageInv, ReaperInv, ExitRecorded
  <2> QED
    BY <2>1, <2>2, <2>3
<1> QED
  BY <1>1, <1>2

(* do_spawn: the load failed *)
LEMMA FailedInv == ASSUME IInv, do_spawn_failed PROVE IInv'
<1> USE DEF IInv, TypeOK, None
<1>1. PICK s \in Slots : s \in Find(h) /\ Free(s)
  BY FirstIn DEF do_spawn_failed
<1>2. s = slot /\ state[s] # "FREE"
  BY <1>1 DEF Find, do_spawn_failed, ServerInv, HandlesUnique, ServerType, Filling
<1>3. pc' = "loop" /\ ServerType'
  BY ReturnType DEF do_spawn_failed, ENOMEM
<1> QED
  BY <1>1, <1>2, <1>3, FreeInv DEF do_spawn_failed

(* do_spawn: the slot takes over the new task *)
LEMMA InstallInv == ASSUME IInv, do_spawn_install PROVE IInv'
<1> USE DEF IInv, TypeOK, imageVars, reaperVars
<1>0. /\ pc = "install" /\ slot \in Slots /\ img \in Images /\ img # None
      /\ state[slot] \in {"LOADING", "EXITED"} /\ handle[slot] = h /\ task[slot] = None
      /\ label[img] = h /\ alive[img] \in {"alive", "dead"}
      /\ \A s \in Slots : task[s] # img
  BY NextImage DEF do_spawn_install, ServerInv, ServerType, Filling
<1>1. /\ task' = [task EXCEPT ![slot] = img]
      /\ state' = [state EXCEPT ![slot] = IF state[slot] = "LOADING" THEN "RUNNING" ELSE state[slot]]
      /\ UNCHANGED <<handle, exit_code, next_handle, imageVars, reaperVars>>
  BY DEF do_spawn_install, InstalledState
<1>2. /\ ServerType'
      /\ \/ pc' = "poll" /\ UNCHANGED <<slot, h>>
         \/ pc' = "loop"
  <2>1. CASE mode = "SPAWN_WAIT" /\ pc' = "poll" /\ img' = None
             /\ UNCHANGED <<slot, h, caller, mode, result, reply>>
    BY <2>1 DEF ServerType
  <2>2. CASE Return("spawn", h, "handle", h)
    BY <2>2, ReturnType DEF ServerType
  <2> QED
    BY <2>1, <2>2 DEF do_spawn_install
<1>3. TableType' /\ ImageType' /\ ReaperType'
  BY <1>0, <1>1 DEF TableType, ImageType, ReaperType
<1>4. SlotInv' /\ HandlesUnique'
  BY <1>0, <1>1 DEF SlotInv, HandlesUnique, TableType
<1>5. ImageInv'
  BY <1>0, <1>1 DEF ImageInv, TableType
<1>6. ServerInv' /\ LoadingInFlight' /\ WaitedSlotStable'
  BY <1>0, <1>1, <1>2 DEF ServerInv, LoadingInFlight, WaitedSlotStable, Filling, TableType
<1>7. NoOrphan'
  <2> SUFFICES ASSUME NEW i \in Images, alive[i] \in {"alive", "dead"}
               PROVE  \E s \in Slots : task'[s] = i /\ state'[s] # "FREE" /\ handle[s] = label[i]
    BY <1>1 DEF NoOrphan
  <2>1. CASE i = img
    BY <1>0, <1>1, <2>1 DEF TableType
  <2>2. CASE i # img
    <3>1. PICK s \in Slots : task[s] = i /\ state[s] # "FREE" /\ handle[s] = label[i]
      BY <2>2 DEF NoOrphan
    <3>2. s # slot
      BY <1>0, <3>1, NextImage
    <3> QED
      BY <1>1, <3>1, <3>2 DEF TableType
  <2> QED
    BY <2>1, <2>2
<1>8. \A s \in Slots : state[s] = "EXITED" => state'[s] = "EXITED"
  BY <1>0, <1>1 DEF TableType
<1>9. ReaperInv' /\ ExitRecorded'
  BY <1>1, <1>8 DEF ReaperInv, ExitRecorded
<1> QED
  BY <1>2, <1>3, <1>4, <1>5, <1>6, <1>7, <1>9

(* do_wait: the child has exited *)
LEMMA WaitDoneInv == ASSUME IInv, do_wait_done PROVE IInv'
<1> USE DEF IInv, TypeOK, do_wait_done, tableVars, imageVars, reaperVars
<1>1. TableType' /\ ImageType' /\ ServerType' /\ ReaperType' /\ SlotInv' /\ HandlesUnique'
  BY DEF TableType, ImageType, ServerType, ReaperType, SlotInv, HandlesUnique
<1>2. ServerInv' /\ LoadingInFlight' /\ WaitedSlotStable'
  BY DEF ServerInv, LoadingInFlight, WaitedSlotStable, Filling
<1>3. NoOrphan' /\ ImageInv' /\ ReaperInv' /\ ExitRecorded'
  BY DEF NoOrphan, ImageInv, ReaperInv, ExitRecorded
<1> QED
  BY <1>1, <1>2, <1>3

(* the free after do_wait *)
LEMMA WaitFreeInv == ASSUME IInv, do_wait_free PROVE IInv'
<1> USE DEF IInv, TypeOK
<1>1. PICK s \in Slots : s \in Find(h) /\ Free(s)
  BY FirstIn DEF do_wait_free
<1>2. pc' = "loop" /\ ServerType'
  <2>1. (IF mode = "SPAWN_WAIT" THEN "spawn" ELSE "wait") \in {"spawn", "wait"}
    OBVIOUS
  <2> QED
    BY <2>1, ReturnType DEF do_wait_free, ServerType
<1> QED
  BY <1>1, <1>2, FreeInv DEF do_wait_free, Find

(* op_wait *)
LEMMA OpWaitInv ==
  ASSUME IInv, NEW hh \in Nat, NEW nohang, op_wait(hh, nohang)
  PROVE  IInv'
<1> USE DEF IInv, TypeOK
<1>0. pc = "loop" /\ UNCHANGED <<nimages, label, exiting, code, execing, reaperVars>>
  BY DEF op_wait
<1>1. CASE (\E e \in {ENOENT, EAGAIN} : Return("wait", hh, "error", e)) /\ UNCHANGED <<tableVars, alive>>
  BY <1>0, <1>1, ReturnType, QuietInv DEF ENOENT, EAGAIN
<1>2. ASSUME NEW s \in Slots, s \in Find(hh), Free(s), Return("wait", hh, "code", exit_code[s])
      PROVE  IInv'
  <2>1. pc' = "loop" /\ ServerType'
    BY <1>2, ReturnType DEF TableType
  <2> QED
    BY <1>0, <1>2, <2>1, FreeInv DEF Find
<1>3. ASSUME NEW s \in Slots, s \in Find(hh), pc' = "poll", slot' = s, h' = hh,
             UNCHANGED <<tableVars, alive, img, caller, mode, result, reply>>
      PROVE  IInv'
  <2> USE <1>3 DEF tableVars, reaperVars
  <2>1. TableType' /\ ImageType' /\ ServerType' /\ ReaperType' /\ SlotInv' /\ HandlesUnique'
    BY <1>0 DEF TableType, ImageType, ServerType, ReaperType, SlotInv, HandlesUnique
  <2>2. ServerInv' /\ LoadingInFlight' /\ WaitedSlotStable'
    BY <1>0 DEF ServerInv, LoadingInFlight, WaitedSlotStable, Filling, Find, TableType
  <2>3. NoOrphan' /\ ImageInv' /\ ReaperInv' /\ ExitRecorded'
    BY <1>0 DEF NoOrphan, ImageInv, ReaperInv, ExitRecorded
  <2> QED
    BY <2>1, <2>2, <2>3
<1> QED
  BY <1>1, <1>2, <1>3, FirstIn DEF op_wait

(* op_kill *)
LEMMA KillInv == ASSUME IInv, NEW hh \in Nat, op_kill(hh) PROVE IInv'
<1> USE DEF IInv, TypeOK
<1>0. pc = "loop" /\ UNCHANGED <<nimages, label, exiting, code, execing, reaperVars>>
  BY DEF op_kill
<1>1. CASE Return("kill", hh, "error", ENOENT) /\ UNCHANGED <<tableVars, alive>>
  BY <1>0, <1>1, ReturnType, QuietInv DEF ENOENT
<1>2. ASSUME NEW s \in Slots, s \in Find(hh), Free(s), Return("kill", hh, "ok", 0)
      PROVE  IInv'
  BY <1>0, <1>2, ReturnType, FreeInv DEF Find
<1> QED
  BY <1>1, <1>2, FirstIn DEF op_kill

(* the requests that only look *)
LEMMA LookInv ==
  ASSUME IInv, \/ op_spawn_invalid \/ op_task_count
               \/ \E s \in 0 .. MAX : op_task_stat(s)
  PROVE  IInv'
<1> USE DEF IInv, TypeOK, imageVars, None
<1>1. CASE op_spawn_invalid
  BY <1>1, ReturnType, QuietInv DEF op_spawn_invalid, EINVAL
<1>2. CASE op_task_count
  BY <1>2, CountType, ReturnType, QuietInv DEF op_task_count
<1>3. ASSUME NEW s \in 0 .. MAX, op_task_stat(s) PROVE IInv'
  <2>1. CASE Return("stat", None, "error", ENOENT)
    BY <1>3, <2>1, ReturnType, QuietInv DEF op_task_stat, ENOENT
  <2>2. CASE s \in Slots /\ Return("stat", handle[s], "ok", IF state[s] = "RUNNING" THEN 1 ELSE 2)
    <3>1. handle[s] \in Nat /\ (IF state[s] = "RUNNING" THEN 1 ELSE 2) \in Int
      BY <2>2 DEF TableType
    <3> QED
      BY <1>3, <2>2, <3>1, ReturnType, QuietInv DEF op_task_stat
  <2> QED
    BY <1>3, <2>1, <2>2 DEF op_task_stat
<1> QED
  BY <1>1, <1>2, <1>3

(* an exec call ends with an error *)
LEMMA ExecErrorInv ==
  ASSUME IInv, pc \in {"loop", "exec_load"}, NEW i \in Images, NEW err \in Int,
         ExecError(i, err)
  PROVE  IInv'
BY ReturnType, QuietInv DEF ExecError, IInv, TypeOK, ImageType

(* op_exec: the check *)
LEMMA ExecInv == ASSUME IInv, NEW i \in Images, op_exec(i) PROVE IInv'
<1> USE DEF IInv, TypeOK
<1>0. pc = "loop"
  BY DEF op_exec
<1>1. CASE \E err \in {EINVAL, ENOENT} : ExecError(i, err)
  BY <1>0, <1>1, ExecErrorInv DEF EINVAL, ENOENT
<1>2. ASSUME NEW s \in Slots, s \in Find(label[i]), state[s] = "RUNNING",
             execing' = [execing EXCEPT ![i] = "served"],
             pc' = "exec_load", h' = label[i], caller' = i, execing[i] = "queued",
             UNCHANGED <<tableVars, nimages, alive, label, exiting, code, slot, img,
                         mode, result, reply, reaperVars>>
      PROVE  IInv'
  <2> USE <1>2 DEF tableVars, reaperVars
  <2>1. TableType' /\ ImageType' /\ ServerType' /\ ReaperType' /\ SlotInv' /\ HandlesUnique'
    BY <1>0 DEF TableType, ImageType, ServerType, ReaperType, SlotInv, HandlesUnique
  <2>2. ServerInv' /\ LoadingInFlight' /\ WaitedSlotStable'
    BY <1>0 DEF ServerInv, LoadingInFlight, WaitedSlotStable, Filling, Find, TableType
  <2>3. NoOrphan' /\ ReaperInv' /\ ExitRecorded'
    BY <1>0 DEF NoOrphan, ReaperInv, ExitRecorded
  <2>4. ImageInv'
    BY DEF ImageInv, ImageType
  <2> QED
    BY <2>1, <2>2, <2>3, <2>4
<1> QED
  BY <1>1, <1>2, FirstIn DEF op_exec

(* op_exec: loading *)
LEMMA ExecLoadInv == ASSUME IInv, op_exec_load PROVE IInv'
<1> USE DEF IInv, TypeOK
<1>1. CASE ExecError(caller, EIO)
  <2>1. caller \in Images /\ EIO \in Int
    BY DEF ServerInv, op_exec_load, EIO
  <2> QED
    BY <1>1, <2>1, ExecErrorInv DEF op_exec_load
<1>2. CASE /\ Launch(h) /\ pc' = "exec_swap"
           /\ UNCHANGED <<tableVars, slot, h, caller, mode, result, reply, reaperVars>>
  <2> USE <1>2 DEF tableVars, reaperVars
  <2>0. pc = "exec_load"
    BY DEF op_exec_load
  <2>1. h \in Nat /\ h # None /\ h < next_handle
    BY <2>0 DEF ServerInv, HandlesUnique, ServerType
  <2>2. /\ ImageType' /\ ImageInv' /\ ReaperInv' /\ ExitRecorded'
        /\ img' \in Images /\ label'[img'] = h /\ alive'[img'] = "alive"
        /\ \A s \in Slots : task[s] # img'
        /\ \A i \in Images : i # img' => alive'[i] = alive[i] /\ label'[i] = label[i]
    BY <2>0, <2>1, LaunchInv
  <2>3. TableType' /\ ServerType' /\ ReaperType' /\ SlotInv' /\ HandlesUnique'
    BY <2>2 DEF TableType, ServerType, ReaperType, SlotInv, HandlesUnique
  <2>4. ServerInv' /\ LoadingInFlight' /\ WaitedSlotStable'
    BY <2>0, <2>2 DEF ServerInv, LoadingInFlight, WaitedSlotStable, Filling
  <2>5. NoOrphan'
    BY <2>0, <2>2 DEF NoOrphan
  <2> QED
    BY <2>2, <2>3, <2>4, <2>5
<1> QED
  BY <1>1, <1>2 DEF op_exec_load

(* op_exec: the swap, or the new image is dropped *)
LEMMA SwapInv == ASSUME IInv, op_exec_swap PROVE IInv'
<1> USE DEF IInv, TypeOK, reaperVars
<1>0. /\ pc = "exec_swap" /\ img \in Images /\ label[img] = h /\ img # None
      /\ alive[img] \in {"alive", "dead"} /\ \A s \in Slots : task[s] # img
      /\ UNCHANGED <<state, handle, exit_code, next_handle, nimages, label, exiting,
                     code, execing, reaperVars>>
  BY NextImage DEF op_exec_swap, ServerInv
<1>1. pc' = "loop" /\ ServerType'
  BY ReturnType DEF op_exec_swap, ServerType
<1>2. ReaperType' /\ HandlesUnique' /\ ServerInv' /\ WaitedSlotStable' /\ LoadingInFlight'
  BY <1>0, <1>1
  DEF ReaperType, HandlesUnique, ServerInv, WaitedSlotStable, LoadingInFlight, Filling
<1>3. ASSUME NEW s \in Slots, s \in Find(h), state[s] = "RUNNING",
             task' = [task EXCEPT ![s] = img],
             alive' = [i \in Images |-> IF i = task[s] THEN "gone" ELSE alive[i]]
      PROVE  IInv'
  <2> USE <1>0, <1>3
  <2>1. TableType' /\ ImageType'
    BY DEF TableType, ImageType
  <2>2. SlotInv'
    BY DEF SlotInv, TableType
  <2>3. handle[s] = h /\ task[s] \in Images /\ \A t \in Slots : t # s => task[t] # task[s]
    BY DEF Find, SlotInv, HandlesUnique, ImageInv, TableType
  <2>4. ImageInv'
    <3>1. \A t \in Slots : task'[t] # None =>
            label[task'[t]] = handle[t] /\ alive'[task'[t]] \in {"alive", "dead"}
      BY <2>3 DEF ImageInv, TableType
    <3>2. task[s] <= nimages
      BY <2>3, NextImage DEF ImageInv, SlotInv, ImageType
    <3> QED
      BY <2>3, <3>1, <3>2 DEF ImageInv
  <2>5. NoOrphan'
    <3> SUFFICES ASSUME NEW i \in Images, alive'[i] \in {"alive", "dead"}
                 PROVE  \E t \in Slots : task'[t] = i /\ state[t] # "FREE" /\ handle[t] = label[i]
      BY DEF NoOrphan
    <3>1. i # task[s] /\ alive[i] \in {"alive", "dead"}
      OBVIOUS
    <3>2. CASE i = img
      BY <2>3, <3>2 DEF TableType
    <3>3. CASE i # img
      BY <3>1, <3>3 DEF NoOrphan, TableType
    <3> QED
      BY <3>2, <3>3
  <2>6. ReaperInv' /\ ExitRecorded'
    BY DEF ReaperInv, ExitRecorded, ReaperType
  <2> QED
    BY <1>1, <1>2, <2>1, <2>2, <2>4, <2>5, <2>6
<1>4. CASE DropImage(img) /\ UNCHANGED task
  <2> USE <1>0, <1>4 DEF DropImage
  <2>1. TableType' /\ ImageType' /\ SlotInv'
    BY DEF TableType, ImageType, SlotInv
  <2>2. ImageInv'
    <3>1. img <= nimages
      BY NextImage DEF ImageInv, ImageType
    <3> QED
      BY <3>1 DEF ImageInv, ImageType, TableType
  <2>3. NoOrphan'
    BY <1>1 DEF NoOrphan, ImageType
  <2>4. ReaperInv' /\ ExitRecorded'
    BY DEF ReaperInv, ExitRecorded, ImageType
  <2> QED
    BY <1>1, <1>2, <2>1, <2>2, <2>3, <2>4
<1> QED
  BY <1>3, <1>4, FirstIn DEF op_exec_swap

(* the reaper's steps that only move a message *)
LEMMA ReceiveInv ==
  ASSUME IInv, ReaperReceive \/ ReaperReply \/ ReaperTimeout
  PROVE  IInv'
<1> USE DEF IInv, TypeOK, tableVars, serverVars, localVars
<1>1. /\ UNCHANGED <<tableVars, nimages, alive, label, code, execing, serverVars>>
      /\ TableType' /\ ServerType' /\ SlotInv' /\ HandlesUnique' /\ ServerInv'
      /\ WaitedSlotStable' /\ LoadingInFlight' /\ NoOrphan'
  BY DEF ReaperReceive, ReaperReply, ReaperTimeout, imageVars, TableType, ServerType, SlotInv,
         HandlesUnique, ServerInv, WaitedSlotStable, LoadingInFlight, NoOrphan
<1>2. CASE ReaperReceive
  <2>1. PICK i \in Images : /\ exiting[i] = "sent" /\ exiting' = [exiting EXCEPT ![i] = "rcvd"]
                            /\ rimg' = i /\ rpc' = "got"
    BY <1>2 DEF ReaperReceive
  <2>2. ImageType' /\ ReaperType' /\ ReaperInv'
    BY <1>1, <2>1 DEF ImageType, ReaperType, ReaperInv
  <2>3. ImageInv' /\ ExitRecorded'
    BY <1>1, <2>1 DEF ImageInv, ExitRecorded, ImageType
  <2> QED
    BY <1>1, <2>2, <2>3
<1>3. CASE ReaperReply
  <2>1. /\ rpc = "reply" /\ exiting' = [exiting EXCEPT ![rimg] = "done"]
        /\ rpc' = "wait" /\ rimg' = None /\ rimg \in Images /\ exiting[rimg] = "rcvd"
    BY <1>3 DEF ReaperReply, ReaperInv
  <2>2. ImageType' /\ ReaperType' /\ ReaperInv'
    BY <1>1, <2>1 DEF ImageType, ReaperType, ReaperInv
  <2>3. ImageInv'
    BY <1>1, <2>1 DEF ImageInv, ImageType
  <2>4. ExitRecorded'
    BY <1>1, <2>1 DEF ExitRecorded, ImageType, ReaperInv
  <2> QED
    BY <1>1, <2>2, <2>3, <2>4
<1>4. CASE ReaperTimeout
  BY <1>1, <1>4
  DEF ReaperTimeout, imageVars, ImageType, ReaperType, ReaperInv, ImageInv, ExitRecorded
<1> QED
  BY <1>2, <1>3, <1>4

(* turning LOADING and RUNNING slots into EXITED ones preserves IInv *)
LEMMA ExitedInv ==
  ASSUME IInv, TableType', ReaperType', ReaperInv',
         UNCHANGED <<handle, task, next_handle, imageVars, serverVars>>,
         \A s \in Slots : \/ state'[s] = state[s] /\ exit_code'[s] = exit_code[s]
                          \/ state[s] \in {"LOADING", "RUNNING"} /\ state'[s] = "EXITED",
         pc = "load" => state'[slot] = "LOADING",
         pc = "load_failed" => state'[slot] = "LOADING"
  PROVE  IInv'
<1> USE DEF IInv, TypeOK, imageVars, serverVars, localVars
<1>1. ImageType' /\ ServerType' /\ ImageInv'
  BY DEF ImageType, ServerType, ImageInv
<1>2. SlotInv' /\ HandlesUnique' /\ LoadingInFlight'
  BY DEF SlotInv, HandlesUnique, LoadingInFlight, TableType
<1>3. WaitedSlotStable'
  BY DEF WaitedSlotStable, ServerType
<1>4. ServerInv'
  BY DEF ServerInv, ServerType, Filling
<1>5. NoOrphan'
  BY DEF NoOrphan
<1>6. ExitRecorded'
  BY DEF ExitRecorded
<1> QED
  BY <1>1, <1>2, <1>3, <1>4, <1>5, <1>6

(* the reaper marks a slot EXITED *)
LEMMA MarkInv == ASSUME IInv, ReaperMark PROVE IInv'
<1> USE DEF IInv, TypeOK
<1>0. /\ rpc = "got" /\ rpc' = "reply" /\ rimg \in Images /\ exiting[rimg] = "rcvd"
      /\ UNCHANGED <<handle, task, next_handle, imageVars, serverVars, rimg>>
  BY DEF ReaperMark, ReaperInv
<1>1. ReaperType'
  BY <1>0 DEF ReaperType
<1>2. ASSUME NEW s \in Slots, s \in Find(label[rimg]), state[s] # "EXITED",
             state' = [state EXCEPT ![s] = "EXITED"],
             exit_code' = [exit_code EXCEPT ![s] = code[rimg]]
      PROVE  IInv'
  <2>1. TableType'
    BY <1>0, <1>2 DEF TableType, ImageType
  <2>2. ReaperInv'
    BY <1>0, <1>2 DEF ReaperInv, Find, TableType, imageVars
  <2>3. \A t \in Slots : \/ state'[t] = state[t] /\ exit_code'[t] = exit_code[t]
                         \/ state[t] \in {"LOADING", "RUNNING"} /\ state'[t] = "EXITED"
    BY <1>2 DEF Find, TableType
  <2>4. pc \in {"load", "load_failed"} => s # slot
    BY <1>0, <1>2 DEF ServerInv, Find, Filling
  <2>5. pc \in {"load", "load_failed"} => state'[slot] = "LOADING"
    BY <1>2, <2>4 DEF ServerInv, TableType, ServerType
  <2> QED
    BY <1>0, <1>1, <2>1, <2>2, <2>3, <2>5, ExitedInv
<1>3. CASE /\ ~ \E s \in Slots : IsFirst(s, Find(label[rimg])) /\ AcceptsExit(s)
           /\ UNCHANGED <<state, exit_code>>
  <2>1. TableType'
    BY <1>0, <1>3 DEF TableType
  <2>2. ReaperInv'
    <3> SUFFICES ASSUME alive[rimg] # "gone"
                 PROVE  \E s \in Slots : handle[s] = label[rimg] /\ state[s] = "EXITED"
      BY <1>0, <1>3 DEF ReaperInv, imageVars
    <3>1. alive[rimg] \in {"alive", "dead"}
      BY <1>0, NextImage DEF ImageInv, ImageType
    <3>2. PICK s \in Slots : state[s] # "FREE" /\ handle[s] = label[rimg]
      BY <1>0, <3>1 DEF NoOrphan, ServerInv, HandlesUnique, Filling, ServerType
    <3>3. \A t \in Find(label[rimg]) : t = s
      BY <3>2 DEF Find, HandlesUnique
    <3>4. s \in Find(label[rimg]) /\ s <= s
      BY <3>2 DEF Find, Slots
    <3>5. IsFirst(s, Find(label[rimg]))
      BY <3>3, <3>4 DEF IsFirst
    <3> QED
      BY <1>3, <3>2, <3>5 DEF AcceptsExit
  <2>3. pc \in {"load", "load_failed"} => state'[slot] = "LOADING"
    BY <1>3 DEF ServerInv
  <2> QED
    BY <1>0, <1>1, <1>3, <2>1, <2>2, <2>3, ExitedInv
<1> QED
  BY <1>2, <1>3, FirstIn DEF ReaperMark, AcceptsExit

(* reap_once *)
LEMMA ReapInv == ASSUME IInv, reap_once PROVE IInv'
<1> USE DEF IInv, TypeOK
<1>1. TableType' /\ ReaperType' /\ ReaperInv'
  BY DEF reap_once, TableType, ReaperType, ReaperInv, ReapedState, imageVars
<1>2. \A t \in Slots : \/ state'[t] = state[t] /\ exit_code'[t] = exit_code[t]
                       \/ state[t] \in {"LOADING", "RUNNING"} /\ state'[t] = "EXITED"
  BY DEF reap_once, Crashed, ReapedState
<1>3. pc \in {"load", "load_failed"} => state'[slot] = "LOADING"
  BY DEF reap_once, Crashed, ServerInv, ServerType
<1> QED
  BY <1>1, <1>2, <1>3, ExitedInv DEF reap_once

(* the children *)
LEMMA ChildInv ==
  ASSUME IInv, NEW i \in Images,
         (\E c \in ExitCodes : ChildExit(i, c)) \/ ChildCrash(i) \/ ChildExec(i)
  PROVE  IInv'
<1> USE DEF IInv, TypeOK, tableVars, serverVars, localVars, reaperVars
<1>1. /\ alive[i] = "alive" /\ UNCHANGED <<tableVars, nimages, label, serverVars, reaperVars>>
      /\ \/ alive' = alive
         \/ alive' = [alive EXCEPT ![i] = "dead"]
      /\ \/ exiting' = exiting
         \/ exiting' = [exiting EXCEPT ![i] = "sent"] /\ exiting[i] = "no"
      /\ \/ code' = code
         \/ \E c \in ExitCodes : code' = [code EXCEPT ![i] = c]
      /\ \/ execing' = execing
         \/ execing' = [execing EXCEPT ![i] = "queued"]
  <2>1. CASE \E c \in ExitCodes : ChildExit(i, c)
    <3>1. PICK c \in ExitCodes : ChildExit(i, c)
      BY <2>1
    <3>2. /\ alive[i] = "alive" /\ exiting[i] = "no"
          /\ exiting' = [exiting EXCEPT ![i] = "sent"]
          /\ code' = [code EXCEPT ![i] = c]
          /\ UNCHANGED <<tableVars, nimages, alive, label, execing, serverVars, reaperVars>>
      BY <3>1, Zenon DEF ChildExit
    <3> QED
      BY <3>2, Zenon
  <2>2. CASE ChildCrash(i)
    BY <2>2, Zenon DEF ChildCrash
  <2>3. CASE ChildExec(i)
    BY <2>3, Zenon DEF ChildExec
  <2> QED
    BY <2>1, <2>2, <2>3
<1>2. TableType' /\ ServerType' /\ ReaperType' /\ SlotInv' /\ HandlesUnique'
      /\ WaitedSlotStable' /\ LoadingInFlight'
  BY <1>1 DEF TableType, ServerType, ReaperType, SlotInv, HandlesUnique,
              WaitedSlotStable, LoadingInFlight
<1>3. ImageType'
  BY <1>1, SpawndAssumption DEF ImageType
<1>4. \A j \in Images : /\ alive'[j] \in {"alive", "dead"} <=> alive[j] \in {"alive", "dead"}
                        /\ alive'[j] = "gone" <=> alive[j] = "gone"
                        /\ alive'[j] = "none" <=> alive[j] = "none"
                        /\ exiting'[j] = "done" <=> exiting[j] = "done"
                        /\ exiting[j] = "rcvd" => exiting'[j] = "rcvd"
  BY <1>1 DEF ImageType
<1>5. i <= nimages
  BY <1>1, NextImage DEF ImageInv, ImageType
<1>6. ImageInv'
  <2>1. \A j \in Images : j > nimages =>
          alive'[j] = "none" /\ label[j] = None /\ exiting'[j] = "no" /\ execing'[j] = "no"
    BY <1>1, <1>5, NextImage DEF ImageInv, ImageType
  <2>2. \A s \in Slots : task[s] # None =>
          label[task[s]] = handle[s] /\ alive'[task[s]] \in {"alive", "dead"}
    BY <1>4 DEF ImageInv, TableType
  <2> QED
    BY <1>1, <1>4, <2>1, <2>2 DEF ImageInv
<1>7. ServerInv' /\ NoOrphan'
  BY <1>1, <1>4 DEF ServerInv, NoOrphan
<1>8. ReaperInv' /\ ExitRecorded'
  BY <1>1, <1>4 DEF ReaperInv, ExitRecorded
<1> QED
  BY <1>2, <1>3, <1>6, <1>7, <1>8

-----------------------------------------------------------------------------
(* Every step preserves the inductive invariant. *)
LEMMA NextInv == IInv /\ [Next]_vars => IInv'
<1> SUFFICES ASSUME IInv, [Next]_vars PROVE IInv'
  OBVIOUS
<1>1. CASE Request
  <2>1. \A hh \in 0 .. MaxSpawns : hh \in Nat
    BY SpawndAssumption
  <2> QED
    BY <1>1, <2>1, LookInv, SpawnInv, OpWaitInv, KillInv DEF Request
<1>2. CASE ExecRequest
  BY <1>2, ExecInv DEF ExecRequest
<1>3. CASE ServerStep
  BY <1>3, LoadInv, FailedInv, InstallInv, WaitDoneInv, WaitFreeInv, ExecLoadInv, SwapInv
  DEF ServerStep
<1>4. CASE ReaperStep
  BY <1>4, ReceiveInv, MarkInv, ReapInv DEF ReaperStep
<1>5. CASE ChildStep
  BY <1>5, ChildInv DEF ChildStep
<1>6. CASE UNCHANGED vars
  BY <1>6 DEF vars, tableVars, imageVars, serverVars, localVars, reaperVars, IInv, TypeOK,
     TableType, ImageType, ServerType, ReaperType, SlotInv, HandlesUnique, ImageInv, ServerInv,
     ReaperInv, LoadingInFlight, WaitedSlotStable, NoOrphan, ExitRecorded
<1> QED
  BY <1>1, <1>2, <1>3, <1>4, <1>5, <1>6 DEF Next

(* IInv holds in every reachable state of spawnd, whatever the sizes. *)
THEOREM Invariance == Spec => []IInv
BY InitInv, NextInv, PTL DEF Spec

(* Spawnd is type-correct. *)
THEOREM TypeCorrect == Spec => []TypeOK
<1>1. IInv => TypeOK
  BY DEF IInv
<1> QED
  BY <1>1, Invariance, PTL


(* Handles stay unique: find() can only return the child that was meant. *)
THEOREM UniqueHandles == Spec => []HandlesUnique
<1>1. IInv => HandlesUnique
  BY DEF IInv
<1> QED
  BY <1>1, Invariance, PTL

(* The slot pointer that do_wait keeps across unlock and sleep stays good.   *)
THEOREM StableWait == Spec => []WaitedSlotStable
<1>1. IInv => WaitedSlotStable
  BY DEF IInv
<1> QED
  BY <1>1, Invariance, PTL

(* No path of spawn, exec, wait or kill loses a task. *)
THEOREM NoTaskLost == Spec => []NoOrphan
<1>1. IInv => NoOrphan
  BY DEF IInv
<1> QED
  BY <1>1, Invariance, PTL

(* No failed load leaves its slot taken. *)
THEOREM NoSlotLeak == Spec => []LoadingInFlight
<1>1. IInv => LoadingInFlight
  BY DEF IInv
<1> QED
  BY <1>1, Invariance, PTL

(* An exit the reaper has answered is never lost, even by the child that     *)
(* exits before do_spawn or op_exec has installed it.                       *)
THEOREM NoExitLost == Spec => []ExitRecorded
<1>1. IInv => ExitRecorded
  BY DEF IInv
<1> QED
  BY <1>1, Invariance, PTL

-----------------------------------------------------------------------------
(* spawnd implements Lifecycle *)

(* The handles that Lifecycle knows are the ones the bound lets alloc give   *)
(* out.                                                                     *)
HandleBound == next_handle <= MaxSpawns + 1

(* Lifecycle's code under the refinement mapping, and who holds a handle. *)
codeOf(hh)  == IF lifeOf(hh) = "exited" THEN exit_code[Holder(hh)] ELSE 0
Has(s, hh)  == state[s] # "FREE" /\ handle[s] = hh
Answer      == IF reply.kind = "code" THEN <<reply.h, reply.val>> ELSE <<>>

(* What the table says of a handle, without the choice of a slot. *)
LifeByTable ==
  HandlesUnique =>
    \A hh \in 1 .. MaxSpawns :
      /\ \A s \in Slots : Has(s, hh) =>
           /\ lifeOf(hh) = IF state[s] = "EXITED" THEN "exited" ELSE "live"
           /\ codeOf(hh) = IF state[s] = "EXITED" THEN exit_code[s] ELSE 0
      /\ (\A s \in Slots : ~Has(s, hh)) =>
           lifeOf(hh) = (IF hh < next_handle THEN "over" ELSE "unborn") /\ codeOf(hh) = 0

(* The choice in Holder finds the one slot that the table has for a handle. *)
LEMMA LifeByTableHolds == LifeByTable
<1> SUFFICES ASSUME HandlesUnique, NEW hh \in 1 .. MaxSpawns
             PROVE  /\ \A s \in Slots : Has(s, hh) =>
                         /\ lifeOf(hh) = IF state[s] = "EXITED" THEN "exited" ELSE "live"
                         /\ codeOf(hh) = IF state[s] = "EXITED" THEN exit_code[s] ELSE 0
                    /\ (\A s \in Slots : ~Has(s, hh)) =>
                         lifeOf(hh) = (IF hh < next_handle THEN "over" ELSE "unborn") /\ codeOf(hh) = 0
  BY DEF LifeByTable
<1>1. ASSUME NEW s \in Slots, Has(s, hh)
      PROVE  /\ lifeOf(hh) = IF state[s] = "EXITED" THEN "exited" ELSE "live"
             /\ codeOf(hh) = IF state[s] = "EXITED" THEN exit_code[s] ELSE 0
  <2>1. s \in Find(hh) /\ \A t \in Find(hh) : t = s
    BY <1>1 DEF Has, Find, HandlesUnique
  <2>2. Holder(hh) = s
    BY <2>1, Zenon DEF Holder
  <2>3. lifeOf(hh) = IF state[s] = "EXITED" THEN "exited" ELSE "live"
    BY <2>1, <2>2 DEF lifeOf
  <2> QED
    BY <2>2, <2>3 DEF codeOf
<1>2. ASSUME \A s \in Slots : ~Has(s, hh)
      PROVE  lifeOf(hh) = (IF hh < next_handle THEN "over" ELSE "unborn") /\ codeOf(hh) = 0
  <2>1. Find(hh) = {}
    BY <1>2 DEF Has, Find
  <2>2. lifeOf(hh) = IF hh < next_handle THEN "over" ELSE "unborn"
    BY <2>1 DEF lifeOf
  <2> QED
    BY <2>2 DEF codeOf
<1> QED
  BY <1>1, <1>2

(* The same of the state after a step. *)
LEMMA LifeByTableNext == LifeByTable'
BY LifeByTableHolds, PTL

(* A handle whose slot is not touched, or only goes from LOADING to RUNNING,  *)
(* stays what it is.                                                         *)
LEMMA SameLife ==
  ASSUME HandlesUnique, HandlesUnique', NEW hh \in 1 .. MaxSpawns,
         \A s \in Slots : Has(s, hh)' <=> Has(s, hh),
         \A s \in Slots : Has(s, hh) => (state'[s] = "EXITED" <=> state[s] = "EXITED"),
         \A s \in Slots : Has(s, hh) /\ state[s] = "EXITED" => exit_code'[s] = exit_code[s],
         (hh < next_handle') <=> (hh < next_handle)
  PROVE  lifeOf(hh)' = lifeOf(hh) /\ codeOf(hh)' = codeOf(hh)
<1>1. CASE \E s \in Slots : Has(s, hh)
  <2>1. PICK s \in Slots : Has(s, hh)
    BY <1>1
  <2>2. /\ lifeOf(hh) = IF state[s] = "EXITED" THEN "exited" ELSE "live"
        /\ codeOf(hh) = IF state[s] = "EXITED" THEN exit_code[s] ELSE 0
    BY <2>1, LifeByTableHolds DEF LifeByTable
  <2>3. /\ lifeOf(hh)' = IF state'[s] = "EXITED" THEN "exited" ELSE "live"
        /\ codeOf(hh)' = IF state'[s] = "EXITED" THEN exit_code'[s] ELSE 0
    BY <2>1, LifeByTableNext DEF LifeByTable
  <2> QED
    BY <2>1, <2>2, <2>3
<1>2. CASE \A s \in Slots : ~Has(s, hh)
  <2>1. lifeOf(hh) = (IF hh < next_handle THEN "over" ELSE "unborn") /\ codeOf(hh) = 0
    BY <1>2, LifeByTableHolds DEF LifeByTable
  <2>2. lifeOf(hh)' = (IF hh < next_handle' THEN "over" ELSE "unborn") /\ codeOf(hh)' = 0
    BY <1>2, LifeByTableNext DEF LifeByTable
  <2> QED
    BY <2>1, <2>2
<1> QED
  BY <1>1, <1>2

(* Lifecycle's variables under the refinement mapping. *)
Life == [hh \in 1 .. MaxSpawns |-> lifeOf(hh)]
Code == [hh \in 1 .. MaxSpawns |-> codeOf(hh)]

(* Lifecycle's steps over the mapped variables. *)
MappedSpawn(hh) ==
  /\ Life[hh] = "unborn" /\ Life' = [Life EXCEPT ![hh] = "live"]
  /\ Code' = Code /\ Answer' = Answer
MappedExit ==
  /\ \E S \in SUBSET (1 .. MaxSpawns) :
       /\ \A hh \in S : Life[hh] = "live"
       /\ Life' = [hh \in 1 .. MaxSpawns |-> IF hh \in S THEN "exited" ELSE Life[hh]]
       /\ \A hh \in (1 .. MaxSpawns) \ S : Code'[hh] = Code[hh]
  /\ DOMAIN Code' = 1 .. MaxSpawns /\ Answer' = Answer
MappedCollect(hh) ==
  /\ Life[hh] = "exited" /\ Life' = [Life EXCEPT ![hh] = "over"]
  /\ Answer' = <<hh, Code[hh]>> /\ Code' = [Code EXCEPT ![hh] = 0]
MappedDiscard(hh) ==
  /\ Life[hh] \in {"live", "exited"} /\ Life' = [Life EXCEPT ![hh] = "over"]
  /\ Answer' = <<>> /\ Code' = [Code EXCEPT ![hh] = 0]
MappedReply == Answer' = <<>> /\ Life' = Life /\ Code' = Code
MappedStep ==
  \/ \E hh \in 1 .. MaxSpawns : MappedSpawn(hh) \/ MappedCollect(hh) \/ MappedDiscard(hh)
  \/ MappedExit \/ MappedReply
  \/ Life' = Life /\ Code' = Code /\ Answer' = Answer

(* alloc: the handle was unborn and is live. *)
LEMMA AllocLife ==
  ASSUME IInv, IInv', NEW s \in Slots, state[s] = "FREE", Alloc(s),
         next_handle <= MaxSpawns, reply' = reply
  PROVE  \E hh \in 1 .. MaxSpawns : MappedSpawn(hh)
<1>0. PICK n \in 1 .. MaxSpawns : n = next_handle
  BY SpawndAssumption DEF IInv, TypeOK, TableType
<1>1. n \in Nat
  BY SpawndAssumption
<1>2. /\ n = next_handle /\ next_handle' = n + 1 /\ state' = [state EXCEPT ![s] = "LOADING"]
      /\ handle' = [handle EXCEPT ![s] = n] /\ exit_code' = [exit_code EXCEPT ![s] = 0]
  BY <1>0 DEF Alloc, NewHandle, NextHandle
<1>3. HandlesUnique /\ HandlesUnique' /\ TableType
  BY DEF IInv, TypeOK
<1>4. lifeOf(n) = "unborn" /\ codeOf(n) = 0
  <2>1. \A t \in Slots : ~Has(t, n)
    BY <1>0, <1>3 DEF Has, HandlesUnique, TableType
  <2> QED
    BY <1>0, <1>1, <1>3, <2>1, LifeByTableHolds DEF LifeByTable
<1>5. lifeOf(n)' = "live" /\ codeOf(n)' = 0
  <2>1. Has(s, n)' /\ state'[s] # "EXITED"
    BY <1>1, <1>2, <1>3 DEF TableType, Has, None
  <2> QED
    BY <1>3, <2>1, LifeByTableNext DEF LifeByTable
<1>6. ASSUME NEW hh \in 1 .. MaxSpawns, hh # n
      PROVE  lifeOf(hh)' = lifeOf(hh) /\ codeOf(hh)' = codeOf(hh)
  <2>1. \A t \in Slots : Has(t, hh)' <=> Has(t, hh)
    BY <1>2, <1>3, <1>6 DEF Has, TableType
  <2>2. \A t \in Slots : Has(t, hh) => t # s
    BY DEF Has
  <2>3. (hh < next_handle') <=> (hh < next_handle)
    BY <1>1, <1>2, <1>6
  <2> QED
    BY <1>2, <1>3, <2>1, <2>2, <2>3, SameLife DEF TableType
<1> QED
  BY <1>1, <1>4, <1>5, <1>6 DEF MappedSpawn, Life, Code, Answer

(* free: the handle is over, and was exited if the slot was EXITED. *)
LEMMA FreeLife ==
  ASSUME IInv, IInv', HandleBound, NEW s \in Slots, state[s] # "FREE", Free(s)
  PROVE  /\ handle[s] \in 1 .. MaxSpawns /\ Life[handle[s]] \in {"live", "exited"}
         /\ Life' = [Life EXCEPT ![handle[s]] = "over"]
         /\ Code' = [Code EXCEPT ![handle[s]] = 0]
         /\ state[s] = "EXITED" => Life[handle[s]] = "exited" /\ Code[handle[s]] = exit_code[s]
<1>1. HandlesUnique /\ HandlesUnique' /\ TableType
  BY DEF IInv, TypeOK
<1>0. PICK n \in 1 .. MaxSpawns : n = handle[s]
  <2>1. handle[s] \in Nat /\ handle[s] # 0 /\ handle[s] < next_handle /\ next_handle \in Nat
    BY <1>1 DEF HandlesUnique, TableType, None
  <2> QED
    BY <2>1, SpawndAssumption DEF HandleBound
<1>2. /\ n = handle[s] /\ next_handle' = next_handle /\ exit_code' = exit_code
      /\ state' = [state EXCEPT ![s] = "FREE"] /\ handle' = [handle EXCEPT ![s] = None]
  BY <1>0 DEF Free
<1>3. Has(s, n) /\ n < next_handle
  BY <1>1, <1>2 DEF Has, HandlesUnique
<1>4. /\ lifeOf(n) = IF state[s] = "EXITED" THEN "exited" ELSE "live"
      /\ codeOf(n) = IF state[s] = "EXITED" THEN exit_code[s] ELSE 0
  BY <1>1, <1>3, LifeByTableHolds DEF LifeByTable
<1>5. lifeOf(n)' = "over" /\ codeOf(n)' = 0
  <2>1. \A t \in Slots : ~Has(t, n)'
    BY <1>1, <1>2 DEF Has, HandlesUnique, TableType
  <2> QED
    BY <1>1, <1>2, <1>3, <2>1, LifeByTableNext DEF LifeByTable
<1>6. ASSUME NEW hh \in 1 .. MaxSpawns, hh # n
      PROVE  lifeOf(hh)' = lifeOf(hh) /\ codeOf(hh)' = codeOf(hh)
  <2>1. \A t \in Slots : Has(t, hh) => t # s
    BY <1>2, <1>6 DEF Has
  <2>2. \A t \in Slots : Has(t, hh)' <=> Has(t, hh)
    BY <1>1, <1>2, <1>6 DEF Has, TableType
  <2>3. \A t \in Slots : Has(t, hh) => state'[t] = state[t]
    BY <1>1, <1>2, <2>1 DEF TableType
  <2> QED
    BY <1>1, <1>2, <2>2, <2>3, SameLife
<1>7. Life' = [Life EXCEPT ![n] = "over"] /\ Code' = [Code EXCEPT ![n] = 0]
  BY <1>5, <1>6 DEF Life, Code
<1>8. Life[n] = lifeOf(n) /\ Code[n] = codeOf(n)
  BY DEF Life, Code
<1> QED
  BY <1>2, <1>4, <1>7, <1>8

(* The reaper: some live handles have exited. *)
LEMMA ExitLife ==
  ASSUME IInv, IInv', HandleBound, next_handle' = next_handle, handle' = handle, reply' = reply,
         \A s \in Slots : \/ state'[s] = state[s] /\ exit_code'[s] = exit_code[s]
                          \/ state[s] \in {"LOADING", "RUNNING"} /\ state'[s] = "EXITED"
  PROVE  MappedExit
<1> DEFINE S == {hh \in 1 .. MaxSpawns :
                   \E s \in Slots : Has(s, hh) /\ state[s] # "EXITED" /\ state'[s] = "EXITED"}
<1>1. HandlesUnique /\ HandlesUnique' /\ TableType
  BY DEF IInv, TypeOK
<1>2. \A s \in Slots, hh \in 1 .. MaxSpawns : Has(s, hh)' <=> Has(s, hh)
  BY <1>1 DEF Has, TableType
<1>3. ASSUME NEW hh \in S
      PROVE  lifeOf(hh) = "live" /\ lifeOf(hh)' = "exited"
  <2>1. PICK s \in Slots : Has(s, hh) /\ state[s] # "EXITED" /\ state'[s] = "EXITED"
    BY <1>3
  <2>2. Has(s, hh)' /\ hh \in 1 .. MaxSpawns
    BY <1>2, <2>1
  <2>3. lifeOf(hh) = "live"
    BY <1>1, <2>1, <2>2, LifeByTableHolds DEF LifeByTable
  <2>4. lifeOf(hh)' = "exited"
    BY <1>1, <2>1, <2>2, LifeByTableNext DEF LifeByTable
  <2> QED
    BY <2>3, <2>4
<1>4. ASSUME NEW hh \in 1 .. MaxSpawns, hh \notin S
      PROVE  lifeOf(hh)' = lifeOf(hh) /\ codeOf(hh)' = codeOf(hh)
  <2>1. \A s \in Slots : Has(s, hh) =>
           /\ state'[s] = "EXITED" <=> state[s] = "EXITED"
           /\ state[s] = "EXITED" => exit_code'[s] = exit_code[s]
    BY <1>4
  <2> QED
    BY <1>1, <1>2, <2>1, SameLife
<1> HIDE DEF S
<1>5. S \in SUBSET (1 .. MaxSpawns)
  BY DEF S
<1>6. Life' = [hh \in 1 .. MaxSpawns |-> IF hh \in S THEN "exited" ELSE Life[hh]]
  BY <1>3, <1>4, <1>5 DEF Life
<1>7. \A hh \in S : Life[hh] = "live"
  BY <1>3, <1>5 DEF Life
<1>8. \A hh \in (1 .. MaxSpawns) \ S : Code'[hh] = Code[hh]
  BY <1>4 DEF Code
<1>9. DOMAIN Code' = 1 .. MaxSpawns /\ Answer' = Answer
  BY DEF Code, Answer
<1> QED
  BY <1>5, <1>6, <1>7, <1>8, <1>9 DEF MappedExit

(* A step that leaves the table as it is, but for LOADING becoming RUNNING,    *)
(* changes no handle.                                                        *)
LEMMA QuietLife ==
  ASSUME IInv, IInv', UNCHANGED <<handle, exit_code, next_handle>>,
         \A s \in Slots : state'[s] = state[s] \/ (state[s] = "LOADING" /\ state'[s] = "RUNNING")
  PROVE  Life' = Life /\ Code' = Code
<1>1. HandlesUnique /\ HandlesUnique' /\ TableType
  BY DEF IInv, TypeOK
<1>2. ASSUME NEW hh \in 1 .. MaxSpawns
      PROVE  lifeOf(hh)' = lifeOf(hh) /\ codeOf(hh)' = codeOf(hh)
  <2>1. \A s \in Slots : Has(s, hh)' <=> Has(s, hh)
    BY <1>1 DEF Has, TableType
  <2>2. \A s \in Slots : state'[s] = "EXITED" <=> state[s] = "EXITED"
    OBVIOUS
  <2> QED
    BY <1>1, <2>1, <2>2, SameLife
<1> QED
  BY <1>2 DEF Life, Code

(* A reply that is no exit code tells nobody anything. *)
LEMMA ReturnAnswer ==
  ASSUME NEW op, NEW hh, NEW kind, NEW val, Return(op, hh, kind, val)
  PROVE  Answer' = IF kind = "code" THEN <<hh, val>> ELSE <<>>
BY DEF Return, Answer

(* Steps that change nothing a client can learn, and replies without a code. *)
LEMMA SilentStep ==
  ASSUME IInv, IInv', UNCHANGED <<state, handle, exit_code, next_handle, reply>>
  PROVE  MappedStep
BY QuietLife DEF MappedStep, Answer

(* A reply other than an exit code, with the table left alone. *)
LEMMA ReplyStep ==
  ASSUME IInv, IInv', UNCHANGED <<state, handle, exit_code, next_handle>>,
         NEW op, NEW hh, NEW kind, NEW val, kind # "code", Return(op, hh, kind, val)
  PROVE  MappedStep
BY QuietLife, ReturnAnswer DEF MappedStep, MappedReply

(* A slot is freed and its child was collected or discarded. *)
LEMMA FreeStep ==
  ASSUME IInv, IInv', HandleBound, NEW s \in Slots, state[s] # "FREE", Free(s),
         NEW op, NEW kind, NEW hh, NEW val, Return(op, hh, kind, val),
         kind = "code" => hh = handle[s] /\ state[s] = "EXITED" /\ val = exit_code[s]
  PROVE  MappedStep
<1>1. /\ handle[s] \in 1 .. MaxSpawns /\ Life[handle[s]] \in {"live", "exited"}
      /\ Life' = [Life EXCEPT ![handle[s]] = "over"]
      /\ Code' = [Code EXCEPT ![handle[s]] = 0]
      /\ state[s] = "EXITED" => Life[handle[s]] = "exited" /\ Code[handle[s]] = exit_code[s]
  BY FreeLife
<1>2. Answer' = IF kind = "code" THEN <<hh, val>> ELSE <<>>
  BY ReturnAnswer
<1>3. CASE kind = "code"
  <2>1. MappedCollect(handle[s])
    BY <1>1, <1>2, <1>3 DEF MappedCollect
  <2> QED
    BY <1>1, <2>1 DEF MappedStep
<1>4. CASE kind # "code"
  <2>1. MappedDiscard(handle[s])
    BY <1>1, <1>2, <1>4 DEF MappedDiscard
  <2> QED
    BY <1>1, <2>1 DEF MappedStep
<1> QED
  BY <1>3, <1>4

(* Every request is a step of Lifecycle. *)
LEMMA RequestMaps ==
  ASSUME IInv, IInv', HandleBound, Request
  PROVE  MappedStep
<1> USE DEF tableVars
<1>1. CASE op_spawn_invalid \/ op_task_count \/ \E s \in 0 .. MAX : op_task_stat(s)
  BY <1>1, ReplyStep DEF op_spawn_invalid, op_task_count, op_task_stat
<1>2. ASSUME NEW flags, op_spawn(flags)
      PROVE  MappedStep
  <2>1. CASE Return("spawn", None, "error", ENOMEM) /\ UNCHANGED tableVars
    BY <2>1, ReplyStep
  <2>2. ASSUME NEW s \in Slots, IsFirst(s, FreeSlots), next_handle <= MaxSpawns, Alloc(s),
               reply' = reply
        PROVE  MappedStep
    <3>1. state[s] = "FREE"
      BY <2>2, FirstIn DEF FreeSlots
    <3> QED
      BY <2>2, <3>1, AllocLife DEF MappedStep
  <2> QED
    BY <1>2, <2>1, <2>2 DEF op_spawn
<1>3. ASSUME NEW hh, NEW nohang, op_wait(hh, nohang)
      PROVE  MappedStep
  <2>1. CASE UNCHANGED <<tableVars, alive>> /\ \E e : Return("wait", hh, "error", e)
    BY <2>1, ReplyStep
  <2>2. CASE UNCHANGED <<tableVars, alive, reply>>
    BY <2>2, SilentStep
  <2>3. ASSUME NEW s \in Slots, IsFirst(s, Find(hh)), state[s] = "EXITED", Free(s),
               Return("wait", hh, "code", exit_code[s])
        PROVE  MappedStep
    <3>1. handle[s] = hh /\ state[s] # "FREE"
      BY <2>3, FirstIn DEF Find
    <3> QED
      BY <2>3, <3>1, FreeStep
  <2> QED
    BY <1>3, <2>1, <2>2, <2>3 DEF op_wait
<1>4. ASSUME NEW hh, op_kill(hh)
      PROVE  MappedStep
  <2>1. CASE UNCHANGED <<tableVars, alive>> /\ Return("kill", hh, "error", ENOENT)
    BY <2>1, ReplyStep
  <2>2. ASSUME NEW s \in Slots, IsFirst(s, Find(hh)), Free(s), Return("kill", hh, "ok", 0)
        PROVE  MappedStep
    <3>1. state[s] # "FREE"
      BY <2>2, FirstIn DEF Find
    <3> QED
      BY <2>2, <3>1, FreeStep
  <2> QED
    BY <1>4, <2>1, <2>2 DEF op_kill
<1> QED
  BY <1>1, <1>2, <1>3, <1>4 DEF Request

(* So is every step of a handler, exec included. *)
LEMMA ServerMaps ==
  ASSUME IInv, IInv', HandleBound, ServerStep \/ ExecRequest
  PROVE  MappedStep
<1> USE DEF tableVars
<1>1. CASE do_spawn_load \/ do_wait_done
  BY <1>1, SilentStep DEF do_spawn_load, do_wait_done
<1>2. CASE do_spawn_failed
  <2>1. PICK s \in Slots : s \in Find(h) /\ Free(s)
    BY <1>2, FirstIn DEF do_spawn_failed
  <2>2. state[s] # "FREE" /\ Return("spawn", None, "error", ENOMEM)
    BY <1>2, <2>1 DEF Find, do_spawn_failed
  <2> QED
    BY <2>1, <2>2, FreeStep
<1>3. CASE do_spawn_install
  <2>1. UNCHANGED <<handle, exit_code, next_handle>> /\
        (reply' = reply \/ Return("spawn", h, "handle", h))
    BY <1>3 DEF do_spawn_install
  <2>2. \A s \in Slots : state'[s] = state[s] \/ (state[s] = "LOADING" /\ state'[s] = "RUNNING")
    BY <1>3 DEF do_spawn_install, InstalledState, IInv, TypeOK, TableType
  <2>3. Life' = Life /\ Code' = Code
    BY <2>1, <2>2, QuietLife
  <2>4. Answer' = Answer \/ Answer' = <<>>
    <3>1. reply' = reply => Answer' = Answer
      BY DEF Answer
    <3>2. Return("spawn", h, "handle", h) => Answer' = <<>>
      BY ReturnAnswer
    <3> QED
      BY <2>1, <3>1, <3>2
  <2> QED
    BY <2>3, <2>4 DEF MappedStep, MappedReply
<1>4. CASE do_wait_free
  <2>1. PICK s \in Slots : s \in Find(h) /\ Free(s)
    BY <1>4, FirstIn DEF do_wait_free
  <2>2. /\ s = slot /\ state[s] = "EXITED" /\ exit_code[s] = result /\ handle[s] = h
        /\ Return(IF mode = "SPAWN_WAIT" THEN "spawn" ELSE "wait", h, "code", result)
    BY <1>4, <2>1 DEF Find, do_wait_free, IInv, TypeOK, ServerType, WaitedSlotStable, HandlesUnique
  <2> QED
    BY <2>1, <2>2, FreeStep
<1>5. CASE op_exec_load
  BY <1>5, SilentStep, ReplyStep DEF op_exec_load, ExecError
<1>6. CASE op_exec_swap
  BY <1>6, ReplyStep DEF op_exec_swap
<1>7. ASSUME NEW i \in Images, op_exec(i)
      PROVE  MappedStep
  BY <1>7, SilentStep, ReplyStep DEF op_exec, ExecError
<1> QED
  BY <1>1, <1>2, <1>3, <1>4, <1>5, <1>6, <1>7 DEF ServerStep, ExecRequest

(* And every step of the reaper and of the children. *)
LEMMA OthersMap ==
  ASSUME IInv, IInv', HandleBound, ReaperStep \/ ChildStep
  PROVE  MappedStep
<1> USE DEF tableVars, serverVars
<1>1. CASE ReaperReceive \/ ReaperReply \/ ReaperTimeout
  BY <1>1, SilentStep DEF ReaperReceive, ReaperReply, ReaperTimeout
<1>2. CASE ReaperMark
  <2>1. UNCHANGED <<handle, next_handle, reply>>
    BY <1>2 DEF ReaperMark
  <2>2. \A s \in Slots : \/ state'[s] = state[s] /\ exit_code'[s] = exit_code[s]
                         \/ state[s] \in {"LOADING", "RUNNING"} /\ state'[s] = "EXITED"
    <3>1. ASSUME NEW t \in Slots, t \in Find(label[rimg]), state[t] # "EXITED",
                 state' = [state EXCEPT ![t] = "EXITED"],
                 exit_code' = [exit_code EXCEPT ![t] = code[rimg]]
          PROVE  \A s \in Slots : \/ state'[s] = state[s] /\ exit_code'[s] = exit_code[s]
                                  \/ state[s] \in {"LOADING", "RUNNING"} /\ state'[s] = "EXITED"
      BY <3>1 DEF Find, IInv, TypeOK, TableType
    <3> QED
      BY <1>2, <3>1, FirstIn DEF ReaperMark, AcceptsExit
  <2> QED
    BY <2>1, <2>2, ExitLife DEF MappedStep
<1>3. CASE reap_once
  <2>1. UNCHANGED <<handle, next_handle, reply>>
    BY <1>3 DEF reap_once
  <2>2. \A s \in Slots : \/ state'[s] = state[s] /\ exit_code'[s] = exit_code[s]
                         \/ state[s] \in {"LOADING", "RUNNING"} /\ state'[s] = "EXITED"
    BY <1>3 DEF reap_once, Crashed, ReapedState
  <2> QED
    BY <2>1, <2>2, ExitLife DEF MappedStep
<1>4. CASE ChildStep
  <2>1. UNCHANGED <<tableVars, serverVars>>
    <3>1. ASSUME NEW i \in Images,
                 (\E c \in ExitCodes : ChildExit(i, c)) \/ ChildCrash(i) \/ ChildExec(i)
          PROVE  UNCHANGED <<tableVars, serverVars>>
      BY <3>1, Zenon DEF ChildExit, ChildCrash, ChildExec
    <3> QED
      BY <1>4, <3>1, Zenon DEF ChildStep
  <2> QED
    BY <2>1, SilentStep
<1> QED
  BY <1>1, <1>2, <1>3, <1>4 DEF ReaperStep

(* The bound on handles is kept. *)
LEMMA BoundNext == IInv /\ HandleBound /\ [Next]_vars => HandleBound'
<1> SUFFICES ASSUME IInv, HandleBound, [Next]_vars PROVE HandleBound'
  OBVIOUS
<1> USE DEF tableVars
<1>1. next_handle' = next_handle \/ (next_handle <= MaxSpawns /\ next_handle' = next_handle + 1)
  <2>1. CASE Request
    BY <2>1, Zenon DEF Request, op_spawn_invalid, op_spawn, op_wait, op_kill, op_task_count,
       op_task_stat, Alloc, NextHandle, Free
  <2>2. CASE ServerStep \/ ExecRequest
    BY <2>2, Zenon DEF ServerStep, do_spawn_load, do_spawn_failed, do_spawn_install, do_wait_done,
       do_wait_free, op_exec_load, op_exec_swap, ExecRequest, op_exec, ExecError, Free
  <2>3. CASE ReaperStep
    BY <2>3, Zenon DEF ReaperStep, ReaperReceive, ReaperMark, ReaperReply, ReaperTimeout, reap_once
  <2>4. CASE ChildStep
    BY <2>4, Zenon DEF ChildStep, ChildExit, ChildCrash, ChildExec
  <2>5. CASE UNCHANGED vars
    BY <2>5, Zenon DEF vars
  <2> QED
    BY <2>1, <2>2, <2>3, <2>4, <2>5 DEF Next
<1> QED
  BY <1>1, SpawndAssumption DEF HandleBound, IInv, TypeOK, TableType

(* What the mapped steps are. *)
LEMMA StepMaps ==
  IInv /\ IInv' /\ HandleBound /\ [Next]_vars => [L!Next]_(L!vars)
<1> SUFFICES ASSUME IInv, IInv', HandleBound, [Next]_vars PROVE [L!Next]_(L!vars)
  OBVIOUS
<1>1. MappedStep
  <2>1. CASE UNCHANGED vars
    BY <2>1, SilentStep DEF vars, tableVars, serverVars
  <2> QED
    BY <2>1, RequestMaps, ServerMaps, OthersMap DEF Next
<1>2. CASE Life' = Life /\ Code' = Code /\ Answer' = Answer
  BY <1>2 DEF L!vars, Life, Code, Answer, codeOf
<1>3. CASE MappedReply
  BY <1>3 DEF MappedReply, L!Next, L!OtherReply, Life, Code, Answer, codeOf
<1>4. CASE MappedExit
  BY <1>4 DEF MappedExit, L!Next, L!Exit, Life, Code, Answer, codeOf
<1>5. ASSUME NEW hh \in 1 .. MaxSpawns, MappedSpawn(hh)
      PROVE  L!Next
  BY <1>5 DEF MappedSpawn, L!Next, L!Spawn, Life, Code, Answer, codeOf
<1>6. ASSUME NEW hh \in 1 .. MaxSpawns, MappedCollect(hh)
      PROVE  L!Next
  BY <1>6 DEF MappedCollect, L!Next, L!Collect, Life, Code, Answer, codeOf
<1>7. ASSUME NEW hh \in 1 .. MaxSpawns, MappedDiscard(hh)
      PROVE  L!Next
  BY <1>7 DEF MappedDiscard, L!Next, L!Discard, Life, Code, Answer, codeOf
<1> QED
  BY <1>1, <1>2, <1>3, <1>4, <1>5, <1>6, <1>7 DEF MappedStep

(* spawnd, with its slots, threads, images and IPC, keeps Lifecycle's promise: *)
(* a handle is born once, exits once with one code, is collected by one        *)
(* waiter and never comes back.                                              *)
THEOREM ImplementsLifecycle == Spec => LifecycleSpec
<1>1. Init => L!Init
  <2> SUFFICES ASSUME Init PROVE L!Init
    OBVIOUS
  <2>1. HandlesUnique
    BY InitInv DEF IInv
  <2>2. ASSUME NEW hh \in 1 .. MaxSpawns
        PROVE  lifeOf(hh) = "unborn" /\ codeOf(hh) = 0
    <3>1. \A s \in Slots : ~Has(s, hh)
      BY DEF Init, Has
    <3>2. ~(hh < next_handle)
      BY DEF Init
    <3> QED
      BY <2>1, <3>1, <3>2, LifeByTableHolds DEF LifeByTable
  <2>3. reply.kind # "code"
    BY DEF Init
  <2> QED
    BY <2>2, <2>3 DEF L!Init, codeOf
<1>2. Init => HandleBound
  BY SpawndAssumption DEF Init, HandleBound
<1>3. Spec => []HandleBound
  BY <1>2, BoundNext, Invariance, PTL DEF Spec
<1> QED
  BY <1>1, <1>3, StepMaps, Invariance, PTL DEF Spec, LifecycleSpec, L!Spec

-----------------------------------------------------------------------------
(* Whose exit code a slot shows, for programs with one thread *)

(* Such a program is not in an exit and in an exec call at a time. *)
OneCall == \A i \in Images : execing[i] # "no" => exiting[i] = "no"

(* The image in flight is the newest one, and the first of a new handle. *)
InFlight ==
  /\ pc \in {"install", "exec_swap"} => img = nimages
  /\ pc = "install" => \A i \in Images : label[i] = h => i = img

(* While exec is served, the slot of its handle owns the caller. *)
ExecCaller ==
  pc \in {"exec_load", "exec_swap"} =>
    /\ caller \in Images /\ execing[caller] = "served"
    /\ \A s \in Slots : state[s] # "FREE" /\ handle[s] = h => task[s] = caller

(* An exit IPC that can still mark a slot comes from the program the slot    *)
(* owns or from the one in flight: a replaced program was in exec and sent   *)
(* none.                                                                    *)
ExitFromCurrent ==
  \A s \in Slots, i \in Images :
    state[s] \in {"LOADING", "RUNNING"} /\ label[i] = handle[s] /\ exiting[i] # "no" =>
      task[s] = i \/ (pc \in {"install", "exec_swap"} /\ img = i)

(* ExitIsOfCurrentProgram, where a crash was that of the slot's own program. *)
CodeOfCurrent ==
  \A s \in Slots : state[s] = "EXITED" =>
    \E i \in Images :
      /\ label[i] = handle[s] /\ i >= task[s]
      /\ \/ exiting[i] \in {"rcvd", "done"} /\ exit_code[s] = code[i]
         \/ i = task[s] /\ alive[i] = "dead" /\ exit_code[s] = -1

CurrentInv == OneCall /\ InFlight /\ ExecCaller /\ ExitFromCurrent /\ CodeOfCurrent

(* The parts of IInv that these proofs use, by name. *)
LEMMA Known ==
  ASSUME IInv
  PROVE  /\ TableType /\ ImageType /\ ServerType /\ ReaperType /\ HandlesUnique /\ SlotInv
         /\ ImageInv /\ ServerInv /\ ReaperInv /\ NoOrphan /\ LoadingInFlight
BY DEF IInv, TypeOK

(* The images a slot may own are launched ones. *)
LEMMA OwnedLaunched ==
  ASSUME IInv, NEW s \in Slots
  PROVE  task[s] <= nimages
<1> USE Known
<1>1. CASE task[s] = None
  BY <1>1, SpawndAssumption DEF None, ImageType
<1>2. CASE task[s] # None
  <2>1. task[s] \in Images /\ alive[task[s]] # "none"
    BY <1>2 DEF ImageInv, TableType
  <2> QED
    BY <2>1, NextImage, SpawndAssumption DEF ImageInv, ImageType
<1> QED
  BY <1>1, <1>2

(* A step of the dispatch thread that touches neither slots nor images. *)
LEMMA QuietCurrent ==
  ASSUME IInv, CurrentInv, pc \in {"loop", "exec_load", "poll", "load"},
         pc' \in {"loop", "poll", "collect", "load_failed"},
         UNCHANGED <<state, handle, exit_code, task, label, alive, exiting, code>>,
         execing' = execing \/ \E i \in Images : execing' = [execing EXCEPT ![i] = "no"]
  PROVE  CurrentInv'
<1> USE Known DEF CurrentInv
<1>1. OneCall'
  BY DEF OneCall, ImageType
<1>2. InFlight' /\ ExecCaller'
  BY DEF InFlight, ExecCaller
<1>3. ExitFromCurrent'
  BY DEF ExitFromCurrent
<1>4. CodeOfCurrent'
  BY DEF CodeOfCurrent
<1> QED
  BY <1>1, <1>2, <1>3, <1>4

(* free: the other slots keep their children. *)
LEMMA FreeCurrent ==
  ASSUME IInv, CurrentInv, NEW s \in Slots, state[s] # "FREE", Free(s),
         pc \in {"loop", "load_failed", "collect"}, pc' = "loop",
         UNCHANGED <<nimages, label, exiting, code, execing>>
  PROVE  CurrentInv'
<1> USE Known DEF CurrentInv
<1>1. OneCall' /\ InFlight' /\ ExecCaller'
  BY DEF OneCall, InFlight, ExecCaller
<1>2. \A t \in Slots : state'[t] # "FREE" =>
        /\ t # s /\ state'[t] = state[t] /\ handle'[t] = handle[t] /\ task'[t] = task[t]
        /\ exit_code'[t] = exit_code[t]
  BY DEF Free, TableType
<1>3. ExitFromCurrent'
  BY <1>2 DEF ExitFromCurrent
<1>4. \A t \in Slots : t # s /\ state[t] # "FREE" /\ task[t] \in Images => task[t] # task[s]
  BY NextImage DEF ImageInv, HandlesUnique, TableType
<1>5. \A t \in Slots : t # s /\ state[t] # "FREE" /\ task[t] \in Images =>
        alive'[task[t]] = alive[task[t]]
  BY <1>4 DEF Free
<1>6. CodeOfCurrent'
  <2> SUFFICES ASSUME NEW t \in Slots, state'[t] = "EXITED"
               PROVE  \E i \in Images :
                        /\ label'[i] = handle'[t] /\ i >= task'[t]
                        /\ \/ exiting'[i] \in {"rcvd", "done"} /\ exit_code'[t] = code'[i]
                           \/ i = task'[t] /\ alive'[i] = "dead" /\ exit_code'[t] = -1
    BY DEF CodeOfCurrent
  <2>1. t # s /\ state[t] = "EXITED" /\ handle'[t] = handle[t] /\ task'[t] = task[t] /\ exit_code'[t] = exit_code[t]
    BY <1>2
  <2>2. PICK i \in Images :
          /\ label[i] = handle[t] /\ i >= task[t]
          /\ \/ exiting[i] \in {"rcvd", "done"} /\ exit_code[t] = code[i]
             \/ i = task[t] /\ alive[i] = "dead" /\ exit_code[t] = -1
    BY <2>1 DEF CodeOfCurrent
  <2> QED
    BY <1>5, <2>1, <2>2
<1> QED
  BY <1>1, <1>3, <1>6

(* alloc: nobody has the new handle. *)
LEMMA AllocCurrent ==
  ASSUME IInv, CurrentInv, NEW s \in Slots, state[s] = "FREE", Alloc(s),
         pc = "loop", pc' = "load", UNCHANGED imageVars
  PROVE  CurrentInv'
<1> USE Known DEF CurrentInv, imageVars
<1>1. OneCall' /\ InFlight' /\ ExecCaller'
  BY DEF OneCall, InFlight, ExecCaller
<1>2. \A i \in Images : label[i] # next_handle
  BY NextImage, SpawndAssumption DEF ImageInv, ImageType, TableType, None
<1>3. /\ state' = [state EXCEPT ![s] = "LOADING"] /\ handle' = [handle EXCEPT ![s] = next_handle]
      /\ exit_code' = [exit_code EXCEPT ![s] = 0] /\ task' = task
  BY DEF Alloc, NewHandle
<1>4. ExitFromCurrent'
  BY <1>2, <1>3 DEF ExitFromCurrent, TableType
<1>5. CodeOfCurrent'
  BY <1>3 DEF CodeOfCurrent, TableType
<1> QED
  BY <1>1, <1>4, <1>5

(* load_image: the new program has not exited. *)
LEMMA LaunchCurrent ==
  ASSUME IInv, CurrentInv, Launch(h), UNCHANGED <<tableVars, h, caller>>,
         (pc = "load" /\ pc' = "install") \/ (pc = "exec_load" /\ pc' = "exec_swap")
  PROVE  CurrentInv'
<1> USE Known DEF CurrentInv, tableVars
<1>1. /\ img' = nimages + 1 /\ nimages' = nimages + 1 /\ img' \in Images
      /\ UNCHANGED <<exiting, code, execing>>
  BY NextImage DEF Launch, ImageType
<1>2. alive[img'] = "none" /\ exiting[img'] = "no" /\ label'[img'] = h /\ \A i \in Images : i # img' => label'[i] = label[i] /\ alive'[i] = alive[i]
  BY <1>1, SpawndAssumption DEF ImageInv, ImageType, Launch
<1>3. OneCall' /\ ExecCaller'
  BY <1>1 DEF OneCall, ExecCaller
<1>4. InFlight'
  BY <1>1, <1>2 DEF InFlight, ServerInv
<1>5. ExitFromCurrent'
  BY <1>1, <1>2 DEF ExitFromCurrent
<1>6. \A s \in Slots : task[s] # img'
  BY <1>1, <1>2, NextImage DEF ImageInv
<1>7. CodeOfCurrent'
  <2> SUFFICES ASSUME NEW t \in Slots, state[t] = "EXITED"
               PROVE  \E i \in Images :
                        /\ label'[i] = handle[t] /\ i >= task[t]
                        /\ \/ exiting[i] \in {"rcvd", "done"} /\ exit_code[t] = code[i]
                           \/ i = task[t] /\ alive'[i] = "dead" /\ exit_code[t] = -1
    BY <1>1 DEF CodeOfCurrent
  <2>2. PICK i \in Images :
          /\ label[i] = handle[t] /\ i >= task[t]
          /\ \/ exiting[i] \in {"rcvd", "done"} /\ exit_code[t] = code[i]
             \/ i = task[t] /\ alive[i] = "dead" /\ exit_code[t] = -1
    BY DEF CodeOfCurrent
  <2>3. i # img'
    BY <1>2, <1>6, <2>2
  <2> QED
    BY <1>2, <2>2, <2>3
<1> QED
  BY <1>3, <1>4, <1>5, <1>7

(* do_spawn: the slot, marked already or not, owns the first program of its   *)
(* handle.                                                                   *)
LEMMA InstallCurrent ==
  ASSUME IInv, CurrentInv, do_spawn_install
  PROVE  CurrentInv'
<1> USE Known DEF CurrentInv, imageVars
<1>0. /\ pc = "install" /\ slot \in Slots /\ img \in Images /\ img # None
      /\ state[slot] \in {"LOADING", "EXITED"} /\ handle[slot] = h /\ task[slot] = None
      /\ label[img] = h /\ \A i \in Images : label[i] = h => i = img
  BY NextImage DEF do_spawn_install, ServerInv, ServerType, Filling, InFlight
<1>1. /\ task' = [task EXCEPT ![slot] = img]
      /\ state' = [state EXCEPT ![slot] = IF state[slot] = "LOADING" THEN "RUNNING" ELSE state[slot]]
      /\ UNCHANGED <<handle, exit_code, next_handle, nimages, alive, label, exiting, code, execing>>
      /\ pc' \in {"poll", "loop"}
  BY DEF do_spawn_install, InstalledState, Return
<1>2. OneCall' /\ InFlight' /\ ExecCaller'
  BY <1>1 DEF OneCall, InFlight, ExecCaller
<1>3. ExitFromCurrent'
  <2>1. \A t \in Slots : t # slot /\ state[t] # "FREE" => handle[t] # h
    BY <1>0 DEF HandlesUnique
  <2> QED
    BY <1>0, <1>1, <2>1 DEF ExitFromCurrent, TableType
<1>4. CodeOfCurrent'
  <2>1. ASSUME NEW t \in Slots, t # slot, state'[t] = "EXITED"
        PROVE  \E i \in Images :
                        /\ label[i] = handle[t] /\ i >= task'[t]
                        /\ \/ exiting[i] \in {"rcvd", "done"} /\ exit_code[t] = code[i]
                           \/ i = task'[t] /\ alive[i] = "dead" /\ exit_code[t] = -1
    BY <1>0, <1>1, <2>1 DEF CodeOfCurrent, TableType
  <2>2. ASSUME state'[slot] = "EXITED"
        PROVE  \E i \in Images :
                        /\ label[i] = handle[slot] /\ i >= task'[slot]
                        /\ exiting[i] \in {"rcvd", "done"} /\ exit_code[slot] = code[i]
    <3>1. state[slot] = "EXITED" /\ task'[slot] = img
      BY <1>0, <1>1, <2>2 DEF TableType
    <3>2. PICK i \in Images :
          /\ label[i] = handle[slot] /\ i >= task[slot]
          /\ \/ exiting[i] \in {"rcvd", "done"} /\ exit_code[slot] = code[i]
             \/ i = task[slot] /\ alive[i] = "dead" /\ exit_code[slot] = -1
      BY <1>0, <3>1 DEF CodeOfCurrent
    <3>3. i = img /\ i # task[slot] /\ i >= img
      BY <1>0, <3>2, NextImage
    <3> QED
      BY <3>1, <3>2, <3>3
  <2> QED
    BY <1>1, <2>1, <2>2 DEF CodeOfCurrent
<1> QED
  BY <1>2, <1>3, <1>4

(* op_exec: the caller, which exists, is the program the slot owns. *)
LEMMA ExecCurrent ==
  ASSUME IInv, CurrentInv, NEW i \in Images, op_exec(i), pc' = "exec_load",
         h' = label[i], caller' = i, execing' = [execing EXCEPT ![i] = "served"],
         UNCHANGED <<tableVars, nimages, alive, label, exiting, code>>
  PROVE  CurrentInv'
<1> USE Known DEF CurrentInv, tableVars
<1>0. pc = "loop" /\ execing[i] = "queued" /\ alive[i] # "gone"
  BY DEF op_exec
<1>1. alive[i] \in {"alive", "dead"}
  BY <1>0, NextImage, SpawndAssumption DEF ImageInv, ImageType
<1>2. \A s \in Slots : state[s] # "FREE" /\ handle[s] = label[i] => task[s] = i
  BY <1>0, <1>1 DEF NoOrphan, HandlesUnique
<1>3. OneCall'
  BY <1>0 DEF OneCall, ImageType
<1>4. InFlight' /\ ExitFromCurrent' /\ CodeOfCurrent'
  BY <1>0 DEF InFlight, ExitFromCurrent, CodeOfCurrent
<1>5. ExecCaller'
  BY <1>2 DEF ExecCaller, ImageType
<1> QED
  BY <1>3, <1>4, <1>5

(* The swap: the replaced program was in exec, so it has sent no exit. *)
LEMMA SwapCurrent ==
  ASSUME IInv, CurrentInv, op_exec_swap
  PROVE  CurrentInv'
<1> USE Known DEF CurrentInv
<1>0. /\ pc = "exec_swap" /\ pc' = "loop" /\ img \in Images /\ img # None /\ label[img] = h
      /\ UNCHANGED <<state, handle, exit_code, label, exiting, code, execing>>
  BY NextImage DEF op_exec_swap, ServerInv, Return
<1>1. OneCall' /\ InFlight' /\ ExecCaller'
  BY <1>0 DEF OneCall, InFlight, ExecCaller
<1>2. ASSUME NEW s \in Slots, s \in Find(h), state[s] = "RUNNING",
             task' = [task EXCEPT ![s] = img],
             alive' = [i \in Images |-> IF i = task[s] THEN "gone" ELSE alive[i]]
      PROVE  CurrentInv'
  <2>1. handle[s] = h /\ task[s] = caller /\ exiting[task[s]] = "no"
    BY <1>0, <1>2 DEF Find, ExecCaller, OneCall
  <2>2. \A t \in Slots : t # s /\ state[t] # "FREE" => handle[t] # h
    BY <1>2, <2>1 DEF HandlesUnique
  <2>3. ExitFromCurrent'
    BY <1>0, <1>2, <2>1, <2>2 DEF ExitFromCurrent, TableType
  <2>4. \A t \in Slots : t # s /\ task[t] # None => task[t] # task[s]
    BY <2>1, <2>2, NextImage DEF ImageInv, SlotInv, TableType
  <2>5. CodeOfCurrent'
    <3> SUFFICES ASSUME NEW t \in Slots, state[t] = "EXITED"
                 PROVE  \E i \in Images :
                          /\ label[i] = handle[t] /\ i >= task'[t]
                          /\ \/ exiting[i] \in {"rcvd", "done"} /\ exit_code[t] = code[i]
                             \/ i = task'[t] /\ alive'[i] = "dead" /\ exit_code[t] = -1
      BY <1>0 DEF CodeOfCurrent
    <3>1. t # s /\ task'[t] = task[t]
      BY <1>2 DEF TableType
    <3>2. PICK i \in Images :
            /\ label[i] = handle[t] /\ i >= task[t]
            /\ \/ exiting[i] \in {"rcvd", "done"} /\ exit_code[t] = code[i]
               \/ i = task[t] /\ alive[i] = "dead" /\ exit_code[t] = -1
      BY DEF CodeOfCurrent
    <3>3. i = task[t] => alive'[i] = alive[i]
      BY <1>2, <2>4, <3>1, NextImage
    <3> QED
      BY <3>1, <3>2, <3>3
  <2> QED
    BY <1>1, <2>3, <2>5
<1>3. CASE /\ ~ \E s \in Slots : IsFirst(s, Find(h)) /\ state[s] = "RUNNING"
           /\ DropImage(img) /\ UNCHANGED task
  <2>1. ASSUME NEW s \in Slots, state[s] \in {"LOADING", "RUNNING"}
        PROVE  handle[s] # h
    <3>1. state[s] = "RUNNING"
      BY <1>0, <2>1 DEF LoadingInFlight
    <3>2. SUFFICES ASSUME handle[s] = h PROVE FALSE
      OBVIOUS
    <3>3. \A t \in Find(h) : t = s
      BY <3>1, <3>2 DEF Find, HandlesUnique
    <3>4. s \in Find(h) /\ s <= s
      BY <3>1, <3>2 DEF Find, Slots
    <3>5. IsFirst(s, Find(h))
      BY <3>3, <3>4 DEF IsFirst
    <3> QED
      BY <1>3, <3>1, <3>5
  <2>2. ExitFromCurrent'
    BY <1>0, <1>3, <2>1 DEF ExitFromCurrent
  <2>3. \A s \in Slots : task[s] # img
    BY <1>0 DEF ServerInv
  <2>4. CodeOfCurrent'
    BY <1>0, <1>3, <2>3 DEF CodeOfCurrent, DropImage, ImageType
  <2> QED
    BY <1>1, <2>2, <2>4
<1> QED
  BY <1>2, <1>3, FirstIn DEF op_exec_swap

(* The reaper marks a slot for the program behind its handle only. *)
LEMMA ReaperCurrent ==
  ASSUME IInv, CurrentInv, ReaperStep
  PROVE  CurrentInv'
<1> USE Known DEF CurrentInv, tableVars, imageVars, serverVars, localVars
<1>1. CASE ReaperReceive \/ ReaperReply \/ ReaperTimeout
  <2>1. /\ UNCHANGED <<tableVars, nimages, alive, label, code, execing, serverVars>>
        /\ \/ exiting' = exiting
           \/ \E i \in Images : \/ exiting[i] = "sent" /\ exiting' = [exiting EXCEPT ![i] = "rcvd"]
                                \/ exiting[i] = "rcvd" /\ exiting' = [exiting EXCEPT ![i] = "done"]
    <3>1. CASE ReaperReceive
      <4>1. PICK i \in Images : exiting[i] = "sent" /\ exiting' = [exiting EXCEPT ![i] = "rcvd"]
        BY <3>1 DEF ReaperReceive
      <4>2. UNCHANGED <<tableVars, nimages, alive, label, code, execing, serverVars>>
        BY <3>1 DEF ReaperReceive
      <4>3. \E j \in Images : \/ exiting[j] = "sent" /\ exiting' = [exiting EXCEPT ![j] = "rcvd"]
                              \/ exiting[j] = "rcvd" /\ exiting' = [exiting EXCEPT ![j] = "done"]
        BY <4>1, Zenon
      <4> QED
        BY <4>2, <4>3, Zenon
    <3>2. CASE ReaperReply
      <4>1. rimg \in Images /\ exiting[rimg] = "rcvd"
        BY <3>2 DEF ReaperReply, ReaperInv
      <4> QED
        BY <3>2, <4>1, Zenon DEF ReaperReply
    <3>3. CASE ReaperTimeout
      BY <3>3, Zenon DEF ReaperTimeout
    <3> QED
      BY <1>1, <3>1, <3>2, <3>3
  <2>2. /\ \A i \in Images : (exiting'[i] = "no") <=> (exiting[i] = "no")
        /\ \A i \in Images : exiting[i] \in {"rcvd", "done"} => exiting'[i] \in {"rcvd", "done"}
    BY <2>1 DEF ImageType
  <2>3. OneCall' /\ InFlight' /\ ExecCaller' /\ ExitFromCurrent'
    BY <2>1, <2>2 DEF OneCall, InFlight, ExecCaller, ExitFromCurrent
  <2>4. CodeOfCurrent'
    BY <2>1, <2>2 DEF CodeOfCurrent
  <2> QED
    BY <2>3, <2>4
<1>2. ASSUME UNCHANGED <<handle, task, imageVars, serverVars>>,
             \A s \in Slots :
               \/ state'[s] = state[s] /\ exit_code'[s] = exit_code[s]
               \/ /\ state[s] # "FREE" /\ state'[s] = "EXITED"
                  /\ \E i \in Images :
                       /\ label[i] = handle[s] /\ i >= task[s]
                       /\ \/ exiting[i] \in {"rcvd", "done"} /\ exit_code'[s] = code[i]
                          \/ i = task[s] /\ alive[i] = "dead" /\ exit_code'[s] = -1
      PROVE  CurrentInv'
  <2>1. OneCall' /\ InFlight'
    BY <1>2 DEF OneCall, InFlight
  <2>2. \A s \in Slots : (state'[s] # "FREE" => state[s] # "FREE") /\
                         (state'[s] \in {"LOADING", "RUNNING"} => state'[s] = state[s])
    BY <1>2
  <2>3. ExecCaller' /\ ExitFromCurrent'
    BY <1>2, <2>2 DEF ExecCaller, ExitFromCurrent
  <2>4. CodeOfCurrent'
    BY <1>2 DEF CodeOfCurrent
  <2> QED
    BY <2>1, <2>3, <2>4
<1>3. CASE ReaperMark
  <2>0. /\ rimg \in Images /\ exiting[rimg] = "rcvd"
        /\ UNCHANGED <<handle, task, imageVars, serverVars>>
    BY <1>3 DEF ReaperMark, ReaperInv
  <2>1. ASSUME NEW s \in Slots, s \in Find(label[rimg]), state[s] # "EXITED",
               state' = [state EXCEPT ![s] = "EXITED"],
               exit_code' = [exit_code EXCEPT ![s] = code[rimg]]
        PROVE  CurrentInv'
    <3>1. state[s] \in {"LOADING", "RUNNING"} /\ handle[s] = label[rimg]
      BY <2>1 DEF Find, TableType
    <3>2. rimg >= task[s]
      <4>1. task[s] = rimg \/ rimg = nimages
        BY <2>0, <3>1 DEF ExitFromCurrent, InFlight
      <4>2. task[s] <= nimages /\ task[s] \in Int /\ rimg \in Int
        BY <2>0, OwnedLaunched, NextImage DEF TableType, None
      <4> QED
        BY <4>1, <4>2
    <3>3. \A t \in Slots : t # s => state'[t] = state[t] /\ exit_code'[t] = exit_code[t]
      BY <2>1 DEF TableType
    <3>4. state'[s] = "EXITED" /\ exit_code'[s] = code[rimg]
      BY <2>1 DEF TableType
    <3> QED
      BY <1>2, <2>0, <3>1, <3>2, <3>3, <3>4
  <2>2. CASE UNCHANGED <<state, exit_code>>
    BY <1>2, <2>0, <2>2
  <2> QED
    BY <1>3, <2>1, <2>2, FirstIn DEF ReaperMark, AcceptsExit
<1>4. CASE reap_once
  <2>1. UNCHANGED <<handle, task, imageVars, serverVars>>
    BY <1>4 DEF reap_once
  <2>2. ASSUME NEW s \in Slots
        PROVE  \/ state'[s] = state[s] /\ exit_code'[s] = exit_code[s]
               \/ /\ state[s] # "FREE" /\ state'[s] = "EXITED" /\ task[s] \in Images
                  /\ label[task[s]] = handle[s] /\ task[s] >= task[s]
                  /\ alive[task[s]] = "dead" /\ exit_code'[s] = -1
    BY <1>4, NextImage DEF reap_once, Crashed, ReapedState, ImageInv
  <2> QED
    BY <1>2, <2>1, <2>2
<1> QED
  BY <1>1, <1>3, <1>4 DEF ReaperStep

(* A program exits only while it exists, and not from an exec call. *)
LEMMA ChildCurrent ==
  ASSUME ~MultiThreaded, IInv, CurrentInv, NEW i \in Images,
         (\E c \in ExitCodes : ChildExit(i, c)) \/ ChildCrash(i) \/ ChildExec(i)
  PROVE  CurrentInv'
<1> USE Known DEF CurrentInv, tableVars, serverVars, localVars
<1>1. CASE \E c \in ExitCodes : ChildExit(i, c)
  <2>1. PICK c \in ExitCodes : ChildExit(i, c)
    BY <1>1
  <2>2. /\ alive[i] = "alive" /\ exiting[i] = "no" /\ execing[i] = "no"
        /\ exiting' = [exiting EXCEPT ![i] = "sent"] /\ code' = [code EXCEPT ![i] = c]
        /\ UNCHANGED <<tableVars, nimages, alive, label, execing, serverVars>>
    BY <2>1, Zenon DEF ChildExit, Idle
  <2>3. OneCall' /\ InFlight' /\ ExecCaller'
    BY <2>2 DEF OneCall, InFlight, ExecCaller, ImageType
  <2>4. ExitFromCurrent'
    BY <2>2 DEF ExitFromCurrent, ImageType, NoOrphan, HandlesUnique
  <2>5. \A j \in Images : exiting[j] \in {"rcvd", "done"} =>
          exiting'[j] = exiting[j] /\ code'[j] = code[j]
    BY <2>2 DEF ImageType
  <2>6. CodeOfCurrent'
    BY <2>2, <2>5 DEF CodeOfCurrent
  <2> QED
    BY <2>3, <2>4, <2>6
<1>2. CASE ChildCrash(i)
  <2>1. /\ alive[i] = "alive" /\ alive' = [alive EXCEPT ![i] = "dead"]
        /\ UNCHANGED <<tableVars, nimages, label, exiting, code, execing, serverVars>>
    BY <1>2, Zenon DEF ChildCrash
  <2>2. OneCall' /\ InFlight' /\ ExecCaller' /\ ExitFromCurrent'
    BY <2>1 DEF OneCall, InFlight, ExecCaller, ExitFromCurrent
  <2>3. CodeOfCurrent'
    BY <2>1 DEF CodeOfCurrent, ImageType
  <2> QED
    BY <2>2, <2>3
<1>3. CASE ChildExec(i)
  <2>1. /\ exiting[i] = "no" /\ execing[i] = "no" /\ execing' = [execing EXCEPT ![i] = "queued"]
        /\ UNCHANGED <<tableVars, nimages, alive, label, exiting, code, serverVars>>
    BY <1>3, Zenon DEF ChildExec, Idle
  <2>2. OneCall' /\ InFlight' /\ ExitFromCurrent' /\ CodeOfCurrent'
    BY <2>1 DEF OneCall, InFlight, ExitFromCurrent, CodeOfCurrent, ImageType
  <2>3. ExecCaller'
    BY <2>1 DEF ExecCaller, ImageType
  <2> QED
    BY <2>2, <2>3
<1> QED
  BY <1>1, <1>2, <1>3

(* The dispatch thread. *)
LEMMA ServerCurrent ==
  ASSUME IInv, CurrentInv, Request \/ ServerStep \/ ExecRequest
  PROVE  CurrentInv'
<1> USE DEF tableVars, imageVars
<1>1. CASE op_spawn_invalid \/ op_task_count \/ \E s \in 0 .. MAX : op_task_stat(s)
  BY <1>1, QuietCurrent DEF op_spawn_invalid, op_task_count, op_task_stat, Return
<1>2. ASSUME NEW flags, op_spawn(flags)
      PROVE  CurrentInv'
  <2>1. CASE Return("spawn", None, "error", ENOMEM) /\ UNCHANGED tableVars
    BY <1>2, <2>1, QuietCurrent DEF op_spawn, Return
  <2>2. ASSUME NEW s \in Slots, IsFirst(s, FreeSlots), Alloc(s), pc' = "load"
        PROVE  CurrentInv'
    <3>1. state[s] = "FREE"
      BY <2>2, FirstIn DEF FreeSlots
    <3> QED
      BY <1>2, <2>2, <3>1, AllocCurrent DEF op_spawn
  <2> QED
    BY <1>2, <2>1, <2>2 DEF op_spawn
<1>3. ASSUME NEW hh, NEW nohang, op_wait(hh, nohang)
      PROVE  CurrentInv'
  <2>0. pc = "loop" /\ UNCHANGED <<nimages, label, exiting, code, execing>>
    BY <1>3 DEF op_wait
  <2>1. CASE UNCHANGED <<tableVars, alive>> /\ pc' \in {"loop", "poll"}
    BY <2>0, <2>1, QuietCurrent
  <2>2. ASSUME NEW s \in Slots, IsFirst(s, Find(hh)), Free(s), pc' = "loop"
        PROVE  CurrentInv'
    BY <2>0, <2>2, FirstIn, FreeCurrent DEF Find
  <2> QED
    BY <1>3, <2>1, <2>2 DEF op_wait, Return
<1>4. ASSUME NEW hh, op_kill(hh)
      PROVE  CurrentInv'
  <2>0. pc = "loop" /\ pc' = "loop" /\ UNCHANGED <<nimages, label, exiting, code, execing>>
    BY <1>4 DEF op_kill, Return
  <2>1. CASE UNCHANGED <<tableVars, alive>>
    BY <2>0, <2>1, QuietCurrent
  <2>2. ASSUME NEW s \in Slots, IsFirst(s, Find(hh)), Free(s)
        PROVE  CurrentInv'
    BY <2>0, <2>2, FirstIn, FreeCurrent DEF Find
  <2> QED
    BY <1>4, <2>1, <2>2 DEF op_kill
<1>5. CASE do_spawn_load
  <2>0. pc = "load" /\ UNCHANGED <<tableVars, h, caller>>
    BY <1>5 DEF do_spawn_load
  <2>1. CASE Launch(h) /\ pc' = "install"
    BY <2>0, <2>1, LaunchCurrent
  <2>2. CASE pc' = "load_failed" /\ UNCHANGED imageVars
    <3>1. UNCHANGED <<state, handle, exit_code, task, label, alive, exiting, code>>
      BY <2>0, <2>2
    <3>2. execing' = execing
      BY <2>2
    <3>3. pc \in {"loop", "exec_load", "poll", "load"}
      BY <2>0
    <3>4. pc' \in {"loop", "poll", "collect", "load_failed"}
      BY <2>2
    <3> QED
      BY <3>1, <3>2, <3>3, <3>4, QuietCurrent, Zenon
  <2> QED
    BY <1>5, <2>1, <2>2 DEF do_spawn_load
<1>6. CASE do_wait_done
  BY <1>6, QuietCurrent DEF do_wait_done
<1>7. CASE do_spawn_failed \/ do_wait_free
  <2>0. /\ pc \in {"load_failed", "collect"} /\ pc' = "loop"
        /\ UNCHANGED <<nimages, label, exiting, code, execing>>
    BY <1>7 DEF do_spawn_failed, do_wait_free, Return
  <2>1. PICK s \in Slots : s \in Find(h) /\ Free(s)
    BY <1>7, FirstIn DEF do_spawn_failed, do_wait_free
  <2> QED
    BY <2>0, <2>1, FreeCurrent DEF Find
<1>8. ASSUME NEW i \in Images, NEW err, ExecError(i, err), pc \in {"loop", "exec_load"}
      PROVE  CurrentInv'
  BY <1>8, QuietCurrent DEF ExecError, Return
<1>9. CASE op_exec_load
  <2>1. CASE Launch(h) /\ pc' = "exec_swap" /\ UNCHANGED <<tableVars, h, caller>>
    BY <1>9, <2>1, LaunchCurrent DEF op_exec_load
  <2>2. CASE ExecError(caller, EIO)
    <3>1. caller \in Images
      BY <1>9, Known DEF op_exec_load, ServerInv
    <3> QED
      BY <1>8, <1>9, <2>2, <3>1 DEF op_exec_load
  <2> QED
    BY <1>9, <2>1, <2>2 DEF op_exec_load
<1>10. ASSUME NEW i \in Images, op_exec(i)
       PROVE  CurrentInv'
  <2>1. CASE \E err : ExecError(i, err)
    BY <1>8, <1>10, <2>1 DEF op_exec
  <2>2. CASE /\ execing' = [execing EXCEPT ![i] = "served"]
             /\ pc' = "exec_load" /\ h' = label[i] /\ caller' = i
             /\ UNCHANGED <<tableVars, nimages, alive, label, exiting, code>>
    BY <1>10, <2>2, ExecCurrent
  <2> QED
    BY <1>10, <2>1, <2>2, Zenon DEF op_exec
<1> QED
  BY <1>1, <1>2, <1>3, <1>4, <1>5, <1>6, <1>7, <1>9, <1>10, InstallCurrent, SwapCurrent
  DEF Request, ServerStep, ExecRequest

(* With programs of one thread, no exit is charged to a handle whose program  *)
(* an exec has replaced in the meantime: the code of an EXITED slot is that   *)
(* of the program behind it, for every size of the table and any number of    *)
(* execs.  (With several threads it is not: run spawnd_stale_exit.)           *)
THEOREM ExitOfCurrentProgram ==
  ASSUME ~MultiThreaded
  PROVE  Spec => []ExitIsOfCurrentProgram
<1>1. Init => CurrentInv
  BY DEF Init, CurrentInv, OneCall, InFlight, ExecCaller, ExitFromCurrent, CodeOfCurrent
<1>2. IInv /\ CurrentInv /\ [Next]_vars => CurrentInv'
  <2> SUFFICES ASSUME IInv, CurrentInv, [Next]_vars PROVE CurrentInv'
    OBVIOUS
  <2>1. CASE UNCHANGED vars
    BY <2>1 DEF vars, tableVars, imageVars, serverVars, localVars, CurrentInv, OneCall,
       InFlight, ExecCaller, ExitFromCurrent, CodeOfCurrent
  <2>2. CASE ChildStep
    BY <2>2, ChildCurrent DEF ChildStep
  <2> QED
    BY <2>1, <2>2, ServerCurrent, ReaperCurrent DEF Next
<1>3. CurrentInv => ExitIsOfCurrentProgram
  BY DEF CurrentInv, CodeOfCurrent, ExitIsOfCurrentProgram
<1> QED
  BY <1>1, <1>2, <1>3, Invariance, PTL DEF Spec

=============================================================================
