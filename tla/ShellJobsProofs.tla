--------------------------- MODULE ShellJobsProofs ---------------------------
(***************************************************************************)
(* Proofs about ShellJobs, for any number of shells, programs and slots.   *)
(***************************************************************************)
EXTENDS ShellJobs, SequenceTheorems, TLAPS

Jobs == [handle : Handles, active : BOOLEAN]

Calls == [op : {"none", "SPAWN_BG", "SPAWN_WAIT", "wait", "kill"}, h : Nat]

(* TypeOK, with the tables as a whole. *)
TableType ==
  /\ life \in [Handles -> {"unborn", "live", "exited", "over"}]
  /\ code \in [Handles -> Int]
  /\ serving \in Shells \cup {NoShell}
  /\ pc \in [Shells -> {"prompt", "called", "loading", "polling", "replied"}]
  /\ call \in [Shells -> Calls]
  /\ ret \in [Shells -> Int]
  /\ ender \in [Handles -> Shells \cup {NoShell}]
  /\ starter \in [Handles -> Shells \cup {NoShell}]
  /\ tasks \in [Shells -> Seq(Jobs)]

(* Handles are given out in order, and an exit leaves one of the codes. *)
BirthInv == \A g, h \in Handles : g < h /\ life[h] # "unborn" => life[g] # "unborn"

CodeInv == \A h \in Handles : life[h] = "exited" => code[h] \in Codes

Spawns == {"SPAWN_BG", "SPAWN_WAIT"}

(* What a call is about, and what its reply says of the handle. *)
CallInv ==
  \A sh \in Shells :
    LET h == call[sh].h
    IN  /\ call[sh].op \in {"wait", "kill"} \/ pc[sh] \in {"loading", "polling"} => h \in Handles
        /\ pc[sh] = "loading" => call[sh].op \in Spawns
        /\ pc[sh] = "polling" => call[sh].op \in {"wait", "SPAWN_WAIT"}
        /\ pc[sh] = "replied" /\ call[sh].op = "SPAWN_BG" /\ ret[sh] >= 0 =>
             ret[sh] = h /\ h \in Handles
        /\ pc[sh] = "replied" /\ call[sh].op \in {"wait", "kill"} /\ ret[sh] # ENOENT =>
             life[h] = "over"

(* A program that is being loaded, or whose handle is on its way to the      *)
(* table, is in no table and in no other such call; its handle is the        *)
(* youngest its shell has.                                                  *)
Held(sh) == pc[sh] = "loading" \/ (pc[sh] = "replied" /\ call[sh].op = "SPAWN_BG" /\ ret[sh] >= 0)

(* The same of a program that runs in the foreground. *)
Fresh(sh) == Held(sh) \/ (pc[sh] = "polling" /\ call[sh].op = "SPAWN_WAIT")

HeldInv ==
  \A sh \in Shells : Fresh(sh) =>
    /\ life[call[sh].h] # "unborn"
    /\ \A u \in Shells : \A k \in DOMAIN tasks[u] : tasks[u][k].handle # call[sh].h
    /\ \A u \in Shells : u # sh /\ Fresh(u) => call[u].h # call[sh].h
    /\ \A k \in DOMAIN tasks[sh] : tasks[sh][k].handle < call[sh].h

(* The handles of a table increase, so the k-th is at least k. *)
OrderInv ==
  \A sh \in Shells :
    /\ \A k \in DOMAIN tasks[sh] : life[tasks[sh][k].handle] # "unborn" /\ k <= tasks[sh][k].handle
    /\ \A j, k \in DOMAIN tasks[sh] : j < k => tasks[sh][j].handle < tasks[sh][k].handle

JobInv == TableType /\ BirthInv /\ CodeInv /\ CallInv /\ HeldInv /\ OrderInv

(* A taken slot belongs to a program that its shell is starting, or waits for *)
(* since it ran it in the foreground, or has in its table, or had no room    *)
(* for there.                                                               *)
Starting(sh, h) == call[sh].h = h /\ Fresh(sh)

KeptInv ==
  \A h \in Handles : Known(h) =>
    \E sh \in Shells :
      sh = starter[h] /\ (Starting(sh, h) \/ h \in Listed(sh) \/ TurnedAway(sh, h))

(* A handle that is over was ended by another shell, or by a call of this     *)
(* one that has not yet come to the table.                                  *)
Ending(sh, h) ==
  /\ pc[sh] = "replied" /\ call[sh].op \in {"wait", "kill"}
  /\ call[sh].h = h /\ ret[sh] # ENOENT

EndedBy(sh, h) == Known(h) \/ ender[h] \in Shells \ {sh}

GhostInv ==
  \A sh \in Shells :
    /\ \A h \in Listed(sh) : EndedBy(sh, h) \/ Ending(sh, h)
    /\ Held(sh) => EndedBy(sh, call[sh].h)

-----------------------------------------------------------------------------
(* What the actions come to *)

(* The call of sh has ended handle h. *)
EndStep(sh, h) ==
  /\ h \in Handles /\ Known(h) /\ call[sh].h = h
  /\ \/ call[sh].op \in {"wait", "kill"} /\ pc[sh] \in {"called", "polling"}
     \/ call[sh].op \in Spawns /\ pc[sh] = "polling"
  /\ life' = [life EXCEPT ![h] = "over"] /\ code' = [code EXCEPT ![h] = 0]
  /\ pc' = [pc EXCEPT ![sh] = "replied"]
  /\ \E r \in Codes \cup {0} : ret' = [ret EXCEPT ![sh] = r]
  /\ ender' = [ender EXCEPT ![h] = sh]
  /\ serving' = NoShell /\ UNCHANGED <<call, tasks, starter>>

(* The call of sh is refused. *)
RefuseStep(sh) ==
  /\ pc[sh] = "called"
  /\ pc' = [pc EXCEPT ![sh] = "replied"]
  /\ \/ call[sh].op \in {"wait", "kill"} /\ ret' = [ret EXCEPT ![sh] = ENOENT]
     \/ call[sh].op \in Spawns /\ ret' = [ret EXCEPT ![sh] = ENOMEM]
  /\ serving' = NoShell /\ UNCHANGED <<life, code, call, tasks, ender, starter>>

(* A handle is given to the call of sh. *)
BirthStep(sh, h) ==
  /\ pc[sh] = "called" /\ call[sh].op \in Spawns
  /\ h \in Handles /\ life[h] = "unborn" /\ \A g \in Handles : life[g] = "unborn" => h <= g
  /\ life' = [life EXCEPT ![h] = "live"]
  /\ pc' = [pc EXCEPT ![sh] = "loading"] /\ call' = [call EXCEPT ![sh].h = h]
  /\ starter' = [starter EXCEPT ![h] = sh]
  /\ serving' = sh /\ UNCHANGED <<code, ret, tasks, ender>>

(* The program of sh could not be loaded. *)
FailStep(sh) ==
  /\ pc[sh] = "loading" /\ Known(call[sh].h)
  /\ life' = [life EXCEPT ![call[sh].h] = "over"] /\ code' = [code EXCEPT ![call[sh].h] = 0]
  /\ pc' = [pc EXCEPT ![sh] = "replied"] /\ ret' = [ret EXCEPT ![sh] = ENOMEM]
  /\ serving' = NoShell /\ UNCHANGED <<call, tasks, ender, starter>>

(* The program of sh runs in the background. *)
StartStep(sh) ==
  /\ pc[sh] = "loading" /\ call[sh].op = "SPAWN_BG"
  /\ pc' = [pc EXCEPT ![sh] = "replied"] /\ ret' = [ret EXCEPT ![sh] = call[sh].h]
  /\ serving' = NoShell /\ UNCHANGED <<life, code, call, tasks, ender, starter>>

(* spawnd polls for the program of sh. *)
PollStep(sh) ==
  /\ \/ pc[sh] = "loading" /\ call[sh].op = "SPAWN_WAIT"
     \/ pc[sh] = "called" /\ call[sh].op = "wait"
  /\ pc' = [pc EXCEPT ![sh] = "polling"]
  /\ serving' = sh /\ UNCHANGED <<life, code, call, ret, tasks, ender, starter>>

(* A command of sh, not about a particular operation. *)
CallStep(sh, op, h) ==
  /\ \/ op \in Spawns /\ h = 0
     \/ op \in {"wait", "kill"} /\ h \in Handles
  /\ Call(sh, op, h)

(* The parts of a call. *)
LEMMA CallType ==
  ASSUME TableType, NEW sh \in Shells
  PROVE  /\ call[sh].op \in {"none", "SPAWN_BG", "SPAWN_WAIT", "wait", "kill"} /\ call[sh].h \in Nat
         /\ call[sh] = [op |-> call[sh].op, h |-> call[sh].h]
<1>1. call[sh] \in Calls
  BY DEF TableType
<1> QED
  BY <1>1 DEF Calls

(* A call with another handle. *)
LEMMA CallHandle ==
  ASSUME TableType, NEW sh \in Shells, NEW h
  PROVE  [call EXCEPT ![sh].h = h] = [call EXCEPT ![sh] = [op |-> call[sh].op, h |-> h]]
<1>1. PICK c : c = call[sh]
  OBVIOUS
<1>2. c \in Calls
  BY <1>1 DEF TableType
<1>3. [c EXCEPT !.h = h] = [op |-> c.op, h |-> h]
  BY <1>2 DEF Calls
<1>4. [call EXCEPT ![sh].h = h] = [call EXCEPT ![sh] = [c EXCEPT !.h = h]]
  BY <1>1
<1> QED
  BY <1>1, <1>3, <1>4

(* The numbers that a handle can be. *)
LEMMA HandleType == Handles \subseteq Nat \ {0}
BY ShellJobsAssumption DEF Handles

(* An entry of a table. *)
LEMMA JobType ==
  ASSUME TableType, NEW sh \in Shells
  PROVE  /\ tasks[sh] \in Seq(Jobs) /\ DOMAIN tasks[sh] = 1 .. Len(tasks[sh]) /\ Len(tasks[sh]) \in Nat
         /\ \A k \in DOMAIN tasks[sh] : tasks[sh][k].handle \in Handles /\ tasks[sh][k].active \in BOOLEAN
<1>1. tasks[sh] \in Seq(Jobs)
  BY DEF TableType
<1>2. DOMAIN tasks[sh] = 1 .. Len(tasks[sh]) /\ Len(tasks[sh]) \in Nat
  BY <1>1, LenProperties
<1>3. ASSUME NEW k \in DOMAIN tasks[sh]
      PROVE  tasks[sh][k].handle \in Handles /\ tasks[sh][k].active \in BOOLEAN
  <2>1. tasks[sh][k] \in Jobs
    BY <1>1, <1>2, ElementOfSeq
  <2> QED
    BY <2>1 DEF Jobs
<1> QED
  BY <1>1, <1>2, <1>3

(* Every step of spawnd for a shell is one of these. *)
LEMMA ServeCases ==
  ASSUME JobInv, NEW sh \in Shells, Serve(sh)
  PROVE  \/ RefuseStep(sh) \/ FailStep(sh) \/ StartStep(sh) \/ PollStep(sh)
         \/ \E h \in Handles : EndStep(sh, h) \/ BirthStep(sh, h)
<1> USE DEF JobInv
<1>1. CASE serve_spawn(sh)
  <2>1. CASE S!OtherReply /\ Reply(sh, ENOMEM) /\ UNCHANGED <<call, starter>>
    BY <1>1, <2>1 DEF serve_spawn, RefuseStep, Reply, S!OtherReply, Spawns
  <2>2. CASE /\ \E h \in Handles :
                  /\ \A g \in Handles : life[g] = "unborn" => h <= g
                  /\ S!Spawn(h)
                  /\ call' = [call EXCEPT ![sh].h = h]
                  /\ starter' = [starter EXCEPT ![h] = sh]
             /\ Hold(sh, "loading")
    <3>1. PICK h \in Handles : /\ \A g \in Handles : life[g] = "unborn" => h <= g
                               /\ S!Spawn(h)
                               /\ call' = [call EXCEPT ![sh].h = h]
                               /\ starter' = [starter EXCEPT ![h] = sh]
      BY <2>2
    <3>2. BirthStep(sh, h)
      BY <1>1, <2>2, <3>1 DEF serve_spawn, BirthStep, Hold, S!Spawn, Spawns
    <3> QED
      BY <3>2
  <2> QED
    BY <1>1, <2>1, <2>2 DEF serve_spawn
<1>2. CASE serve_loaded(sh)
  <2>1. CASE S!Discard(call[sh].h) /\ Reply(sh, ENOMEM)
    BY <1>2, <2>1 DEF serve_loaded, history, FailStep, Reply, S!Discard, Known
  <2>2. CASE call[sh].op = "SPAWN_BG" /\ S!OtherReply /\ Reply(sh, call[sh].h)
    BY <1>2, <2>2 DEF serve_loaded, history, StartStep, Reply, S!OtherReply
  <2>3. CASE call[sh].op = "SPAWN_WAIT" /\ Hold(sh, "polling") /\ UNCHANGED <<life, code, answer>>
    BY <1>2, <2>3 DEF serve_loaded, history, PollStep, Hold
  <2> QED
    BY <1>2, <2>1, <2>2, <2>3 DEF serve_loaded
<1>3. CASE serve_wait(sh)
  <2>0. call[sh].h \in Handles
    BY <1>3 DEF serve_wait, CallInv
  <2>1. CASE S!OtherReply /\ Reply(sh, ENOENT) /\ UNCHANGED ender
    BY <1>3, <2>1 DEF serve_wait, RefuseStep, Reply, S!OtherReply
  <2>2. CASE /\ life[call[sh].h] = "exited" /\ S!Collect(call[sh].h)
             /\ Reply(sh, code[call[sh].h]) /\ Ended(sh, call[sh].h)
    <3>1. code[call[sh].h] \in Codes
      BY <2>0, <2>2 DEF CodeInv
    <3>2. EndStep(sh, call[sh].h)
      BY <1>3, <2>0, <2>2, <3>1 DEF serve_wait, EndStep, Reply, Ended, S!Collect, Known
    <3> QED
      BY <2>0, <3>2
  <2>3. CASE Hold(sh, "polling") /\ UNCHANGED <<life, code, answer, ender>>
    BY <1>3, <2>3 DEF serve_wait, PollStep, Hold
  <2> QED
    BY <1>3, <2>1, <2>2, <2>3 DEF serve_wait
<1>4. CASE serve_polled(sh)
  <2>1. call[sh].h \in Handles /\ code[call[sh].h] \in Codes
    BY <1>4 DEF serve_polled, CallInv, CodeInv
  <2>2. call[sh].op \in {"wait", "kill"} \cup Spawns
    BY <1>4 DEF serve_polled, CallInv, Spawns
  <2>3. EndStep(sh, call[sh].h)
    BY <1>4, <2>1, <2>2 DEF serve_polled, EndStep, Reply, Ended, S!Collect, Known
  <2> QED
    BY <2>1, <2>3
<1>5. CASE serve_kill(sh)
  <2>0. call[sh].h \in Handles
    BY <1>5 DEF serve_kill, CallInv
  <2>1. CASE S!OtherReply /\ Reply(sh, ENOENT) /\ UNCHANGED ender
    BY <1>5, <2>1 DEF serve_kill, RefuseStep, Reply, S!OtherReply
  <2>2. CASE Known(call[sh].h) /\ S!Discard(call[sh].h) /\ Reply(sh, 0) /\ Ended(sh, call[sh].h)
    <3>1. EndStep(sh, call[sh].h)
      BY <1>5, <2>0, <2>2 DEF serve_kill, EndStep, Reply, Ended, S!Discard, Known
    <3> QED
      BY <2>0, <3>1
  <2> QED
    BY <1>5, <2>1, <2>2 DEF serve_kill
<1> QED
  BY <1>1, <1>2, <1>3, <1>4, <1>5 DEF Serve

-----------------------------------------------------------------------------
(* The invariant of the handles and tables *)

(* The call of sh has ended a handle. *)
LEMMA EndJob ==
  ASSUME JobInv, NEW sh \in Shells, NEW h \in Handles, EndStep(sh, h)
  PROVE  JobInv'
<1> USE DEF JobInv, EndStep, Spawns
<1>1. TableType'
  <2>1. PICK r \in Codes \cup {0} : ret' = [ret EXCEPT ![sh] = r]
    OBVIOUS
  <2>2. r \in Int
    BY ShellJobsAssumption
  <2> QED
    BY <2>1, <2>2 DEF TableType
<1>2. BirthInv' /\ CodeInv'
  BY DEF TableType, BirthInv, CodeInv, Known
<1>3. CallInv'
  BY DEF TableType, CallInv, Known
<1>4. HeldInv'
  BY DEF TableType, HeldInv, Fresh, Held, CallInv
<1>5. OrderInv'
  BY DEF TableType, OrderInv
<1> QED
  BY <1>1, <1>2, <1>3, <1>4, <1>5

(* The call of sh is refused. *)
LEMMA RefuseJob ==
  ASSUME JobInv, NEW sh \in Shells, RefuseStep(sh)
  PROVE  JobInv'
<1> USE DEF JobInv, RefuseStep, ENOENT, ENOMEM, Spawns
<1>1. TableType'
  BY DEF TableType
<1>2. BirthInv' /\ CodeInv'
  BY DEF BirthInv, CodeInv
<1>3. CallInv'
  BY DEF TableType, CallInv
<1>4. HeldInv'
  BY DEF TableType, HeldInv, Fresh, Held
<1>5. OrderInv'
  BY DEF OrderInv
<1> QED
  BY <1>1, <1>2, <1>3, <1>4, <1>5

(* A handle is given to the call of sh: it is younger than all others. *)
LEMMA BirthJob ==
  ASSUME JobInv, NEW sh \in Shells, NEW h \in Handles, BirthStep(sh, h)
  PROVE  JobInv'
<1> USE DEF JobInv, BirthStep, Spawns
<1>1. TableType'
  <2>1. [op |-> call[sh].op, h |-> h] \in Calls
    BY CallType, HandleType DEF Calls
  <2>2. call' = [call EXCEPT ![sh] = [op |-> call[sh].op, h |-> h]]
    BY CallHandle
  <2>3. call' \in [Shells -> Calls]
    BY <2>1, <2>2 DEF TableType
  <2> QED
    BY <2>3 DEF TableType
<1>2. BirthInv' /\ CodeInv'
  BY ShellJobsAssumption DEF TableType, BirthInv, CodeInv, Handles
<1>3. CallInv'
  BY DEF TableType, CallInv
<1>4. \A g \in Handles : life[g] # "unborn" => g < h
  BY ShellJobsAssumption DEF BirthInv, Handles
<1>5. HeldInv'
  <2>1. call' = [call EXCEPT ![sh] = [op |-> call[sh].op, h |-> h]]
    BY CallHandle
  <2>2. ~Fresh(sh) /\ \A u \in Shells : u # sh => Fresh(u)' = Fresh(u) /\ call'[u] = call[u]
    BY <2>1 DEF Fresh, Held, TableType
  <2>3. \A u \in Shells : \A k \in DOMAIN tasks[u] :
          tasks[u][k].handle \in Handles /\ life[tasks[u][k].handle] # "unborn"
    BY JobType DEF OrderInv
  <2>4. \A u \in Shells : \A k \in DOMAIN tasks[u] : tasks[u][k].handle < h
    BY <1>4, <2>3
  <2>5. call'[sh].h = h
    BY <2>1 DEF TableType
  <2>6. \A g \in Handles : g < h => g # h
    BY DEF Handles
  <2>7. \A u \in Shells : u # sh /\ Fresh(u) => call[u].h # h /\ life'[call[u].h] # "unborn"
    BY DEF HeldInv, TableType
  <2>8. life'[h] # "unborn"
    BY DEF TableType
  <2>9. \A u \in Shells : \A k \in DOMAIN tasks[u] : tasks[u][k].handle # h
    BY <2>3, <2>4, <2>6
  <2> QED
    BY <2>2, <2>4, <2>5, <2>7, <2>8, <2>9 DEF HeldInv
<1>6. OrderInv'
  BY DEF TableType, OrderInv
<1> QED
  BY <1>1, <1>2, <1>3, <1>5, <1>6

(* The program of sh could not be loaded. *)
LEMMA FailJob ==
  ASSUME JobInv, NEW sh \in Shells, FailStep(sh)
  PROVE  JobInv'
<1> USE DEF JobInv, FailStep, ENOMEM
<1>2. call[sh].h \in Handles
  BY DEF CallInv
<1>1. TableType'
  BY <1>2 DEF TableType
<1>3. BirthInv' /\ CodeInv'
  BY <1>2 DEF TableType, BirthInv, CodeInv, Known
<1>4. CallInv'
  BY <1>2 DEF TableType, CallInv, Spawns
<1>5. HeldInv'
  BY DEF TableType, HeldInv, Fresh, Held
<1>6. OrderInv'
  BY <1>2 DEF TableType, OrderInv
<1> QED
  BY <1>1, <1>3, <1>4, <1>5, <1>6

(* The program of sh runs in the background. *)
LEMMA StartJob ==
  ASSUME JobInv, NEW sh \in Shells, StartStep(sh)
  PROVE  JobInv'
<1> USE DEF JobInv, StartStep
<1>1. TableType'
  BY CallType DEF TableType
<1>2. BirthInv' /\ CodeInv'
  BY DEF BirthInv, CodeInv
<1>3. CallInv'
  BY DEF TableType, CallInv
<1>4. HeldInv'
  BY DEF TableType, HeldInv, Fresh, Held
<1>5. OrderInv'
  BY DEF OrderInv
<1> QED
  BY <1>1, <1>2, <1>3, <1>4, <1>5

(* spawnd polls for the program of sh. *)
LEMMA PollJob ==
  ASSUME JobInv, NEW sh \in Shells, PollStep(sh)
  PROVE  JobInv'
<1> USE DEF JobInv, PollStep
<1>1. TableType'
  BY DEF TableType
<1>2. BirthInv' /\ CodeInv'
  BY DEF BirthInv, CodeInv
<1>3. CallInv'
  BY DEF TableType, CallInv
<1>4. HeldInv'
  BY DEF TableType, HeldInv, Fresh, Held
<1>5. OrderInv'
  BY DEF OrderInv
<1> QED
  BY <1>1, <1>2, <1>3, <1>4, <1>5

(* A command sends its call. *)
LEMMA CallJob ==
  ASSUME JobInv, NEW sh \in Shells, NEW op, NEW h, CallStep(sh, op, h)
  PROVE  JobInv'
<1>0. [op |-> op, h |-> h] \in Calls
  <2>0. (op \in Spawns /\ h = 0) \/ (op \in {"wait", "kill"} /\ h \in Handles)
    BY Zenon DEF CallStep
  <2>1. op \in {"none", "SPAWN_BG", "SPAWN_WAIT", "wait", "kill"} /\ h \in Nat
    <3>1. 0 \in Nat /\ \A g \in Handles : g \in Nat
      BY HandleType
    <3> QED
      BY <2>0, <3>1, Zenon DEF Spawns
  <2> QED
    BY <2>1, Zenon DEF Calls
<1> USE DEF JobInv, CallStep, Call, spawndVars, Spawns
<1>1. TableType'
  <2>1. call' \in [Shells -> Calls]
    BY <1>0 DEF TableType
  <2> QED
    BY <2>1 DEF TableType, history
<1>2. BirthInv' /\ CodeInv'
  BY DEF BirthInv, CodeInv
<1>3. CallInv'
  BY DEF TableType, CallInv
<1>4. HeldInv'
  BY DEF TableType, HeldInv, Fresh, Held
<1>5. OrderInv'
  BY DEF OrderInv
<1> QED
  BY <1>1, <1>2, <1>3, <1>4, <1>5

(* A program ends. *)
LEMMA ExitJob ==
  ASSUME JobInv, NEW h \in Handles, NEW c \in Codes, ChildExit(h, c)
  PROVE  JobInv'
<1> USE DEF JobInv, ChildExit, shellVars
<1>1. TableType'
  BY ShellJobsAssumption DEF TableType, history
<1>2. BirthInv' /\ CodeInv'
  BY DEF TableType, BirthInv, CodeInv
<1>3. CallInv'
  BY DEF TableType, CallInv
<1>4. HeldInv'
  BY DEF TableType, HeldInv, Fresh, Held
<1>5. OrderInv'
  BY DEF TableType, OrderInv
<1> QED
  BY <1>1, <1>2, <1>3, <1>4, <1>5

-----------------------------------------------------------------------------
(* The end of a command *)

(* The table of a shell that goes back to its prompt: the same entries, of    *)
(* which the one that its call has ended is no longer active, and maybe a     *)
(* new one.                                                                 *)
Kept(sh, k) ==
  /\ k \in DOMAIN tasks'[sh] /\ tasks'[sh][k].handle = tasks[sh][k].handle
  /\ \/ Ending(sh, tasks[sh][k].handle) /\ tasks'[sh][k].active = FALSE
     \/ ~Ending(sh, tasks[sh][k].handle) /\ tasks'[sh][k].active = tasks[sh][k].active

Added(sh, k) == Held(sh) /\ tasks'[sh][k] = [handle |-> call[sh].h, active |-> TRUE]

(* A new entry. *)
LEMMA RegisterTable ==
  ASSUME JobInv, NEW sh \in Shells, Held(sh), ~(pc[sh] = "loading"), NEW h, h = call[sh].h,
         Len(tasks[sh]) < MAX_TASKS,
         tasks' = [tasks EXCEPT ![sh] = Append(@, [handle |-> h, active |-> TRUE])]
  PROVE  /\ tasks' \in [Shells -> Seq(Jobs)]
         /\ \A k \in DOMAIN tasks[sh] : Kept(sh, k)
         /\ DOMAIN tasks'[sh] = 1 .. Len(tasks[sh]) + 1
         /\ Added(sh, Len(tasks[sh]) + 1)
<1> DEFINE e == [handle |-> h, active |-> TRUE]
<1>1. h \in Handles /\ ~\E g : Ending(sh, g)
  BY DEF JobInv, CallInv, Held, Ending
<1>2. e \in Jobs
  BY <1>1 DEF Jobs
<1>3. /\ tasks[sh] \in Seq(Jobs) /\ DOMAIN tasks[sh] = 1 .. Len(tasks[sh]) /\ Len(tasks[sh]) \in Nat
  BY JobType DEF JobInv
<1>4. tasks'[sh] = Append(tasks[sh], e) /\ DOMAIN tasks = Shells
  BY DEF JobInv, TableType
<1> HIDE DEF e
<1>5. /\ tasks'[sh] \in Seq(Jobs) /\ DOMAIN tasks'[sh] = 1 .. Len(tasks[sh]) + 1
      /\ tasks'[sh][Len(tasks[sh]) + 1] = e
      /\ \A k \in 1 .. Len(tasks[sh]) : tasks'[sh][k] = tasks[sh][k]
  <2>1. PICK s \in Seq(Jobs) : s = tasks[sh]
    BY <1>3
  <2>2. /\ Append(s, e) \in Seq(Jobs) /\ DOMAIN Append(s, e) = 1 .. Len(s) + 1
        /\ Append(s, e)[Len(s) + 1] = e /\ \A k \in 1 .. Len(s) : Append(s, e)[k] = s[k]
    BY <1>2, AppendProperties, LenProperties
  <2> QED
    BY <1>4, <2>1, <2>2
<1>6. tasks' \in [Shells -> Seq(Jobs)]
  <2>1. tasks' = [tasks EXCEPT ![sh] = tasks'[sh]]
    BY <1>4 DEF e
  <2> QED
    BY <1>5, <2>1 DEF JobInv, TableType
<1>7. \A k \in DOMAIN tasks[sh] : Kept(sh, k)
  <2>1. \A k \in DOMAIN tasks[sh] : k \in DOMAIN tasks'[sh] /\ tasks'[sh][k] = tasks[sh][k]
    BY <1>3, <1>5
  <2> QED
    BY <1>1, <2>1, Zenon DEF Kept
<1>8. Added(sh, Len(tasks[sh]) + 1)
  BY <1>5 DEF Added, e
<1> QED
  BY <1>5, <1>6, <1>7, <1>8

(* An entry that is no longer active. *)
LEMMA UnregisterTable ==
  ASSUME JobInv, NEW sh \in Shells, NEW h, Ending(sh, h), tasks' = Unregistered(sh, h)
  PROVE  /\ tasks' \in [Shells -> Seq(Jobs)]
         /\ \A k \in DOMAIN tasks[sh] : Kept(sh, k)
         /\ DOMAIN tasks'[sh] = DOMAIN tasks[sh]
<1>1. /\ tasks[sh] \in Seq(Jobs) /\ DOMAIN tasks[sh] = 1 .. Len(tasks[sh]) /\ Len(tasks[sh]) \in Nat
      /\ \A k \in DOMAIN tasks[sh] : tasks[sh][k].handle \in Handles /\ tasks[sh][k].active \in BOOLEAN
  BY JobType DEF JobInv
<1>2. PICK f : f = [k \in DOMAIN tasks[sh] |->
                      IF Lists(sh, k, h) /\ \A j \in 1 .. k - 1 : ~Lists(sh, j, h)
                      THEN [tasks[sh][k] EXCEPT !.active = FALSE] ELSE tasks[sh][k]]
  OBVIOUS
<1>3. tasks' = [tasks EXCEPT ![sh] = f] /\ DOMAIN tasks = Shells
  BY <1>2 DEF Unregistered, JobInv, TableType
<1>4. ASSUME NEW k \in DOMAIN tasks[sh]
      PROVE  /\ f[k] \in Jobs /\ f[k].handle = tasks[sh][k].handle
             /\ \/ tasks[sh][k].handle = h /\ f[k].active = FALSE
                \/ tasks[sh][k].handle # h /\ f[k] = tasks[sh][k]
  <2>1. PICK e : e = tasks[sh][k]
    OBVIOUS
  <2>2. e \in Jobs
    BY <1>1, <2>1, ElementOfSeq
  <2>3. CASE e.handle = h /\ e.active
    <3>1. \A j \in 1 .. k - 1 : j \in DOMAIN tasks[sh] /\ j < k
      BY <1>1
    <3>2. \A j \in 1 .. k - 1 : tasks[sh][j].handle < h
      BY <2>1, <2>3, <3>1 DEF JobInv, OrderInv
    <3>0. \A g \in Handles : ~(g < g)
      BY HandleType
    <3>3. \A j \in 1 .. k - 1 : tasks[sh][j].handle # h
      BY <1>1, <3>0, <3>1, <3>2
    <3>4. f[k] = [e EXCEPT !.active = FALSE]
      BY <1>2, <2>1, <2>3, <3>3 DEF Lists
    <3> QED
      BY <2>1, <2>2, <2>3, <3>4 DEF Jobs
  <2>4. CASE e.handle = h /\ ~e.active
    <3>1. f[k] = e
      BY <1>2, <2>1, <2>4 DEF Lists
    <3>2. e.active = FALSE
      BY <2>2, <2>4 DEF Jobs
    <3> QED
      BY <2>1, <2>2, <2>4, <3>1, <3>2
  <2>5. CASE e.handle # h
    <3>1. f[k] = e
      BY <1>2, <2>1, <2>5 DEF Lists
    <3> QED
      BY <2>1, <2>2, <2>5, <3>1
  <2> QED
    BY <2>3, <2>4, <2>5
<1>5. f \in Seq(Jobs) /\ DOMAIN f = DOMAIN tasks[sh]
  <2>1. PICK n : n = Len(tasks[sh])
    OBVIOUS
  <2>2. n \in Nat /\ DOMAIN f = 1 .. n /\ (\A k \in 1 .. n : f[k] \in Jobs) /\ DOMAIN f = DOMAIN tasks[sh]
    BY <1>1, <1>2, <1>4, <2>1
  <2>3. f = [k \in 1 .. n |-> f[k]]
    BY <1>2, <2>2
  <2> QED
    BY <2>2, <2>3
<1>6. tasks'[sh] = f /\ tasks' \in [Shells -> Seq(Jobs)]
  BY <1>3, <1>5 DEF JobInv, TableType
<1>7. \A g : Ending(sh, g) <=> g = h
  BY DEF Ending
<1>8. \A k \in DOMAIN tasks[sh] : Kept(sh, k)
  BY <1>4, <1>5, <1>6, <1>7 DEF Kept
<1> QED
  BY <1>5, <1>6, <1>8

(* All of them together. *)
LEMMA FinishTable ==
  ASSUME JobInv, NEW sh \in Shells, Finish(sh)
  PROVE  /\ tasks' \in [Shells -> Seq(Jobs)]
         /\ \A u \in Shells : u # sh => tasks'[u] = tasks[u]
         /\ \A k \in DOMAIN tasks[sh] : Kept(sh, k)
         /\ \A k \in DOMAIN tasks'[sh] :
              k \in DOMAIN tasks[sh] \/ (Len(tasks[sh]) < MAX_TASKS /\ k = Len(tasks[sh]) + 1 /\ Added(sh, k))
         /\ Held(sh) => \/ Len(tasks[sh]) >= MAX_TASKS
                        \/ \E k \in DOMAIN tasks'[sh] : Added(sh, k)
<1>0. pc[sh] = "replied" /\ tasks' = TasksAfter(sh)
  BY DEF Finish
<1>1. /\ tasks[sh] \in Seq(Jobs) /\ DOMAIN tasks[sh] = 1 .. Len(tasks[sh]) /\ Len(tasks[sh]) \in Nat
  BY JobType DEF JobInv
<1>2. CASE tasks' = tasks /\ ~(\E g : Ending(sh, g)) /\ (Held(sh) => Len(tasks[sh]) >= MAX_TASKS)
  BY <1>2 DEF Kept, JobInv, TableType
<1>3. CASE call[sh].op = "SPAWN_BG" /\ ret[sh] >= 0
  <2>1. Held(sh) /\ ret[sh] = call[sh].h /\ ~\E g : Ending(sh, g)
    BY <1>0, <1>3 DEF Held, JobInv, CallInv, Ending
  <2>2. tasks' = Registered(sh, ret[sh])
    BY <1>0, <1>3 DEF TasksAfter
  <2>3. CASE Len(tasks[sh]) < MAX_TASKS
    <3>1. tasks' = [tasks EXCEPT ![sh] = Append(@, [handle |-> ret[sh], active |-> TRUE])]
      BY <2>2, <2>3 DEF Registered
    <3>2. /\ tasks' \in [Shells -> Seq(Jobs)]
          /\ \A k \in DOMAIN tasks[sh] : Kept(sh, k)
          /\ DOMAIN tasks'[sh] = 1 .. Len(tasks[sh]) + 1
          /\ Added(sh, Len(tasks[sh]) + 1)
      BY <1>0, <2>1, <2>3, <3>1, RegisterTable
    <3>3. \A u \in Shells : u # sh => tasks'[u] = tasks[u]
      BY <3>1 DEF JobInv, TableType
    <3>4. ASSUME NEW k \in DOMAIN tasks'[sh]
          PROVE  k \in DOMAIN tasks[sh] \/ k = Len(tasks[sh]) + 1
      BY <1>1, <3>2
    <3>5. Len(tasks[sh]) + 1 \in DOMAIN tasks'[sh]
      BY <1>1, <3>2
    <3> QED
      BY <2>3, <3>2, <3>3, <3>4, <3>5, Zenon
  <2>4. CASE ~(Len(tasks[sh]) < MAX_TASKS)
    <3>1. tasks' = tasks
      BY <2>2, <2>4 DEF Registered
    <3>2. Len(tasks[sh]) >= MAX_TASKS
      BY <1>1, <2>4, ShellJobsAssumption
    <3> QED
      BY <1>2, <2>1, <3>1, <3>2
  <2> QED
    BY <2>3, <2>4
<1>4. CASE call[sh].op \in {"wait", "kill"} /\ ret[sh] # ENOENT
  <2>1. Ending(sh, call[sh].h) /\ ~Held(sh)
    BY <1>0, <1>4 DEF Ending, Held
  <2>2. tasks' = Unregistered(sh, call[sh].h)
    BY <1>0, <1>4 DEF TasksAfter
  <2>3. /\ tasks' \in [Shells -> Seq(Jobs)]
        /\ \A k \in DOMAIN tasks[sh] : Kept(sh, k)
        /\ DOMAIN tasks'[sh] = DOMAIN tasks[sh]
    BY <2>1, <2>2, UnregisterTable
  <2>4. \A u \in Shells : u # sh => tasks'[u] = tasks[u]
    BY <2>2 DEF JobInv, TableType, Unregistered
  <2> QED
    BY <2>1, <2>3, <2>4
<1>5. CASE /\ ~(call[sh].op = "SPAWN_BG" /\ ret[sh] >= 0)
           /\ ~(call[sh].op \in {"wait", "kill"} /\ ret[sh] # ENOENT)
  <2>1. tasks' = tasks
    BY <1>0, <1>5 DEF TasksAfter
  <2>2. ~Held(sh) /\ ~\E g : Ending(sh, g)
    BY <1>0, <1>5 DEF Held, Ending
  <2> QED
    BY <1>2, <2>1, <2>2
<1> QED
  BY <1>3, <1>4, <1>5

(* A shell with n entries has had n handles before the one it holds. *)
LEMMA HeldRoom ==
  ASSUME JobInv, NEW sh \in Shells, Held(sh)
  PROVE  Len(tasks[sh]) + 1 <= call[sh].h /\ call[sh].h \in Handles
<1> USE DEF JobInv
<1>1. PICK n : n = Len(tasks[sh])
  OBVIOUS
<1>2. /\ n \in Nat /\ DOMAIN tasks[sh] = 1 .. n
      /\ \A k \in 1 .. n : tasks[sh][k].handle \in Handles
  BY <1>1, JobType
<1>3. call[sh].h \in Handles /\ call[sh].h \in Nat \ {0}
  <2>1. call[sh].h \in Handles
    BY DEF Held, CallInv
  <2> QED
    BY <2>1, HandleType
<1>4. CASE n = 0
  BY <1>1, <1>3, <1>4
<1>5. CASE n # 0
  <2>1. n \in 1 .. n /\ n \in DOMAIN tasks[sh]
    BY <1>2, <1>5
  <2>2. n <= tasks[sh][n].handle /\ tasks[sh][n].handle \in Nat
    BY <1>2, <2>1, HandleType DEF OrderInv
  <2>3. tasks[sh][n].handle < call[sh].h
    BY <2>1 DEF HeldInv, Fresh
  <2> QED
    BY <1>1, <1>2, <1>3, <2>2, <2>3
<1> QED
  BY <1>4, <1>5

(* The tables and handles stay in order when a command ends. *)
LEMMA FinishJob ==
  ASSUME JobInv, NEW sh \in Shells, Finish(sh)
  PROVE  JobInv'
<1>0. /\ pc[sh] = "replied" /\ pc' = [pc EXCEPT ![sh] = "prompt"]
      /\ call' = [call EXCEPT ![sh] = [op |-> "none", h |-> 0]] /\ ret' = [ret EXCEPT ![sh] = 0]
      /\ UNCHANGED <<life, code, serving, ender, starter>>
  BY DEF Finish, spawndVars, history
<1> USE DEF JobInv
<1>1. /\ tasks' \in [Shells -> Seq(Jobs)]
      /\ \A u \in Shells : u # sh => tasks'[u] = tasks[u]
      /\ \A k \in DOMAIN tasks[sh] : Kept(sh, k)
      /\ \A k \in DOMAIN tasks'[sh] :
           k \in DOMAIN tasks[sh] \/ (Len(tasks[sh]) < MAX_TASKS /\ k = Len(tasks[sh]) + 1 /\ Added(sh, k))
  BY FinishTable
<1>2. TableType'
  <2>1. [op |-> "none", h |-> 0] \in Calls
    <3>1. 0 \in Nat /\ "none" \in {"none", "SPAWN_BG", "SPAWN_WAIT", "wait", "kill"}
      OBVIOUS
    <3> QED
      BY <3>1, Zenon DEF Calls
  <2>2. call' \in [Shells -> Calls]
    BY <1>0, <2>1 DEF TableType
  <2> QED
    BY <1>0, <1>1, <2>2 DEF TableType
<1>3. BirthInv' /\ CodeInv'
  BY <1>0 DEF BirthInv, CodeInv
<1>4. CallInv'
  BY <1>0 DEF TableType, CallInv
<1>5. \A k \in DOMAIN tasks'[sh] :
        \/ k \in DOMAIN tasks[sh] /\ tasks'[sh][k].handle = tasks[sh][k].handle
        \/ k = Len(tasks[sh]) + 1 /\ Held(sh) /\ tasks'[sh][k].handle = call[sh].h
  BY <1>1 DEF Kept, Added
<1>6. \A u \in Shells : u # sh => Fresh(u)' = Fresh(u) /\ call'[u] = call[u]
  BY <1>0 DEF Fresh, Held, TableType
<1>7. ~Fresh(sh)'
  BY <1>0 DEF Fresh, Held, TableType
<1>8. HeldInv'
  <2> SUFFICES ASSUME NEW u \in Shells, u # sh, Fresh(u)
               PROVE  /\ life[call[u].h] # "unborn"
                      /\ \A v \in Shells : \A k \in DOMAIN tasks'[v] : tasks'[v][k].handle # call[u].h
                      /\ \A v \in Shells : v # u /\ Fresh(v)' => call'[v].h # call[u].h
                      /\ \A k \in DOMAIN tasks'[u] : tasks'[u][k].handle < call[u].h
    BY <1>0, <1>6, <1>7 DEF HeldInv
  <2>1. \A v \in Shells : v # u /\ Fresh(v)' => call'[v].h # call[u].h
    BY <1>6, <1>7 DEF HeldInv
  <2>2. /\ life[call[u].h] # "unborn"
        /\ \A k \in DOMAIN tasks'[u] : tasks'[u][k].handle < call[u].h
    BY <1>1 DEF HeldInv
  <2>3. \A v \in Shells : v # sh => \A k \in DOMAIN tasks'[v] : tasks'[v][k].handle # call[u].h
    BY <1>1 DEF HeldInv
  <2>4. \A k \in DOMAIN tasks'[sh] : tasks'[sh][k].handle # call[u].h
    BY <1>5 DEF HeldInv, Fresh
  <2> QED
    BY <2>1, <2>2, <2>3, <2>4
<1>9. OrderInv'
  <2>1. ASSUME NEW u \in Shells, u # sh
        PROVE  /\ \A k \in DOMAIN tasks'[u] : life[tasks'[u][k].handle] # "unborn" /\ k <= tasks'[u][k].handle
               /\ \A j, k \in DOMAIN tasks'[u] : j < k => tasks'[u][j].handle < tasks'[u][k].handle
    BY <1>1, <2>1 DEF OrderInv
  <2>2. PICK n : n = Len(tasks[sh])
    OBVIOUS
  <2>3. /\ n \in Nat /\ DOMAIN tasks[sh] = 1 .. n
        /\ \A k \in 1 .. n : tasks[sh][k].handle \in Handles
    BY <2>2, JobType
  <2>4. Held(sh) => /\ life[call[sh].h] # "unborn" /\ \A k \in 1 .. n : tasks[sh][k].handle < call[sh].h
                    /\ call[sh].h \in Nat \ {0}
    <3>1. Held(sh) => call[sh].h \in Handles
      BY DEF Held, CallInv
    <3> QED
      BY <2>3, <3>1, HandleType DEF HeldInv, Fresh
  <2>5. Held(sh) => n + 1 <= call[sh].h
    BY <2>2, HeldRoom
  <2>6. \A k \in DOMAIN tasks'[sh] :
          /\ k \in 1 .. n => tasks'[sh][k].handle = tasks[sh][k].handle
          /\ k \notin 1 .. n => k = n + 1 /\ Held(sh) /\ tasks'[sh][k].handle = call[sh].h
    <3>1. n + 1 \notin 1 .. n
      BY <2>3
    <3> QED
      BY <1>5, <2>2, <2>3, <3>1
  <2>7. ASSUME NEW k \in DOMAIN tasks'[sh]
        PROVE  life[tasks'[sh][k].handle] # "unborn" /\ k <= tasks'[sh][k].handle
    <3>1. CASE k \in 1 .. n
      BY <2>3, <2>6, <3>1 DEF OrderInv
    <3>2. CASE k \notin 1 .. n
      BY <2>4, <2>5, <2>6, <3>2
    <3> QED
      BY <3>1, <3>2
  <2>8. ASSUME NEW j \in DOMAIN tasks'[sh], NEW k \in DOMAIN tasks'[sh], j < k
        PROVE  tasks'[sh][j].handle < tasks'[sh][k].handle
    <3>1. CASE k \in 1 .. n
      <4>1. j \in 1 .. n
        BY <2>3, <2>6, <2>8, <3>1
      <4> QED
        BY <2>3, <2>6, <2>8, <3>1, <4>1 DEF OrderInv
    <3>2. CASE k \notin 1 .. n
      <4>1. j \in 1 .. n
        BY <2>3, <2>6, <2>8, <3>2
      <4> QED
        BY <2>4, <2>6, <3>2, <4>1
    <3> QED
      BY <3>1, <3>2
  <2> QED
    BY <1>0, <2>1, <2>7, <2>8 DEF OrderInv
<1> QED
  BY <1>2, <1>3, <1>4, <1>8, <1>9

(* A step that changes nothing. *)
LEMMA StutterJob ==
  ASSUME JobInv, UNCHANGED vars
  PROVE  JobInv'
<1>1. UNCHANGED <<life, code, serving, pc, call, ret, tasks, ender, starter>>
  BY DEF vars, spawndVars, shellVars, history
<1> QED
  BY <1>1 DEF JobInv, TableType, BirthInv, CodeInv, CallInv, HeldInv, Fresh, Held, OrderInv

(* Every step of the shells and of spawnd is one of those above. *)
LEMMA StepCases ==
  ASSUME JobInv, [Next]_vars
  PROVE  \/ \E sh \in Shells :
              \/ RefuseStep(sh) \/ FailStep(sh) \/ StartStep(sh) \/ PollStep(sh) \/ Finish(sh)
              \/ \E h \in Handles : EndStep(sh, h) \/ BirthStep(sh, h)
              \/ \E op, h : CallStep(sh, op, h)
         \/ \E h \in Handles, c \in Codes : ChildExit(h, c)
         \/ UNCHANGED vars
<1>1. ASSUME NEW sh \in Shells, Command(sh)
      PROVE  \E op, h : CallStep(sh, op, h)
  <2>1. ASSUME NEW background \in BOOLEAN, cmd_run(sh, background)
        PROVE  \E op \in Spawns : Call(sh, op, 0)
    BY <2>1, Zenon DEF cmd_run, Spawns
  <2>2. ASSUME NEW h \in Handles, cmd_wait(sh, h) \/ cmd_kill(sh, h)
        PROVE  \E op \in {"wait", "kill"} : Call(sh, op, h)
    BY <2>2, Zenon DEF cmd_wait, cmd_kill
  <2> QED
    BY <1>1, <2>1, <2>2, Zenon DEF Command, CallStep
<1> QED
  BY <1>1, ServeCases, Zenon DEF Next

(* Every step keeps the tables and handles in order. *)
LEMMA StepJob == JobInv /\ [Next]_vars => JobInv'
<1> SUFFICES ASSUME JobInv, [Next]_vars PROVE JobInv'
  OBVIOUS
<1> QED
  BY StepCases, RefuseJob, FailJob, StartJob, PollJob, FinishJob, EndJob, BirthJob, CallJob, ExitJob,
     StutterJob, Zenon

-----------------------------------------------------------------------------
(* No child is lost *)

(* What a step that leaves the tables alone must do. *)
LEMMA KeptSame ==
  ASSUME KeptInv, tasks' = tasks,
         \A h \in Handles : Known(h)' =>
            \/ \E sh \in Shells : sh = starter'[h] /\ Starting(sh, h)'
            \/ /\ Known(h) /\ starter'[h] = starter[h]
               /\ \A sh \in Shells : Starting(sh, h) => Starting(sh, h)'
  PROVE  KeptInv'
<1>1. ASSUME NEW sh \in Shells
      PROVE  Listed(sh)' = Listed(sh) /\ \A h : TurnedAway(sh, h) => TurnedAway(sh, h)'
  BY DEF Listed, TurnedAway
<1>2. ASSUME NEW h \in Handles, Known(h)'
      PROVE  \E sh \in Shells :
               sh = starter'[h] /\ (Starting(sh, h)' \/ h \in Listed(sh)' \/ TurnedAway(sh, h)')
  <2>1. CASE \E sh \in Shells : sh = starter'[h] /\ Starting(sh, h)'
    BY <2>1
  <2>2. CASE /\ Known(h) /\ starter'[h] = starter[h]
             /\ \A sh \in Shells : Starting(sh, h) => Starting(sh, h)'
    <3>1. PICK sh \in Shells :
            sh = starter[h] /\ (Starting(sh, h) \/ h \in Listed(sh) \/ TurnedAway(sh, h))
      BY <2>2 DEF KeptInv
    <3> QED
      BY <1>1, <2>2, <3>1
  <2> QED
    BY <1>2, <2>1, <2>2
<1> QED
  BY <1>2 DEF KeptInv

(* When a command ends, what it started is in the table, if there is room,    *)
(* and otherwise the table is full of older jobs.                            *)
LEMMA FinishKept ==
  ASSUME JobInv, KeptInv, NEW sh \in Shells, Finish(sh)
  PROVE  KeptInv'
<1>0. /\ pc[sh] = "replied" /\ pc' = [pc EXCEPT ![sh] = "prompt"]
      /\ call' = [call EXCEPT ![sh] = [op |-> "none", h |-> 0]] /\ ret' = [ret EXCEPT ![sh] = 0]
      /\ UNCHANGED <<life, code, serving, ender, starter>>
  BY DEF Finish, spawndVars, history
<1>1. /\ \A u \in Shells : u # sh => tasks'[u] = tasks[u]
      /\ \A k \in DOMAIN tasks[sh] : Kept(sh, k)
      /\ \A k \in DOMAIN tasks'[sh] :
           k \in DOMAIN tasks[sh] \/ (Len(tasks[sh]) < MAX_TASKS /\ k = Len(tasks[sh]) + 1 /\ Added(sh, k))
      /\ Held(sh) => \/ Len(tasks[sh]) >= MAX_TASKS
                     \/ \E k \in DOMAIN tasks'[sh] : Added(sh, k)
  BY FinishTable
<1>2. ASSUME Len(tasks[sh]) >= MAX_TASKS
      PROVE  /\ \A k \in DOMAIN tasks'[sh] :
                  k \in DOMAIN tasks[sh] /\ tasks'[sh][k].handle = tasks[sh][k].handle
             /\ Len(tasks'[sh]) >= MAX_TASKS
  <2>1. Len(tasks[sh]) \in Nat /\ DOMAIN tasks[sh] = 1 .. Len(tasks[sh])
    BY JobType DEF JobInv
  <2>2. ~(Len(tasks[sh]) < MAX_TASKS)
    BY <1>2, <2>1, ShellJobsAssumption
  <2>3. DOMAIN tasks'[sh] = DOMAIN tasks[sh]
    BY <1>1, <2>2 DEF Kept
  <2>4. tasks'[sh] \in Seq(Jobs)
    BY FinishTable
  <2>5. Len(tasks'[sh]) \in Nat /\ DOMAIN tasks'[sh] = 1 .. Len(tasks'[sh])
    BY <2>4, LenProperties
  <2>6. Len(tasks'[sh]) = Len(tasks[sh])
    BY <2>1, <2>3, <2>5
  <2> QED
    BY <1>1, <1>2, <2>3, <2>6 DEF Kept
<1>3. ASSUME NEW h \in Handles, Known(h)'
      PROVE  \E u \in Shells :
               u = starter'[h] /\ (Starting(u, h)' \/ h \in Listed(u)' \/ TurnedAway(u, h)')
  <2>1. Known(h)
    BY <1>0, <1>3 DEF Known
  <2>2. PICK u \in Shells :
          u = starter[h] /\ (Starting(u, h) \/ h \in Listed(u) \/ TurnedAway(u, h))
    BY <2>1 DEF KeptInv
  <2>3. CASE u # sh
    <3>1. Listed(u)' = Listed(u) /\ (TurnedAway(u, h) => TurnedAway(u, h)')
      BY <1>1, <2>3 DEF Listed, TurnedAway
    <3>2. Starting(u, h) => Starting(u, h)'
      BY <1>0, <2>3 DEF Starting, Fresh, Held, JobInv, TableType
    <3> QED
      BY <1>0, <2>2, <3>1, <3>2
  <2>4. CASE u = sh /\ Starting(sh, h)
    <3>1. Held(sh) /\ call[sh].h = h
      BY <1>0, <2>4 DEF Starting, Fresh
    <3>2. CASE Len(tasks[sh]) >= MAX_TASKS
      <4>1. \A k \in DOMAIN tasks[sh] : tasks[sh][k].handle < h
        BY <3>1 DEF JobInv, HeldInv, Fresh
      <4>2. TurnedAway(sh, h)'
        BY <1>2, <3>2, <4>1 DEF TurnedAway
      <4> QED
        BY <1>0, <2>2, <2>4, <4>2
    <3>3. CASE \E k \in DOMAIN tasks'[sh] : Added(sh, k)
      <4>1. PICK k \in DOMAIN tasks'[sh] : Added(sh, k)
        BY <3>3
      <4>2. tasks'[sh][k].active /\ tasks'[sh][k].handle = h
        BY <3>1, <4>1 DEF Added
      <4>3. h \in Listed(sh)'
        BY <4>2 DEF Listed
      <4> QED
        BY <1>0, <2>2, <2>4, <4>3
    <3> QED
      BY <1>1, <3>1, <3>2, <3>3
  <2>5. CASE u = sh /\ h \in Listed(sh)
    <3>1. PICK k \in DOMAIN tasks[sh] : tasks[sh][k].active /\ tasks[sh][k].handle = h
      BY <2>5 DEF Listed
    <3>2. ~Ending(sh, h)
      BY <2>1 DEF Ending, Known, JobInv, CallInv
    <3>3. k \in DOMAIN tasks'[sh] /\ tasks'[sh][k].active /\ tasks'[sh][k].handle = h
      BY <1>1, <3>1, <3>2 DEF Kept
    <3>4. h \in Listed(sh)'
      BY <3>3 DEF Listed
    <3> QED
      BY <1>0, <2>2, <2>5, <3>4
  <2>6. CASE u = sh /\ TurnedAway(sh, h)
    <3>1. TurnedAway(sh, h)'
      BY <1>2, <2>6 DEF TurnedAway
    <3> QED
      BY <1>0, <2>2, <2>6, <3>1
  <2> QED
    BY <2>2, <2>3, <2>4, <2>5, <2>6
<1> QED
  BY <1>3 DEF KeptInv

(* Every step keeps the slots in somebody's hands. *)
LEMMA StepKept ==
  ASSUME JobInv, KeptInv, [Next]_vars
  PROVE  KeptInv'
<1> USE DEF JobInv
<1>1. ASSUME NEW sh \in Shells, NEW g \in Handles, EndStep(sh, g)
      PROVE  KeptInv'
  <2>1. tasks' = tasks
    BY <1>1 DEF EndStep
  <2>2. ASSUME NEW h \in Handles, Known(h)'
        PROVE  Known(h) /\ starter'[h] = starter[h] /\ \A u \in Shells : Starting(u, h) => Starting(u, h)'
    <3>1. h # g /\ Known(h)
      BY <1>1, <2>2 DEF EndStep, Known, TableType
    <3> QED
      BY <1>1, <3>1 DEF EndStep, Starting, Fresh, Held, TableType
  <2> QED
    BY <2>1, <2>2, KeptSame
<1>2. ASSUME NEW sh \in Shells, RefuseStep(sh)
      PROVE  KeptInv'
  <2>1. \A h \in Handles : Known(h)' => Known(h) /\ starter'[h] = starter[h]
    BY <1>2 DEF RefuseStep, Known
  <2>2. \A h \in Handles, u \in Shells : Starting(u, h) => Starting(u, h)'
    BY <1>2 DEF RefuseStep, Starting, Fresh, Held, TableType
  <2> QED
    BY <1>2, <2>1, <2>2, KeptSame DEF RefuseStep
<1>3. ASSUME NEW sh \in Shells, NEW g \in Handles, BirthStep(sh, g)
      PROVE  KeptInv'
  <2>1. call' = [call EXCEPT ![sh] = [op |-> call[sh].op, h |-> g]] /\ tasks' = tasks
    BY <1>3, CallHandle DEF BirthStep
  <2>2. Starting(sh, g)' /\ starter'[g] = sh
    BY <1>3, <2>1 DEF BirthStep, Starting, Fresh, Held, TableType
  <2>3. ASSUME NEW h \in Handles, h # g, Known(h)'
        PROVE  Known(h) /\ starter'[h] = starter[h] /\ \A u \in Shells : Starting(u, h) => Starting(u, h)'
    <3>1. Known(h) /\ starter'[h] = starter[h]
      BY <1>3, <2>3 DEF BirthStep, Known, TableType
    <3>2. ASSUME NEW u \in Shells, Starting(u, h)
          PROVE  Starting(u, h)'
      BY <1>3, <2>1, <3>2 DEF BirthStep, Starting, Fresh, Held, TableType
    <3> QED
      BY <3>1, <3>2
  <2> QED
    BY <2>1, <2>2, <2>3, KeptSame
<1>4. ASSUME NEW sh \in Shells, FailStep(sh)
      PROVE  KeptInv'
  <2>1. ASSUME NEW h \in Handles, Known(h)'
        PROVE  Known(h) /\ starter'[h] = starter[h] /\ \A u \in Shells : Starting(u, h) => Starting(u, h)'
    <3>1. h # call[sh].h /\ Known(h)
      BY <1>4, <2>1 DEF FailStep, Known, TableType
    <3> QED
      BY <1>4, <3>1 DEF FailStep, Starting, Fresh, Held, TableType
  <2> QED
    BY <1>4, <2>1, KeptSame DEF FailStep
<1>5. ASSUME NEW sh \in Shells, StartStep(sh)
      PROVE  KeptInv'
  <2>1. \A h \in Handles : Known(h)' => Known(h) /\ starter'[h] = starter[h]
    BY <1>5 DEF StartStep, Known
  <2>2. call[sh].h >= 0
    <3>1. PICK n \in Nat : n = call[sh].h
      BY CallType
    <3> QED
      BY <3>1
  <2>3. \A h \in Handles, u \in Shells : Starting(u, h) => Starting(u, h)'
    BY <1>5, <2>2 DEF StartStep, Starting, Fresh, Held, TableType
  <2> QED
    BY <1>5, <2>1, <2>3, KeptSame DEF StartStep
<1>6. ASSUME NEW sh \in Shells, PollStep(sh)
      PROVE  KeptInv'
  <2>1. \A h \in Handles : Known(h)' => Known(h) /\ starter'[h] = starter[h]
    BY <1>6 DEF PollStep, Known
  <2>2. \A h \in Handles, u \in Shells : Starting(u, h) => Starting(u, h)'
    BY <1>6 DEF PollStep, Starting, Fresh, Held, TableType
  <2> QED
    BY <1>6, <2>1, <2>2, KeptSame DEF PollStep
<1>7. ASSUME NEW sh \in Shells, NEW op, NEW g, CallStep(sh, op, g)
      PROVE  KeptInv'
  <2>1. \A h \in Handles : Known(h)' => Known(h) /\ starter'[h] = starter[h]
    BY <1>7 DEF CallStep, Call, spawndVars, history, Known
  <2>2. \A h \in Handles, u \in Shells : Starting(u, h) => Starting(u, h)'
    BY <1>7 DEF CallStep, Call, Starting, Fresh, Held, TableType
  <2> QED
    BY <1>7, <2>1, <2>2, KeptSame DEF CallStep, Call
<1>8. ASSUME NEW g \in Handles, NEW c \in Codes, ChildExit(g, c)
      PROVE  KeptInv'
  <2>1. \A h \in Handles : Known(h)' => Known(h) /\ starter'[h] = starter[h]
    BY <1>8 DEF ChildExit, history, Known, TableType
  <2>2. \A h \in Handles, u \in Shells : Starting(u, h) => Starting(u, h)'
    BY <1>8 DEF ChildExit, shellVars, Starting, Fresh, Held
  <2> QED
    BY <1>8, <2>1, <2>2, KeptSame DEF ChildExit, shellVars
<1>9. CASE UNCHANGED vars
  <2>1. UNCHANGED <<life, pc, call, ret, tasks, starter>>
    BY <1>9 DEF vars, spawndVars, shellVars, history
  <2> QED
    BY <2>1 DEF KeptInv, Known, Starting, Fresh, Held, Listed, TurnedAway
<1> QED
  BY <1>1, <1>2, <1>3, <1>4, <1>5, <1>6, <1>7, <1>8, <1>9, StepCases, FinishKept, Zenon

-----------------------------------------------------------------------------
(* No ghosts *)

(* A handle that is over has been ended by another shell... *)
LEMMA EndGhost ==
  ASSUME JobInv, GhostInv, ENOENT \notin Codes, NEW sh \in Shells, NEW g \in Handles, EndStep(sh, g)
  PROVE  GhostInv'
<1> USE DEF JobInv
<1>1. PICK r \in Codes \cup {0} : ret' = [ret EXCEPT ![sh] = r]
  BY DEF EndStep
<1>2. r # ENOENT
  BY DEF ENOENT
<1>3. ASSUME NEW u \in Shells, NEW h \in Handles, EndedBy(u, h)
      PROVE  EndedBy(u, h)' \/ (u = sh /\ h = g)
  BY <1>3 DEF EndStep, EndedBy, Known, TableType
<1>4. ASSUME NEW u \in Shells
      PROVE  /\ Listed(u)' = Listed(u) /\ Listed(u) \subseteq Handles
             /\ u # sh => pc'[u] = pc[u] /\ ret'[u] = ret[u]
  BY JobType DEF EndStep, Listed, TableType
<1>5. ASSUME NEW u \in Shells, NEW h \in Listed(u)
      PROVE  EndedBy(u, h)' \/ Ending(u, h)'
  <2>0. h \in Handles
    BY <1>4
  <2>1. CASE u # sh
    <3>1. Ending(u, h) => Ending(u, h)'
      BY <1>4, <2>1 DEF Ending, EndStep
    <3> QED
      BY <1>3, <2>0, <2>1, <3>1 DEF GhostInv
  <2>2. CASE u = sh /\ h # g
    <3>1. ~Ending(sh, h)
      BY DEF Ending, EndStep
    <3> QED
      BY <1>3, <2>0, <2>2, <3>1 DEF GhostInv
  <2>3. CASE u = sh /\ h = g
    <3>1. PICK k \in DOMAIN tasks[sh] : tasks[sh][k].handle = g
      BY <2>3 DEF Listed
    <3>2. ~Fresh(sh)
      BY <3>1 DEF HeldInv, EndStep
    <3>3. call[sh].op \in {"wait", "kill"}
      BY <3>2 DEF Fresh, EndStep, CallInv, Spawns
    <3>4. Ending(sh, g)'
      BY <1>1, <1>2, <3>3 DEF Ending, EndStep, TableType
    <3> QED
      BY <2>3, <3>4
  <2> QED
    BY <2>1, <2>2, <2>3
<1>6. ASSUME NEW u \in Shells, Held(u)'
      PROVE  EndedBy(u, call[u].h)'
  <2>1. u # sh
    BY <1>6 DEF EndStep, CallInv, Spawns, Held, TableType
  <2>2. Held(u)
    BY <1>4, <1>6, <2>1 DEF EndStep, Held
  <2>3. call[u].h \in Handles /\ EndedBy(u, call[u].h)
    BY <2>2, HeldRoom DEF GhostInv
  <2>4. PICK h \in Handles : h = call[u].h /\ EndedBy(u, h)
    BY <2>3
  <2>5. EndedBy(u, h)'
    BY <1>3, <2>1, <2>4
  <2> QED
    BY <2>4, <2>5 DEF EndStep, EndedBy, Known
<1> QED
  BY <1>4, <1>5, <1>6 DEF GhostInv, EndStep, EndedBy, Known

(* ... and steps that end nothing that is listed change nothing in this. *)
LEMMA GhostSame ==
  ASSUME JobInv, GhostInv, UNCHANGED <<tasks, ender>>, NEW gone,
         \A h \in Handles : h # gone /\ Known(h) => Known(h)',
         \A u \in Shells : \A k \in DOMAIN tasks[u] : tasks[u][k].handle # gone,
         NEW sh \in Shells, pc[sh] # "replied",
         \A u \in Shells : u # sh => pc'[u] = pc[u] /\ call'[u] = call[u] /\ ret'[u] = ret[u],
         \A u \in Shells : u # sh /\ Held(u) => call[u].h # gone,
         Held(sh)' => EndedBy(sh, call[sh].h)'
  PROVE  GhostInv'
<1> USE DEF JobInv
<1>1. ASSUME NEW u \in Shells, NEW h \in Handles, h # gone, EndedBy(u, h)
      PROVE  EndedBy(u, h)'
  BY <1>1 DEF EndedBy, Known
<1>2. ASSUME NEW u \in Shells
      PROVE  Listed(u)' = Listed(u) /\ Listed(u) \subseteq Handles /\ gone \notin Listed(u)
  BY JobType DEF Listed
<1>3. ASSUME NEW u \in Shells, NEW h \in Listed(u)
      PROVE  EndedBy(u, h)' \/ Ending(u, h)'
  <2>1. h \in Handles /\ h # gone
    BY <1>2
  <2>2. CASE EndedBy(u, h)
    BY <1>1, <2>1, <2>2
  <2>3. CASE Ending(u, h)
    BY <2>3 DEF Ending
  <2> QED
    BY <2>2, <2>3 DEF GhostInv
<1>4. ASSUME NEW u \in Shells, Held(u)', NEW h, h = call'[u].h
      PROVE  EndedBy(u, h)'
  <2>1. CASE u = sh
    BY <1>4, <2>1 DEF EndedBy, Known
  <2>2. CASE u # sh
    <3>1. Held(u) /\ h = call[u].h
      BY <1>4, <2>2 DEF Held
    <3>2. h \in Handles /\ EndedBy(u, h)
      BY <3>1, HeldRoom DEF GhostInv
    <3>3. h # gone
      BY <2>2, <3>1
    <3> QED
      BY <1>1, <3>2, <3>3
  <2> QED
    BY <2>1, <2>2
<1>5. ASSUME NEW u \in Shells
      PROVE  /\ \A h \in Listed(u)' : EndedBy(u, h)' \/ Ending(u, h)'
             /\ (Held(u) => EndedBy(u, call[u].h))'
  BY <1>2, <1>3, <1>4 DEF EndedBy, Known
<1> QED
  BY <1>5 DEF GhostInv

(* At the end of a command its own handle leaves the table. *)
LEMMA FinishGhost ==
  ASSUME JobInv, GhostInv, NEW sh \in Shells, Finish(sh)
  PROVE  GhostInv'
<1> USE DEF JobInv
<1>0. /\ pc[sh] = "replied" /\ pc' = [pc EXCEPT ![sh] = "prompt"]
      /\ call' = [call EXCEPT ![sh] = [op |-> "none", h |-> 0]] /\ ret' = [ret EXCEPT ![sh] = 0]
      /\ UNCHANGED <<life, code, serving, ender, starter>>
  BY DEF Finish, spawndVars, history
<1>1. /\ \A u \in Shells : u # sh => tasks'[u] = tasks[u]
      /\ \A k \in DOMAIN tasks[sh] : Kept(sh, k)
      /\ \A k \in DOMAIN tasks'[sh] :
           k \in DOMAIN tasks[sh] \/ (Len(tasks[sh]) < MAX_TASKS /\ k = Len(tasks[sh]) + 1 /\ Added(sh, k))
  BY FinishTable
<1>2. ASSUME NEW u \in Shells, NEW h
      PROVE  EndedBy(u, h)' <=> EndedBy(u, h)
  BY <1>0 DEF EndedBy, Known
<1>3. ASSUME NEW u \in Shells, u # sh
      PROVE  Listed(u)' = Listed(u) /\ pc'[u] = pc[u] /\ call'[u] = call[u] /\ ret'[u] = ret[u]
  BY <1>0, <1>1, <1>3 DEF Listed, TableType
<1>4. pc'[sh] = "prompt"
  BY <1>0 DEF TableType
<1>5. ASSUME NEW h \in Listed(sh)'
      PROVE  EndedBy(sh, h)
  <2>1. PICK k \in DOMAIN tasks'[sh] : tasks'[sh][k].active /\ tasks'[sh][k].handle = h
    BY <1>5 DEF Listed
  <2>2. CASE k \in DOMAIN tasks[sh]
    <3>1. tasks[sh][k].handle = h /\ tasks[sh][k].active /\ ~Ending(sh, h)
      BY <1>1, <2>1, <2>2 DEF Kept
    <3>2. h \in Listed(sh)
      BY <2>2, <3>1 DEF Listed
    <3> QED
      BY <3>1, <3>2 DEF GhostInv
  <2>3. CASE Added(sh, k)
    <3>1. h = call[sh].h /\ Held(sh)
      BY <2>1, <2>3 DEF Added
    <3> QED
      BY <3>1 DEF GhostInv
  <2> QED
    BY <1>1, <2>2, <2>3
<1>6. ASSUME NEW u \in Shells, u # sh
      PROVE  /\ \A h \in Listed(u)' : EndedBy(u, h)' \/ Ending(u, h)'
             /\ (Held(u) => EndedBy(u, call[u].h))'
  <2>1. \A h : Ending(u, h) => Ending(u, h)'
    BY <1>3, <1>6 DEF Ending
  <2>2. \A h \in Listed(u)' : EndedBy(u, h)' \/ Ending(u, h)'
    BY <1>2, <1>3, <1>6, <2>1 DEF GhostInv
  <2>3. Held(u) => EndedBy(u, call[u].h)
    BY DEF GhostInv
  <2>4. Held(u)' <=> Held(u)
    BY <1>3, <1>6 DEF Held
  <2> QED
    BY <1>0, <1>3, <1>6, <2>2, <2>3, <2>4 DEF EndedBy, Known
<1>7. \A h \in Listed(sh)' : EndedBy(sh, h)'
  BY <1>2, <1>5
<1>8. ~Held(sh)'
  BY <1>4 DEF Held
<1> QED
  BY <1>6, <1>7, <1>8 DEF GhostInv

(* Every step keeps ghosts off the tables. *)
LEMMA StepGhost ==
  ASSUME JobInv, GhostInv, ENOENT \notin Codes, [Next]_vars
  PROVE  GhostInv'
<1> USE DEF JobInv
<1>0. /\ \A u \in Shells : \A k \in DOMAIN tasks[u] : tasks[u][k].handle # 0
      /\ \A u \in Shells : Held(u) => call[u].h # 0
  BY JobType, HandleType, HeldRoom
<1>1. ASSUME NEW sh \in Shells, RefuseStep(sh)
      PROVE  GhostInv'
  <2>1. \A u \in Shells : u # sh => pc'[u] = pc[u] /\ call'[u] = call[u] /\ ret'[u] = ret[u]
    BY <1>1 DEF RefuseStep, TableType
  <2>2. ~Held(sh)'
    BY <1>1 DEF RefuseStep, TableType, ENOENT, ENOMEM, Held
  <2>3. \A h \in Handles : Known(h) => Known(h)'
    BY <1>1 DEF RefuseStep, Known
  <2>4. pc[sh] # "replied" /\ UNCHANGED <<tasks, ender>>
    BY <1>1 DEF RefuseStep
  <2> QED
    BY <1>0, <2>1, <2>2, <2>3, <2>4, GhostSame
<1>2. ASSUME NEW sh \in Shells, NEW g \in Handles, BirthStep(sh, g)
      PROVE  GhostInv'
  <2>0. call' = [call EXCEPT ![sh] = [op |-> call[sh].op, h |-> g]]
    BY <1>2, CallHandle DEF BirthStep
  <2>1. \A u \in Shells : u # sh => pc'[u] = pc[u] /\ call'[u] = call[u] /\ ret'[u] = ret[u]
    BY <1>2, <2>0 DEF BirthStep, TableType
  <2>2. pc[sh] # "replied" /\ UNCHANGED <<tasks, ender>>
    BY <1>2 DEF BirthStep
  <2>3. \A h \in Handles : Known(h) => Known(h)'
    BY <1>2 DEF BirthStep, Known, TableType
  <2>4. EndedBy(sh, call[sh].h)'
    <3>1. call'[sh].h = g /\ life'[g] = "live"
      BY <1>2, <2>0 DEF BirthStep, TableType
    <3> QED
      BY <3>1 DEF EndedBy, Known
  <2> QED
    BY <1>0, <2>1, <2>2, <2>3, <2>4, GhostSame
<1>3. ASSUME NEW sh \in Shells, FailStep(sh)
      PROVE  GhostInv'
  <2>0. PICK g : g = call[sh].h
    OBVIOUS
  <2>1. \A u \in Shells : u # sh => pc'[u] = pc[u] /\ call'[u] = call[u] /\ ret'[u] = ret[u]
    BY <1>3 DEF FailStep, TableType
  <2>2. ~Held(sh)'
    BY <1>3 DEF FailStep, TableType, ENOMEM, Held
  <2>3. \A h \in Handles : h # g /\ Known(h) => Known(h)'
    BY <1>3, <2>0 DEF FailStep, Known, TableType
  <2>4. pc[sh] # "replied" /\ UNCHANGED <<tasks, ender>>
    BY <1>3 DEF FailStep
  <2>5. /\ \A u \in Shells : \A k \in DOMAIN tasks[u] : tasks[u][k].handle # g
        /\ \A u \in Shells : u # sh /\ Held(u) => call[u].h # g
    <3>1. Fresh(sh)
      BY <1>3 DEF FailStep, Fresh, Held
    <3> QED
      BY <2>0, <3>1 DEF HeldInv, Fresh
  <2> QED
    BY <2>1, <2>2, <2>3, <2>4, <2>5, GhostSame
<1>4. ASSUME NEW sh \in Shells, StartStep(sh)
      PROVE  GhostInv'
  <2>1. \A u \in Shells : u # sh => pc'[u] = pc[u] /\ call'[u] = call[u] /\ ret'[u] = ret[u]
    BY <1>4 DEF StartStep, TableType
  <2>2. \A h \in Handles : Known(h) => Known(h)'
    BY <1>4 DEF StartStep, Known
  <2>3. pc[sh] # "replied" /\ UNCHANGED <<tasks, ender, call>>
    BY <1>4 DEF StartStep
  <2>4. EndedBy(sh, call[sh].h)'
    <3>1. Known(call[sh].h) \/ ender[call[sh].h] \in Shells \ {sh}
      BY <1>4 DEF StartStep, GhostInv, Held, EndedBy
    <3> QED
      BY <1>4, <3>1 DEF StartStep, EndedBy, Known
  <2> QED
    BY <1>0, <2>1, <2>2, <2>3, <2>4, GhostSame
<1>5. ASSUME NEW sh \in Shells, PollStep(sh)
      PROVE  GhostInv'
  <2>1. \A u \in Shells : u # sh => pc'[u] = pc[u] /\ call'[u] = call[u] /\ ret'[u] = ret[u]
    BY <1>5 DEF PollStep, TableType
  <2>2. ~Held(sh)' /\ pc[sh] # "replied" /\ UNCHANGED <<tasks, ender>>
    BY <1>5 DEF PollStep, TableType, Held
  <2>3. \A h \in Handles : Known(h) => Known(h)'
    BY <1>5 DEF PollStep, Known
  <2> QED
    BY <1>0, <2>1, <2>2, <2>3, GhostSame
<1>6. ASSUME NEW sh \in Shells, NEW op, NEW g, CallStep(sh, op, g)
      PROVE  GhostInv'
  <2>1. \A u \in Shells : u # sh => pc'[u] = pc[u] /\ call'[u] = call[u] /\ ret'[u] = ret[u]
    BY <1>6 DEF CallStep, Call, TableType
  <2>2. ~Held(sh)' /\ pc[sh] # "replied" /\ UNCHANGED <<tasks, ender>>
    BY <1>6 DEF CallStep, Call, TableType, Held, history
  <2>3. \A h \in Handles : Known(h) => Known(h)'
    BY <1>6 DEF CallStep, Call, spawndVars, Known
  <2> QED
    BY <1>0, <2>1, <2>2, <2>3, GhostSame
<1>7. ASSUME UNCHANGED <<pc, call, ret, tasks, ender>>, \A h \in Handles : Known(h)' = Known(h)
      PROVE  GhostInv'
  <2>1. ASSUME NEW u \in Shells
        PROVE  Listed(u)' = Listed(u) /\ Listed(u) \subseteq Handles
    BY <1>7, JobType DEF Listed
  <2>2. ASSUME NEW u \in Shells, NEW h \in Handles
        PROVE  (EndedBy(u, h) => EndedBy(u, h)') /\ (Ending(u, h) => Ending(u, h)')
    BY <1>7 DEF EndedBy, Ending
  <2>3. ASSUME NEW u \in Shells, Held(u)'
        PROVE  EndedBy(u, call[u].h)'
    <3>0. Held(u)
      BY <1>7, <2>3 DEF Held
    <3>1. PICK h \in Handles : h = call[u].h
      BY <3>0, HeldRoom
    <3>2. EndedBy(u, h)'
      BY <2>2, <3>0, <3>1 DEF GhostInv
    <3> QED
      BY <1>7, <3>1, <3>2 DEF EndedBy, Known
  <2> QED
    BY <1>7, <2>1, <2>2, <2>3 DEF GhostInv
<1>8. ASSUME NEW g \in Handles, NEW c \in Codes, ChildExit(g, c)
      PROVE  GhostInv'
  <2>1. UNCHANGED <<pc, call, ret, tasks, ender>>
    BY <1>8 DEF ChildExit, shellVars, history
  <2>2. \A h \in Handles : Known(h)' = Known(h)
    BY <1>8 DEF ChildExit, Known, TableType
  <2> QED
    BY <1>7, <2>1, <2>2
<1>9. CASE UNCHANGED vars
  <2>1. UNCHANGED <<life, pc, call, ret, tasks, ender>>
    BY <1>9 DEF vars, spawndVars, shellVars, history
  <2> QED
    BY <1>7, <2>1 DEF Known
<1> QED
  BY <1>1, <1>2, <1>3, <1>4, <1>5, <1>6, <1>8, <1>9, StepCases, EndGhost, FinishGhost, Zenon

-----------------------------------------------------------------------------
(* The specification *)

(* Shells at their prompts, no program started. *)
LEMMA InitJob == Init => JobInv /\ KeptInv /\ GhostInv
<1> SUFFICES ASSUME Init PROVE JobInv /\ KeptInv /\ GhostInv
  OBVIOUS
<1>1. /\ life = [h \in Handles |-> "unborn"] /\ code = [h \in Handles |-> 0]
      /\ serving = NoShell /\ pc = [sh \in Shells |-> "prompt"]
      /\ call = [sh \in Shells |-> [op |-> "none", h |-> 0]] /\ ret = [sh \in Shells |-> 0]
      /\ tasks = [sh \in Shells |-> <<>>] /\ ender = [h \in Handles |-> NoShell]
      /\ starter = [h \in Handles |-> NoShell]
  BY DEF Init, S!Init
<1>2. TableType
  <2>1. [op |-> "none", h |-> 0] \in Calls
    <3>1. 0 \in Nat /\ "none" \in {"none", "SPAWN_BG", "SPAWN_WAIT", "wait", "kill"}
      OBVIOUS
    <3> QED
      BY <3>1, Zenon DEF Calls
  <2>2. call \in [Shells -> Calls]
    BY <1>1, <2>1
  <2>3. <<>> \in Seq(Jobs)
    OBVIOUS
  <2>4. tasks \in [Shells -> Seq(Jobs)]
    BY <1>1, <2>3
  <2> QED
    BY <1>1, <2>2, <2>4 DEF TableType
<1>3. BirthInv /\ CodeInv /\ CallInv /\ HeldInv /\ OrderInv
  BY <1>1 DEF BirthInv, CodeInv, CallInv, HeldInv, Fresh, Held, OrderInv
<1>4. KeptInv /\ GhostInv
  BY <1>1 DEF KeptInv, GhostInv, Known, Listed, Held
<1> QED
  BY <1>2, <1>3, <1>4 DEF JobInv

(* Handles are given out in order, and the tables list them in that order.    *)
THEOREM TablesInOrder == Spec => []JobInv
<1>1. Init => JobInv
  BY InitJob
<1>2. JobInv /\ [Next]_vars => JobInv'
  BY StepJob
<1> QED
  BY <1>1, <1>2, PTL DEF Spec

(* No slot of spawnd is without an owner that can free it, however many       *)
(* shells run, wait and kill, except for a job that found the table of its    *)
(* shell full of older ones (task_register_proc).                           *)
THEOREM NoChildIsLost == Spec => []NoLostChild
<1>1. Init => JobInv /\ KeptInv
  BY InitJob
<1>2. JobInv /\ KeptInv /\ [Next]_vars => JobInv' /\ KeptInv'
  BY StepJob, StepKept
<1>3. KeptInv => NoLostChild
  <2> SUFFICES ASSUME KeptInv, NEW h \in Handles, Known(h)
               PROVE  \/ InCall(h)
                      \/ \E sh \in Shells : sh = starter[h] /\ (h \in Listed(sh) \/ TurnedAway(sh, h))
    BY DEF NoLostChild
  <2>1. PICK sh \in Shells :
          sh = starter[h] /\ (Starting(sh, h) \/ h \in Listed(sh) \/ TurnedAway(sh, h))
    BY DEF KeptInv
  <2>2. Starting(sh, h) => InCall(h)
    BY DEF Starting, Fresh, Held, InCall
  <2> QED
    BY <2>1, <2>2
<1> QED
  BY <1>1, <1>2, <1>3, PTL DEF Spec

(* A shell lists no job that it has itself ended, if no program exits with    *)
(* the code that wait reports for an unknown handle.                         *)
THEOREM NoGhostJobs ==
  ASSUME ENOENT \notin Codes
  PROVE  Spec => []NoGhostJob
<1>1. Init => JobInv /\ GhostInv
  BY InitJob
<1>2. JobInv /\ GhostInv /\ [Next]_vars => JobInv' /\ GhostInv'
  BY StepJob, StepGhost
<1>3. GhostInv => NoGhostJob
  BY DEF GhostInv, NoGhostJob, EndedBy, Ending
<1> QED
  BY <1>1, <1>2, <1>3, PTL DEF Spec

=============================================================================
