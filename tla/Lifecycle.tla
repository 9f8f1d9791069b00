------------------------------ MODULE Lifecycle ------------------------------
(***************************************************************************)
(* What spawnd promises its clients (spawn_ipc.h), without slots, threads, *)
(* images or IPC: a handle names one child, which lives, exits once with   *)
(* one code, and is over when somebody has collected the code or killed    *)
(* it.  A handle that is over never comes back.                            *)
(***************************************************************************)
EXTENDS Integers

CONSTANTS
  Handles,      \* the handles spawnd may give out
  NoAnswer      \* not a pair

VARIABLES
  life,         \* unborn, live, exited or over, for every handle
  code,         \* the code an exited child left, 0 otherwise
  answer        \* <<handle, code>> just told to a waiter, or NoAnswer

vars == <<life, code, answer>>

Init ==
  /\ life = [h \in Handles |-> "unborn"]
  /\ code = [h \in Handles |-> 0]
  /\ answer = NoAnswer

(* a child is born; the client learns the handle later *)
Spawn(h) ==
  /\ life[h] = "unborn"
  /\ life' = [life EXCEPT ![h] = "live"]
  /\ UNCHANGED <<code, answer>>

(* children exit by themselves or crash, several crashes being noticed at   *)
(* once; nothing else about any handle changes                             *)
Exit ==
  /\ \E S \in SUBSET Handles :
       /\ \A h \in S : life[h] = "live"
       /\ life' = [h \in Handles |-> IF h \in S THEN "exited" ELSE life[h]]
       /\ \A h \in Handles \ S : code'[h] = code[h]
  /\ DOMAIN code' = Handles
  /\ UNCHANGED answer

(* wait, or spawn with SPAWN_WAIT: one waiter gets the code *)
Collect(h) ==
  /\ life[h] = "exited"
  /\ life' = [life EXCEPT ![h] = "over"]
  /\ answer' = <<h, code[h]>>
  /\ code' = [code EXCEPT ![h] = 0]

(* kill, or a program that could not be loaded *)
Discard(h) ==
  /\ life[h] \in {"live", "exited"}
  /\ life' = [life EXCEPT ![h] = "over"]
  /\ answer' = NoAnswer
  /\ code' = [code EXCEPT ![h] = 0]

(* any other reply *)
OtherReply ==
  /\ answer' = NoAnswer
  /\ UNCHANGED <<life, code>>

Next ==
  \/ \E h \in Handles : Spawn(h) \/ Collect(h) \/ Discard(h)
  \/ Exit
  \/ OtherReply

Spec == Init /\ [][Next]_vars
=============================================================================
