------------------------------ MODULE KeyQueue ------------------------------
(***************************************************************************)
(* What the reader of the keyboard may rely on: keys come out in the order *)
(* in which they were typed, and a key is dropped only when Cap keys wait. *)
(***************************************************************************)
EXTENDS Integers, Sequences

CONSTANTS Keys, Cap

VARIABLES
  queue,     \* the keys that wait
  io         \* the last event: a key typed or a key taken; turn tells two apart

queueVars == <<queue, io>>

Event(kind, c) == io' = [kind |-> kind, key |-> c, turn |-> 1 - io.turn]

(* A key is typed: a step even when it is dropped, which needs a full queue *)
Put(c) ==
  /\ Event("typed", c)
  /\ queue' = IF Len(queue) < Cap THEN Append(queue, c) ELSE queue

(* The reader gets the key that has waited longest *)
Take ==
  /\ queue # <<>>
  /\ Event("taken", Head(queue))
  /\ queue' = Tail(queue)

NoEvent == [kind |-> "none", key |-> "none", turn |-> 0]

QueueSpec ==
  /\ queue = <<>> /\ io = NoEvent
  /\ [][Take \/ \E c \in Keys : Put(c)]_queueVars

=============================================================================
