----------------------------- MODULE Virtqueue -----------------------------
(***************************************************************************)
(* The indices of a split virtqueue, as the drivers of virtio-serial and   *)
(* netd use them: rings of VQ_SIZE entries, and free-running indices that  *)
(* wrap at their width.                                                    *)
(***************************************************************************)
EXTENDS Integers

CONSTANTS
  VQ_SIZE,        \* entries of a ring (16 in the code)
  IDX             \* the ring indices count modulo this (2^16 in the code)

ASSUME VirtqueueAssumption ==
  /\ VQ_SIZE \in Nat \ {0} /\ IDX \in Nat /\ IDX > VQ_SIZE /\ IDX % VQ_SIZE = 0

Ids == 0 .. VQ_SIZE - 1

Inc(i) == (i + 1) % IDX

(* The device (external) believes avail.idx only when it is at most a ring  *)
(* ahead of what it has consumed.                                          *)
Ahead(avail, dev) == (avail - dev) % IDX \in 1 .. VQ_SIZE

(* every receive buffer is given to the device *)
Prefilled == [i \in Ids |-> i]

(* positions of a ring between two indices *)
Span(from, to) == {(from + k) % VQ_SIZE : k \in 0 .. ((to - from) % IDX) - 1}

=============================================================================
