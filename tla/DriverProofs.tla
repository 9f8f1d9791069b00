---------------------------- MODULE DriverProofs ----------------------------
(***************************************************************************)
(* Proofs about VirtioSerial and NetQueue, for rings of any size and       *)
(* indices that wrap at any multiple of it: no buffer is in two places, no *)
(* byte and no frame is lost, doubled, reordered or overwritten.           *)
(***************************************************************************)
EXTENDS VirtioSerial, NetQueue, DataLemmas

-----------------------------------------------------------------------------
(* Indices and places of a virtqueue *)

Idx == 0 .. IDX - 1

(* How far index b is behind index a; the place of an index; how many places  *)
(* p comes after the place of index f.                                      *)
Dist(a, b) == (a - b) % IDX
At(f)      == f % VQ_SIZE
Off(f, p)  == IF p >= At(f) THEN p - At(f) ELSE p - At(f) + VQ_SIZE

(* The next index, and its place. *)
LEMMA IncIs ==
  ASSUME NEW x \in Idx
  PROVE  /\ Inc(x) = (IF x + 1 = IDX THEN 0 ELSE x + 1) /\ Inc(x) \in Idx
         /\ At(x) \in Ids
         /\ At(Inc(x)) = IF At(x) + 1 = VQ_SIZE THEN 0 ELSE At(x) + 1
<1>0. VQ_SIZE \in Nat \ {0} /\ IDX \in Nat \ {0} /\ IDX > VQ_SIZE /\ IDX % VQ_SIZE = 0 /\ x \in Int
  BY VirtqueueAssumption DEF Idx
<1>1. Inc(x) = (IF x + 1 = IDX THEN 0 ELSE x + 1) /\ Inc(x) \in Idx
  BY <1>0, RingNext DEF Inc, Idx
<1>2. At(x) \in Ids
  BY <1>0 DEF At, Ids
<1>3. (x + 1) % VQ_SIZE = IF At(x) + 1 < VQ_SIZE THEN At(x) + 1 ELSE At(x) + 1 - VQ_SIZE
  <2>1. 1 \in 0 .. VQ_SIZE
    BY <1>0
  <2> QED
    BY <1>0, <2>1, StepsOn DEF At
<1>4. (x + 1) % VQ_SIZE = IF At(x) + 1 = VQ_SIZE THEN 0 ELSE At(x) + 1
  BY <1>0, <1>2, <1>3 DEF Ids
<1>5. At(Inc(x)) = (x + 1) % VQ_SIZE
  <2>1. CASE x + 1 # IDX
    BY <1>1, <2>1 DEF At
  <2>2. CASE x + 1 = IDX
    <3>1. 0 % VQ_SIZE = 0
      BY <1>0
    <3> QED
      BY <1>0, <1>1, <2>2, <3>1 DEF At
  <2> QED
    BY <2>1, <2>2
<1> QED
  BY <1>1, <1>2, <1>4, <1>5

(* The distance of two indices, without a division. *)
LEMMA DistIs ==
  ASSUME NEW a \in Idx, NEW b \in Idx
  PROVE  /\ Dist(a, b) = (IF a >= b THEN a - b ELSE a - b + IDX)
         /\ Dist(a, b) \in 0 .. IDX - 1
<1>1. IDX \in Nat \ {0}
  BY VirtqueueAssumption
<1> QED
  BY <1>1, RingLength DEF Dist, Idx, RingLen

(* The distance when one of the indices goes on. *)
LEMMA DistNext ==
  ASSUME NEW a \in Idx, NEW b \in Idx
  PROVE  /\ (Dist(a, b) = 0) <=> (a = b)
         /\ Dist(Inc(a), b) = (IF Dist(a, b) + 1 = IDX THEN 0 ELSE Dist(a, b) + 1)
         /\ Dist(a, Inc(b)) = (IF a = b THEN IDX - 1 ELSE Dist(a, b) - 1)
<1>1. Inc(a) = (IF a + 1 = IDX THEN 0 ELSE a + 1) /\ Inc(b) = (IF b + 1 = IDX THEN 0 ELSE b + 1)
  BY IncIs
<1>2. Inc(a) \in Idx /\ Inc(b) \in Idx
  BY IncIs
<1>3. /\ Dist(a, b) = (IF a >= b THEN a - b ELSE a - b + IDX)
      /\ Dist(Inc(a), b) = (IF Inc(a) >= b THEN Inc(a) - b ELSE Inc(a) - b + IDX)
      /\ Dist(a, Inc(b)) = (IF a >= Inc(b) THEN a - Inc(b) ELSE a - Inc(b) + IDX)
  BY <1>2, DistIs
<1> QED
  BY <1>1, <1>3, VirtqueueAssumption DEF Idx

(* Places counted from an index: each place has one number. *)
LEMMA OffIs ==
  ASSUME NEW f \in Idx
  PROVE  /\ At(f) \in Ids /\ Off(f, At(f)) = 0
         /\ \A p \in Ids : Off(f, p) \in 0 .. VQ_SIZE - 1
         /\ \A p, q \in Ids : Off(f, p) = Off(f, q) => p = q
         /\ \A p \in Ids : Off(Inc(f), p) = IF Off(f, p) = 0 THEN VQ_SIZE - 1 ELSE Off(f, p) - 1
<1>0. VQ_SIZE \in Nat \ {0}
  BY VirtqueueAssumption
<1>1. At(f) \in Ids /\ At(Inc(f)) = IF At(f) + 1 = VQ_SIZE THEN 0 ELSE At(f) + 1
  BY IncIs
<1> QED
  BY <1>0, <1>1 DEF Off, Ids

(* The place of an index at most a round further on. *)
LEMMA OffOn ==
  ASSUME NEW f \in Idx, NEW t \in Idx, NEW n \in 0 .. VQ_SIZE, n = Dist(t, f)
  PROVE  /\ n < VQ_SIZE => Off(f, At(t)) = n
         /\ n = VQ_SIZE => At(t) = At(f)
         /\ \A p \in Ids : Off(t, p) = IF Off(f, p) >= n THEN Off(f, p) - n ELSE Off(f, p) - n + VQ_SIZE
<1>0. VQ_SIZE \in Nat \ {0} /\ IDX \in Nat /\ IDX > VQ_SIZE /\ IDX % VQ_SIZE = 0 /\ f \in Int /\ t \in Int
  BY VirtqueueAssumption DEF Idx
<1>1. n = IF t >= f THEN t - f ELSE t - f + IDX
  BY DistIs
<1>2. (f + n) % VQ_SIZE = IF At(f) + n < VQ_SIZE THEN At(f) + n ELSE At(f) + n - VQ_SIZE
  BY <1>0, StepsOn DEF At
<1>3. At(t) = (f + n) % VQ_SIZE
  <2>1. CASE t >= f
    <3>1. f + n = t
      BY <1>0, <1>1, <2>1
    <3> QED
      BY <3>1 DEF At
  <2>2. CASE ~(t >= f)
    <3>1. f + n = t + IDX
      BY <1>0, <1>1, <2>2
    <3>2. (t + IDX) % VQ_SIZE = t % VQ_SIZE
      BY <1>0, RoundsOn
    <3> QED
      BY <3>1, <3>2 DEF At
  <2> QED
    BY <2>1, <2>2
<1>4. At(f) \in 0 .. VQ_SIZE - 1 /\ At(t) \in 0 .. VQ_SIZE - 1
  BY IncIs DEF Ids
<1> QED
  BY <1>0, <1>2, <1>3, <1>4 DEF Off, Ids

(* The places between two indices. *)
LEMMA SpanIs ==
  ASSUME NEW f \in Idx, NEW t \in Idx, Dist(t, f) <= VQ_SIZE
  PROVE  Span(f, t) = {p \in Ids : Off(f, p) < Dist(t, f)}
<1>0. VQ_SIZE \in Nat \ {0} /\ f \in Int
  BY VirtqueueAssumption DEF Idx
<1>1. PICK n \in 0 .. VQ_SIZE : n = Dist(t, f)
  BY <1>0, DistIs
<1>2. At(f) \in 0 .. VQ_SIZE - 1
  BY IncIs DEF Ids
<1>3. ASSUME NEW k \in 0 .. VQ_SIZE - 1
      PROVE  /\ (f + k) % VQ_SIZE = IF At(f) + k < VQ_SIZE THEN At(f) + k ELSE At(f) + k - VQ_SIZE
             /\ (f + k) % VQ_SIZE \in Ids /\ Off(f, (f + k) % VQ_SIZE) = k
  <2>1. k \in 0 .. VQ_SIZE
    BY <1>0
  <2>2. (f + k) % VQ_SIZE = IF At(f) + k < VQ_SIZE THEN At(f) + k ELSE At(f) + k - VQ_SIZE
    BY <1>0, <2>1, StepsOn DEF At
  <2>3. PICK p : p = (f + k) % VQ_SIZE
    OBVIOUS
  <2>4. p \in Ids /\ Off(f, p) = k
    BY <1>0, <1>2, <2>2, <2>3 DEF Ids, Off
  <2> QED
    BY <2>2, <2>3, <2>4
<1>4. Span(f, t) = {(f + k) % VQ_SIZE : k \in 0 .. n - 1}
  BY <1>1 DEF Span, Dist
<1>5. ASSUME NEW p \in Span(f, t)
      PROVE  p \in Ids /\ Off(f, p) < n
  <2>1. PICK k \in 0 .. n - 1 : p = (f + k) % VQ_SIZE
    BY <1>4
  <2>2. k \in 0 .. VQ_SIZE - 1
    BY <1>0
  <2> QED
    BY <1>3, <2>1, <2>2
<1>6. ASSUME NEW p \in Ids, Off(f, p) < n
      PROVE  p \in Span(f, t)
  <2>1. PICK k : k = Off(f, p)
    OBVIOUS
  <2>2. k \in 0 .. VQ_SIZE - 1
    BY <2>1, OffIs
  <2>3. (f + k) % VQ_SIZE \in Ids /\ Off(f, (f + k) % VQ_SIZE) = k
    BY <1>3, <2>2
  <2>4. (f + k) % VQ_SIZE = p
    BY <2>1, <2>3, OffIs
  <2>5. k \in 0 .. n - 1
    BY <1>6, <2>1, <2>2
  <2> QED
    BY <1>4, <2>4, <2>5
<1> QED
  BY <1>1, <1>5, <1>6

-----------------------------------------------------------------------------
(* The rings of virtio-serial *)

(* The receive rings never change what they hold: place p holds buffer p,     *)
(* from prefill_rx on, whichever side the buffer is on.                      *)
Waiting == Dist(rx_uidx, rx_last)

RingInv ==
  /\ rx_ring = Prefilled /\ dev_rx = rx_uidx
  /\ Dist(rx_idx, rx_last) = VQ_SIZE /\ Waiting <= VQ_SIZE
  /\ \A p \in Ids : Off(rx_last, p) < Waiting => rx_used[p] = p
  /\ pc = "rearm" => Waiting >= 1 /\ id = At(rx_last)

(* Buffers that nobody has read yet hold bytes in the order of their places,  *)
(* all of them after the bytes that were read.                              *)
First == IF pc = "rearm" THEN 1 ELSE 0

IsUnread(p) == First <= Off(rx_last, p) /\ Off(rx_last, p) < Waiting

Done == Elems(got) \cup cut

Precede(S, T) == \A x \in S, y \in T : x < y

DataInv ==
  /\ Increasing(got) /\ Elems(got) \cap cut = {}
  /\ \A p \in Ids : IsUnread(p) => Increasing(rx_buf[p]) /\ Precede(Done, Elems(rx_buf[p]))
  /\ \A p, q \in Ids : IsUnread(p) /\ IsUnread(q) /\ Off(rx_last, p) < Off(rx_last, q) =>
       Precede(Elems(rx_buf[p]), Elems(rx_buf[q]))
  /\ \A x : x \in 1 .. typed <=>
            x \in Done \/ \E p \in Ids : IsUnread(p) /\ x \in Elems(rx_buf[p])

(* Without a poll that ran out, the device is at most the message being        *)
(* written behind the driver.                                               *)
TxInv ==
  /\ tx_uidx = dev_tx
  /\ ~late =>
       /\ \A k \in 1 .. Len(out) : out[k] = k
       /\ tx_last = tx_avail
       /\ pc \in {"copied", "polling"} => tx_buf = msg /\ msg >= 1
       /\ pc \in {"polling", "polled"} => tx_idx = Inc(tx_avail)
       /\ pc \notin {"polling", "polled"} => tx_idx = tx_avail
       /\ pc \notin {"polling", "polled"} => dev_tx = tx_avail
       /\ pc = "polled" => dev_tx = Inc(tx_avail)
       /\ pc = "polling" => \/ dev_tx = tx_avail /\ Len(out) = msg - 1
                            \/ dev_tx = Inc(tx_avail) /\ Len(out) = msg
       /\ pc = "copied" => Len(out) = msg - 1
       /\ pc \notin {"copied", "polling"} => Len(out) = msg

SerialInv == TypeOK /\ RingInv /\ DataInv /\ TxInv

-----------------------------------------------------------------------------
(* netd's rings, of which the same is true.  They are counted from the first   *)
(* place that has not gone back to the device.                              *)

Base == IF rx_at = "ring" THEN Inc(n_rx_last_used) ELSE n_rx_last_used

Filled == Dist(n_dev_rx, Base)
Ready  == Dist(n_rx_uidx, Base)

Holding == IF rx_at \in {"poll", "ring"} THEN 0 ELSE 1

NetRingInv ==
  /\ n_rx_ring = Prefilled
  /\ Dist(n_rx_idx, Base) = VQ_SIZE /\ Filled <= VQ_SIZE
  /\ filling = NoId => n_dev_rx = n_rx_uidx
  /\ filling # NoId => n_dev_rx = Inc(n_rx_uidx) /\ filling = At(n_rx_uidx) /\ Filled = Ready + 1
  /\ \A p \in Ids : Off(Base, p) < Ready => n_rx_used[p] = p
  /\ Holding = 1 => Ready >= 1 /\ rx_id = At(n_rx_last_used)
  /\ rx_at = "ring" => rx_id = At(n_rx_last_used)

(* The frames that wait in buffers, in the order of their places, come after  *)
(* the one that is on its way to lwIP, and that after those lwIP was given.   *)
From == IF rx_at \in {"poll", "copy", "ring"} THEN 0 ELSE 1

IsWaiting(p) == From <= Off(Base, p) /\ Off(Base, p) < Filled

Before(n) == (\A i \in DOMAIN passed : passed[i] < n) /\ (rx_at = "lock" => rx_pb < n)

NetDataInv ==
  /\ FramesInOrder
  /\ rx_at = "lock" => rx_pb \in 1 .. arrived /\ \A i \in DOMAIN passed : passed[i] < rx_pb
  /\ \A p \in Ids : IsWaiting(p) => n_rx_buf[p] \in 1 .. arrived /\ Before(n_rx_buf[p])
  /\ \A p, q \in Ids : IsWaiting(p) /\ IsWaiting(q) /\ Off(Base, p) < Off(Base, q) =>
       n_rx_buf[p] < n_rx_buf[q]

(* The device is at most the one frame behind that net_output waits for. *)
NetTxInv ==
  /\ n_tx_uidx = n_dev_tx /\ (sending_at # "wait" => n_tx_last_used = n_tx_avail_idx)
  /\ \A k \in DOMAIN wire : wire[k] = k
  /\ sending_at \in {"copied", "wait"} => n_tx_buf = asked /\ asked >= 1
  /\ sending_at # "wait" => n_tx_idx = n_tx_avail_idx /\ n_dev_tx = n_tx_avail_idx
  /\ sending_at = "wait" => n_tx_idx = n_tx_avail_idx /\ n_tx_avail_idx = Inc(n_tx_last_used)
  /\ sending_at = "wait" => \/ n_dev_tx = n_tx_last_used /\ Len(wire) = asked - 1
                            \/ n_dev_tx = Inc(n_tx_last_used) /\ Len(wire) = asked
  /\ sending_at = "out" => Len(wire) = asked
  /\ sending_at = "copied" => Len(wire) = asked - 1

NetInv == NetQueueTypeOK /\ NetRingInv /\ NetDataInv /\ NetTxInv

-----------------------------------------------------------------------------
(* virtio-serial: the places, as the invariant counts them *)

(* Indices are indices. *)
LEMMA SerialIndices ==
  ASSUME TypeOK
  PROVE  /\ rx_idx \in Idx /\ rx_uidx \in Idx /\ rx_last \in Idx /\ dev_rx \in Idx
         /\ tx_idx \in Idx /\ tx_uidx \in Idx /\ tx_avail \in Idx /\ tx_last \in Idx /\ dev_tx \in Idx
BY DEF TypeOK, Idx

(* How many buffers wait for the driver, and where the next one will go. *)
LEMMA SerialPlaces ==
  ASSUME TypeOK, RingInv
  PROVE  /\ Waiting \in 0 .. VQ_SIZE /\ Dist(rx_idx, rx_uidx) = VQ_SIZE - Waiting
         /\ At(rx_idx) = At(rx_last)
         /\ Waiting < VQ_SIZE => Off(rx_last, At(rx_uidx)) = Waiting
         /\ \A p \in Ids : Off(rx_uidx, p) =
              IF Off(rx_last, p) >= Waiting THEN Off(rx_last, p) - Waiting
              ELSE Off(rx_last, p) - Waiting + VQ_SIZE
<1>0. rx_idx \in Idx /\ rx_uidx \in Idx /\ rx_last \in Idx
  BY SerialIndices
<1>1. VQ_SIZE \in Nat \ {0} /\ IDX \in Nat /\ IDX > VQ_SIZE
  BY VirtqueueAssumption
<1>2. /\ Waiting = (IF rx_uidx >= rx_last THEN rx_uidx - rx_last ELSE rx_uidx - rx_last + IDX)
      /\ Dist(rx_idx, rx_last) = (IF rx_idx >= rx_last THEN rx_idx - rx_last ELSE rx_idx - rx_last + IDX)
      /\ Dist(rx_idx, rx_uidx) = (IF rx_idx >= rx_uidx THEN rx_idx - rx_uidx ELSE rx_idx - rx_uidx + IDX)
  BY <1>0, DistIs DEF Waiting
<1>3. Dist(rx_idx, rx_last) = VQ_SIZE /\ Waiting <= VQ_SIZE
  BY DEF RingInv
<1>4. Waiting \in 0 .. VQ_SIZE /\ Dist(rx_idx, rx_uidx) = VQ_SIZE - Waiting
  BY <1>0, <1>1, <1>2, <1>3 DEF Idx
<1>5. PICK n \in 0 .. VQ_SIZE : n = Waiting
  BY <1>4
<1>6. /\ n < VQ_SIZE => Off(rx_last, At(rx_uidx)) = n
      /\ \A p \in Ids : Off(rx_uidx, p) =
           IF Off(rx_last, p) >= n THEN Off(rx_last, p) - n ELSE Off(rx_last, p) - n + VQ_SIZE
  BY <1>0, <1>5, OffOn DEF Waiting
<1>7. At(rx_idx) = At(rx_last)
  <2>1. VQ_SIZE \in 0 .. VQ_SIZE /\ VQ_SIZE = Dist(rx_idx, rx_last)
    BY <1>1, <1>3
  <2> QED
    BY <1>0, <2>1, OffOn
<1> QED
  BY <1>4, <1>5, <1>6, <1>7

(* The sets of the properties, by places. *)
LEMMA SerialSets ==
  ASSUME TypeOK, RingInv
  PROVE  /\ Available = {p \in Ids : Off(rx_last, p) >= Waiting}
         /\ Used = {p \in Ids : Off(rx_last, p) < Waiting}
         /\ Unread = {p \in Ids : IsUnread(p)}
<1>0. rx_idx \in Idx /\ rx_uidx \in Idx /\ rx_last \in Idx
  BY SerialIndices
<1>1. VQ_SIZE \in Nat \ {0}
  BY VirtqueueAssumption
<1>2. PICK n \in 0 .. VQ_SIZE : n = Waiting
  BY SerialPlaces
<1>3. \A p \in Ids : Off(rx_last, p) \in 0 .. VQ_SIZE - 1
  BY <1>0, OffIs
<1>4. Available = {p \in Ids : Off(rx_last, p) >= n}
  <2>1. Dist(rx_idx, rx_uidx) = VQ_SIZE - n
    BY <1>2, SerialPlaces
  <2>2. Span(rx_uidx, rx_idx) = {p \in Ids : Off(rx_uidx, p) < VQ_SIZE - n}
    <3>1. VQ_SIZE - n <= VQ_SIZE
      BY <1>1
    <3> QED
      BY <1>0, <2>1, <3>1, SpanIs
  <2>3. \A p \in Ids : Off(rx_uidx, p) = IF Off(rx_last, p) >= n THEN Off(rx_last, p) - n
                                         ELSE Off(rx_last, p) - n + VQ_SIZE
    BY <1>2, SerialPlaces
  <2>4. \A p \in Ids : Off(rx_uidx, p) < VQ_SIZE - n <=> Off(rx_last, p) >= n
    BY <1>1, <1>3, <2>3
  <2>5. Available = Span(rx_uidx, rx_idx)
    <3>1. Span(rx_uidx, rx_idx) \subseteq Ids
      BY <2>2
    <3>2. \A p \in Span(rx_uidx, rx_idx) : rx_ring[p] = p
      BY <3>1 DEF RingInv, Prefilled
    <3>3. dev_rx = rx_uidx
      BY DEF RingInv
    <3> QED
      BY <3>2, <3>3 DEF Available
  <2> QED
    BY <2>2, <2>4, <2>5
<1>5. Span(rx_last, rx_uidx) = {p \in Ids : Off(rx_last, p) < n}
  BY <1>0, <1>1, <1>2, SpanIs DEF Waiting
<1>6. \A p \in Ids : Off(rx_last, p) < n => rx_used[p] = p
  BY <1>2 DEF RingInv
<1>7. Used = {p \in Ids : Off(rx_last, p) < n}
  BY <1>5, <1>6 DEF Used
<1>8. Unread = {p \in Ids : IsUnread(p)}
  <2>1. CASE pc # "rearm"
    <3>1. Unread = {rx_used[p] : p \in Span(rx_last, rx_uidx)}
      BY <2>1 DEF Unread
    <3>2. \A p \in Ids : IsUnread(p) <=> Off(rx_last, p) < n
      BY <1>2, <1>3, <2>1 DEF IsUnread, First
    <3> QED
      BY <1>5, <1>6, <3>1, <3>2
  <2>2. CASE pc = "rearm"
    <3>1. Unread = {rx_used[p] : p \in Span(Inc(rx_last), rx_uidx)}
      BY <2>2 DEF Unread
    <3>2. n >= 1
      BY <1>2, <2>2 DEF RingInv
    <3>3. Inc(rx_last) \in Idx
      BY <1>0, IncIs
    <3>4. Dist(rx_uidx, Inc(rx_last)) = n - 1
      BY <1>0, <1>2, <3>2, DistNext DEF Waiting
    <3>5. Span(Inc(rx_last), rx_uidx) = {p \in Ids : Off(Inc(rx_last), p) < n - 1}
      BY <1>0, <1>1, <3>3, <3>4, SpanIs
    <3>6. \A p \in Ids : Off(Inc(rx_last), p) = IF Off(rx_last, p) = 0 THEN VQ_SIZE - 1 ELSE Off(rx_last, p) - 1
      BY <1>0, OffIs
    <3>7. \A p \in Ids : Off(Inc(rx_last), p) < n - 1 <=> IsUnread(p)
      BY <1>1, <1>2, <1>3, <2>2, <3>6 DEF IsUnread, First
    <3>8. \A p \in Ids : IsUnread(p) => rx_used[p] = p
      BY <1>2, <1>6 DEF IsUnread
    <3> QED
      BY <3>1, <3>5, <3>7, <3>8
  <2> QED
    BY <2>1, <2>2
<1> QED
  BY <1>2, <1>4, <1>7, <1>8

-----------------------------------------------------------------------------
(* virtio-serial: the steps *)

(* prefill_rx establishes the invariant. *)
LEMMA SerialStart == Init => SerialInv
<1> SUFFICES ASSUME Init PROVE SerialInv
  OBVIOUS
<1>0. /\ VQ_SIZE \in Nat \ {0} /\ IDX \in Nat /\ IDX > VQ_SIZE
      /\ RX_BUF_SIZE \in Nat \ {0} /\ MaxRead \in Nat \ {0} /\ MaxTyped \in Nat /\ MaxWrites \in Nat
  BY VirtqueueAssumption, VirtioAssumption
<1>1. 0 \in Idx /\ VQ_SIZE \in Idx /\ 0 \in Ids
  BY <1>0 DEF Idx, Ids
<1>2. Dist(0, 0) = 0 /\ Dist(VQ_SIZE, 0) = VQ_SIZE
  BY <1>0, <1>1, DistIs
<1>3. TypeOK
  <2>1. Prefilled \in [Ids -> Ids]
    BY DEF Prefilled
  <2>2. <<>> \in Seq(1 .. MaxTyped) /\ <<>> \in Seq(0 .. MaxWrites)
    OBVIOUS
  <2>3. [i \in Ids |-> <<>>] \in [Ids -> Seq(1 .. MaxTyped)] /\ [i \in Ids |-> 0] \in [Ids -> Ids]
    BY <1>1, <2>2
  <2>4. /\ rx_ring \in [Ids -> Ids] /\ rx_used \in [Ids -> Ids]
        /\ rx_buf \in [Ids -> Seq(1 .. MaxTyped)] /\ id \in Ids
    BY <1>1, <2>1, <2>3 DEF Init
  <2>5. {rx_idx, rx_uidx, rx_last, dev_rx, tx_idx, tx_uidx, tx_avail, tx_last, dev_tx} \subseteq 0 .. IDX - 1
    BY <1>1 DEF Init, Idx
  <2>6. /\ msg \in 0 .. MaxWrites /\ tx_buf \in 0 .. MaxWrites /\ left \in 0 .. MaxRead
        /\ typed \in 0 .. MaxTyped
    BY <1>0 DEF Init
  <2>7. got \in Seq(1 .. MaxTyped) /\ out \in Seq(0 .. MaxWrites) /\ cut \subseteq 1 .. MaxTyped
    BY <2>2 DEF Init
  <2> QED
    BY <2>4, <2>5, <2>6, <2>7 DEF Init, TypeOK
<1>4. Waiting = 0
  BY <1>2 DEF Waiting, Init
<1>5. \A p \in Ids : Off(0, p) \in 0 .. VQ_SIZE - 1
  BY <1>1, OffIs
<1>6. RingInv
  BY <1>0, <1>2, <1>4, <1>5 DEF RingInv, Init
<1>7. DataInv
  <2>1. \A p \in Ids : ~IsUnread(p)
    BY <1>4, <1>5 DEF IsUnread, First, Init
  <2>2. Elems(got) = {} /\ Done = {} /\ Increasing(got)
    BY DEF Done, Elems, Increasing, Init
  <2>3. 1 .. typed = {}
    BY DEF Init
  <2> QED
    BY <2>1, <2>2, <2>3 DEF DataInv
<1>8. TxInv
  BY DEF TxInv, Init
<1> QED
  BY <1>3, <1>6, <1>7, <1>8 DEF SerialInv

(* Steps that leave the receive side alone. *)
RxSame == UNCHANGED <<rxVars, id>> /\ (pc = "rearm" <=> pc' = "rearm")

(* They keep its part of the invariant. *)
LEMMA RxSameKeeps ==
  ASSUME SerialInv, RxSame
  PROVE  RingInv' /\ DataInv'
<1>1. UNCHANGED <<rx_ring, rx_idx, rx_used, rx_uidx, rx_buf, rx_last, dev_rx, typed, got, cut, id>>
  BY DEF RxSame, rxVars
<1>2. pc = "rearm" <=> pc' = "rearm"
  BY DEF RxSame
<1>3. Waiting' = Waiting /\ First' = First /\ Done' = Done
  BY <1>1, <1>2 DEF Waiting, First, Done
<1>4. RingInv'
  BY <1>1, <1>2, <1>3 DEF SerialInv, RingInv
<1>5. \A p : IsUnread(p)' <=> IsUnread(p)
  BY <1>1, <1>3 DEF IsUnread
<1>6. DataInv'
  BY <1>1, <1>3, <1>5 DEF SerialInv, DataInv
<1> QED
  BY <1>4, <1>6

(* Steps that leave the transmit side alone. *)
TxSame ==
  /\ UNCHANGED <<txVars, msg>>
  /\ pc' = pc \/ {pc, pc'} \subseteq {"idle", "reading", "rearm"}

(* They keep its part of the invariant. *)
LEMMA TxSameKeeps ==
  ASSUME SerialInv, TxSame
  PROVE  TxInv'
<1>1. UNCHANGED <<tx_idx, tx_uidx, tx_buf, tx_avail, tx_last, dev_tx, out, late, msg>>
  BY DEF TxSame, txVars
<1>2. pc' = pc \/ {pc, pc'} \subseteq {"idle", "reading", "rearm"}
  BY DEF TxSame
<1> QED
  BY <1>1, <1>2 DEF SerialInv, TxInv

(* The steps of vcon_write and of the device that sends. *)
LEMMA WriteKeeps ==
  ASSUME SerialInv, vcon_write \/ WriteStep \/ DeviceSend
  PROVE  SerialInv'
<1>0. TypeOK /\ TxInv
  BY DEF SerialInv
<1>1. /\ VQ_SIZE \in Nat \ {0} /\ IDX \in Nat /\ IDX > VQ_SIZE /\ MaxWrites \in Nat
  BY VirtqueueAssumption, VirtioAssumption
<1>2. tx_idx \in Idx /\ tx_uidx \in Idx /\ tx_avail \in Idx /\ tx_last \in Idx /\ dev_tx \in Idx
  BY <1>0, SerialIndices
<1>3. Inc(tx_avail) \in Idx /\ Inc(tx_uidx) \in Idx /\ Inc(dev_tx) \in Idx /\ Inc(tx_avail) # tx_avail
  <2>1. Inc(tx_avail) = IF tx_avail + 1 = IDX THEN 0 ELSE tx_avail + 1
    BY <1>2, IncIs
  <2>2. Inc(tx_avail) # tx_avail
    BY <1>1, <1>2, <2>1 DEF Idx
  <2> QED
    BY <1>2, <2>2, IncIs
<1>4. RxSame
  BY DEF vcon_write, WriteStep, vcon_write_post, vcon_write_poll, vcon_write_return, DeviceSend, RxSame
<1>5. CASE vcon_write
  <2>1. TypeOK'
    BY <1>0, <1>1, <1>5, SMTT(30) DEF TypeOK, vcon_write, rxVars
  <2>2. TxInv'
    BY <1>0, <1>1, <1>5 DEF TxInv, TypeOK, vcon_write
  <2> QED
    BY <1>4, <2>1, <2>2, RxSameKeeps DEF SerialInv
<1>6. CASE vcon_write_post
  <2>1. TypeOK'
    BY <1>0, <1>3, <1>6 DEF TypeOK, vcon_write_post, rxVars, Idx
  <2>2. TxInv'
    BY <1>0, <1>1, <1>3, <1>6 DEF TxInv, TypeOK, vcon_write_post
  <2> QED
    BY <1>4, <2>1, <2>2, RxSameKeeps DEF SerialInv
<1>7. CASE vcon_write_poll
  <2>0. late' = (late \/ tx_uidx = tx_last) /\ late' \in BOOLEAN
    BY <1>7 DEF vcon_write_poll
  <2>1. TypeOK'
    BY <1>0, <1>7, <2>0 DEF TypeOK, vcon_write_poll, rxVars
  <2>2. ~late' => ~late /\ tx_uidx # tx_last
    BY <1>0, <2>0 DEF TypeOK
  <2>3. TxInv'
    BY <1>0, <1>7, <2>2 DEF TxInv, vcon_write_poll
  <2> QED
    BY <1>4, <2>1, <2>3, RxSameKeeps DEF SerialInv
<1>8. CASE vcon_write_return
  <2>1. TypeOK'
    BY <1>0, <1>2, <1>3, <1>8 DEF TypeOK, vcon_write_return, rxVars, Idx, SkipUsed
  <2>2. TxInv'
    BY <1>0, <1>3, <1>8 DEF TxInv, vcon_write_return, SkipUsed
  <2> QED
    BY <1>4, <2>1, <2>2, RxSameKeeps DEF SerialInv
<1>9. CASE DeviceSend
  <2>0. out' = Append(out, tx_buf) /\ out \in Seq(0 .. MaxWrites) /\ tx_buf \in 0 .. MaxWrites
    BY <1>0, <1>9 DEF DeviceSend, TypeOK
  <2>1. /\ out' \in Seq(0 .. MaxWrites) /\ Len(out') = Len(out) + 1 /\ Len(out) \in Nat
        /\ \A k \in 1 .. Len(out) : out'[k] = out[k]
        /\ out'[Len(out) + 1] = tx_buf
    BY <2>0, AppendProperties
  <2>2. TypeOK'
    <3>1. {dev_tx', tx_uidx'} \subseteq 0 .. IDX - 1 /\ out' \in Seq(0 .. MaxWrites)
      BY <1>3, <1>9, <2>1 DEF DeviceSend, Idx
    <3>2. UNCHANGED <<rxVars, tx_idx, tx_buf, tx_avail, tx_last, late, pc, msg, left, id>>
      BY <1>9 DEF DeviceSend
    <3> QED
      BY <1>0, <3>1, <3>2 DEF TypeOK, rxVars
  <2>3. dev_tx # tx_idx
    <3>1. Dist(tx_idx, dev_tx) # 0
      BY <1>1, <1>9 DEF DeviceSend, Ahead, Dist
    <3> QED
      BY <1>2, <3>1, DistNext
  <2>4. UNCHANGED <<tx_idx, tx_buf, tx_avail, tx_last, late, pc, msg>> /\ dev_tx' = Inc(dev_tx) /\ tx_uidx' = Inc(tx_uidx)
    BY <1>9 DEF DeviceSend
  <2>5. ASSUME ~late
        PROVE  pc = "polling" /\ dev_tx = tx_avail /\ Len(out) = msg - 1
    BY <1>0, <2>3, <2>5 DEF TxInv
  <2>6. ASSUME ~late
        PROVE  \A k \in 1 .. Len(out') : out'[k] = k
    <3>1. tx_buf = msg /\ \A k \in 1 .. Len(out) : out[k] = k
      BY <1>0, <2>5, <2>6 DEF TxInv
    <3>2. msg \in Nat
      BY <1>0, <1>1 DEF TypeOK
    <3> QED
      BY <2>1, <2>5, <2>6, <3>1, <3>2
  <2>7. TxInv'
    <3>1. tx_uidx' = dev_tx'
      BY <1>0, <2>4 DEF TxInv
    <3>2. CASE late
      BY <2>4, <3>1, <3>2 DEF TxInv
    <3>3. CASE ~late
      <4>1. Len(out') = msg
        <5>1. msg \in Nat
          BY <1>0, <1>1 DEF TypeOK
        <5> QED
          BY <2>1, <2>5, <3>3, <5>1
      <4>2. tx_last = tx_avail /\ tx_buf = msg /\ msg >= 1 /\ tx_idx = Inc(tx_avail)
        BY <1>0, <2>5, <3>3 DEF TxInv
      <4>3. pc = "polling" /\ dev_tx' = Inc(tx_avail)
        BY <2>4, <2>5, <3>3
      <4> QED
        BY <2>4, <2>6, <3>1, <3>3, <4>1, <4>2, <4>3 DEF TxInv
    <3> QED
      BY <3>2, <3>3
  <2> QED
    BY <1>4, <2>2, <2>7, RxSameKeeps DEF SerialInv
<1> QED
  BY <1>5, <1>6, <1>7, <1>8, <1>9 DEF WriteStep

(* The start and the end of vcon_read. *)
LEMMA ReadFrameKeeps ==
  ASSUME SerialInv, vcon_read_return \/ \E size \in 1 .. MaxRead : vcon_read(size)
  PROVE  SerialInv'
<1>0. TypeOK
  BY DEF SerialInv
<1>1. MaxRead \in Nat \ {0}
  BY VirtioAssumption
<1>2. CASE vcon_read_return
  <2>1. RxSame /\ TxSame
    BY <1>2 DEF vcon_read_return, RxSame, TxSame
  <2>2. TypeOK'
    BY <1>0, <1>1, <1>2, SMTT(30) DEF TypeOK, vcon_read_return, rxVars, txVars
  <2> QED
    BY <2>1, <2>2, RxSameKeeps, TxSameKeeps DEF SerialInv
<1>3. ASSUME NEW size \in 1 .. MaxRead, vcon_read(size)
      PROVE  SerialInv'
  <2>1. /\ pc = "idle"
        /\ \/ pc' = "idle" /\ left' = left
           \/ pc' = "reading" /\ left' = size
    BY <1>3 DEF vcon_read
  <2>2. UNCHANGED <<rxVars, txVars, msg, id>>
    BY <1>3 DEF vcon_read
  <2>3. RxSame /\ TxSame
    BY <2>1, <2>2 DEF RxSame, TxSame
  <2>4. left' \in 0 .. MaxRead
    <3>1. left \in 0 .. MaxRead
      BY <1>0 DEF TypeOK
    <3>2. size \in 0 .. MaxRead
      BY <1>1
    <3> QED
      BY <2>1, <3>1, <3>2
  <2>5. TypeOK'
    BY <1>0, <2>1, <2>2, <2>4 DEF TypeOK, rxVars, txVars
  <2> QED
    BY <2>3, <2>5, RxSameKeeps, TxSameKeeps DEF SerialInv
<1> QED
  BY <1>2, <1>3

(* The bytes of a sequence. *)
LEMMA ElemsIn ==
  ASSUME NEW S, NEW s \in Seq(S)
  PROVE  Elems(s) \subseteq S
BY DEF Elems

SplitAs(M, g, s, h, c) ==
  /\ h \in Seq(1 .. M) /\ Increasing(h) /\ c \subseteq 1 .. M
  /\ Elems(h) \cup c = Elems(g) \cup Elems(s)
  /\ Elems(g) \subseteq Elems(h) /\ Elems(h) \cap c = {}
  /\ Elems(h) \subseteq Elems(g) \cup Elems(s)

(* A buffer's bytes split at n: what is copied and what is cut off. *)
LEMMA CopiedBytes ==
  ASSUME NEW M \in Nat, NEW g \in Seq(1 .. M), NEW s \in Seq(1 .. M), NEW n \in 0 .. Len(s),
         Increasing(g), Increasing(s), Precede(Elems(g), Elems(s)),
         NEW h, h = g \o SubSeq(s, 1, n), NEW c, c = {s[k] : k \in n + 1 .. Len(s)}
  PROVE  SplitAs(M, g, s, h, c)
<1> DEFINE t == SubSeq(s, 1, n)
<1>0. Len(s) \in Nat /\ n \in Nat /\ n <= Len(s) /\ Len(g) \in Nat
  OBVIOUS
<1>1. t \in Seq(1 .. M) /\ Len(t) = n /\ \A k \in 1 .. n : t[k] = s[k]
  BY <1>0
<1> HIDE DEF t
<1>2. /\ h \in Seq(1 .. M) /\ Len(h) = Len(g) + n
      /\ \A k \in 1 .. Len(g) : h[k] = g[k]
      /\ \A k \in 1 .. n : h[Len(g) + k] = t[k]
  <2>1. h = g \o t
    BY DEF t
  <2>2. /\ g \o t \in Seq(1 .. M) /\ Len(g \o t) = Len(g) + Len(t)
        /\ \A i \in 1 .. Len(g) + Len(t) : (g \o t)[i] = IF i <= Len(g) THEN g[i] ELSE t[i - Len(g)]
    BY <1>1, ConcatProperties
  <2>3. ASSUME NEW k \in 1 .. n PROVE h[Len(g) + k] = t[k]
    <3>1. Len(g) + k \in 1 .. Len(g) + Len(t) /\ ~(Len(g) + k <= Len(g)) /\ (Len(g) + k) - Len(g) = k
      BY <1>0, <1>1
    <3> QED
      BY <2>1, <2>2, <3>1
  <2>4. ASSUME NEW k \in 1 .. Len(g) PROVE h[k] = g[k]
    <3>1. k \in 1 .. Len(g) + Len(t) /\ k <= Len(g)
      BY <1>0, <1>1
    <3> QED
      BY <2>1, <2>2, <3>1
  <2> QED
    BY <1>1, <2>1, <2>2, <2>3, <2>4
<1>3. \A i \in 1 .. Len(h) : (i \in 1 .. Len(g) /\ h[i] = g[i])
                             \/ (i - Len(g) \in 1 .. n /\ i - Len(g) \in 1 .. Len(s) /\ h[i] = s[i - Len(g)])
  <2>1. TAKE i \in 1 .. Len(h)
  <2>2. CASE i <= Len(g)
    BY <1>0, <1>2, <2>2
  <2>3. CASE i > Len(g)
    <3>1. PICK k \in 1 .. n : i = Len(g) + k
      <4>1. i - Len(g) \in 1 .. n
        BY <1>0, <1>2, <2>3
      <4>2. i = Len(g) + (i - Len(g))
        BY <1>0
      <4> QED
        BY <4>1, <4>2
    <3>2. h[i] = s[k] /\ i - Len(g) = k
      BY <1>0, <1>1, <1>2, <3>1
    <3> QED
      BY <1>0, <3>1, <3>2
  <2> QED
    BY <1>0, <2>2, <2>3
<1>4. Increasing(h)
  <2>1. SUFFICES ASSUME NEW i \in 1 .. Len(h), NEW j \in 1 .. Len(h), i < j
                 PROVE  h[i] < h[j]
    BY DEF Increasing
  <2>2. CASE i \in 1 .. Len(g) /\ j \in 1 .. Len(g)
    BY <1>2, <2>1, <2>2 DEF Increasing
  <2>3. CASE i \in 1 .. Len(g) /\ j \notin 1 .. Len(g)
    <3>1. h[i] \in Elems(g)
      BY <1>2, <2>3 DEF Elems
    <3>2. h[j] \in Elems(s)
      BY <1>3, <2>3 DEF Elems
    <3> QED
      BY <3>1, <3>2 DEF Precede
  <2>4. CASE i \notin 1 .. Len(g)
    <3>1. i - Len(g) \in 1 .. Len(s) /\ h[i] = s[i - Len(g)]
      BY <1>3, <2>4
    <3>2. j \notin 1 .. Len(g)
      BY <1>0, <2>1, <2>4
    <3>3. j - Len(g) \in 1 .. Len(s) /\ h[j] = s[j - Len(g)]
      BY <1>3, <3>2
    <3>4. i - Len(g) < j - Len(g)
      BY <1>0, <2>1
    <3> QED
      BY <3>1, <3>3, <3>4 DEF Increasing
  <2> QED
    BY <2>2, <2>3, <2>4
<1>5. Elems(h) = Elems(g) \cup {s[k] : k \in 1 .. n}
  <2>1. ASSUME NEW x \in Elems(h) PROVE x \in Elems(g) \cup {s[k] : k \in 1 .. n}
    <3>1. PICK i \in 1 .. Len(h) : x = h[i]
      BY DEF Elems
    <3> QED
      BY <1>3, <3>1 DEF Elems
  <2>2. ASSUME NEW x \in Elems(g) PROVE x \in Elems(h)
    <3>1. PICK i \in 1 .. Len(g) : x = g[i]
      BY DEF Elems
    <3>2. i \in 1 .. Len(h) /\ x = h[i]
      BY <1>0, <1>2, <3>1
    <3> QED
      BY <3>2 DEF Elems
  <2>3. ASSUME NEW k \in 1 .. n PROVE s[k] \in Elems(h)
    <3>1. Len(g) + k \in 1 .. Len(h) /\ s[k] = h[Len(g) + k]
      BY <1>0, <1>1, <1>2
    <3> QED
      BY <3>1 DEF Elems
  <2> QED
    BY <2>1, <2>2, <2>3
<1>6. Elems(s) = {s[k] : k \in 1 .. n} \cup c
  <2>1. 1 .. Len(s) = (1 .. n) \cup (n + 1 .. Len(s))
    BY <1>0
  <2> QED
    BY <2>1 DEF Elems
<1>7. Elems(h) \cap c = {}
  <2>1. SUFFICES ASSUME NEW k \in n + 1 .. Len(s), s[k] \in Elems(h) PROVE FALSE
    OBVIOUS
  <2>2. s[k] \in Elems(s) /\ k \in 1 .. Len(s)
    BY <1>0 DEF Elems
  <2>3. s[k] \in 1 .. M
    BY <2>2
  <2>4. CASE s[k] \in Elems(g)
    <3>1. s[k] < s[k]
      BY <2>2, <2>4 DEF Precede
    <3> QED
      BY <2>3, <3>1
  <2>5. CASE \E m \in 1 .. n : s[k] = s[m]
    <3>1. PICK m \in 1 .. n : s[k] = s[m]
      BY <2>5
    <3>2. m < k /\ m \in 1 .. Len(s)
      BY <1>0
    <3>3. s[m] < s[k]
      BY <2>2, <3>2 DEF Increasing
    <3> QED
      BY <2>3, <3>1, <3>3
  <2> QED
    BY <1>5, <2>1, <2>4, <2>5
<1>8. c \subseteq 1 .. M
  BY <1>0
<1> QED
  BY <1>2, <1>4, <1>5, <1>6, <1>7, <1>8 DEF SplitAs

(* A round of vcon_read's loop takes the bytes of the first unread buffer. *)
LEMMA ReadCopyKeeps ==
  ASSUME SerialInv, vcon_read_copy
  PROVE  SerialInv'
<1>0. TypeOK /\ RingInv /\ DataInv
  BY DEF SerialInv
<1>1. VQ_SIZE \in Nat \ {0} /\ MaxTyped \in Nat /\ MaxRead \in Nat
  BY VirtqueueAssumption, VirtioAssumption
<1>2. rx_last \in Idx /\ rx_uidx \in Idx
  BY <1>0, SerialIndices
<1>3. PICK b : b = At(rx_last)
  OBVIOUS
<1>4. b \in Ids /\ Off(rx_last, b) = 0 /\ \A p \in Ids : Off(rx_last, p) \in Nat /\ (Off(rx_last, p) = 0 => p = b)
  <2>1. b \in Ids /\ Off(rx_last, b) = 0 /\ \A p \in Ids : Off(rx_last, p) \in 0 .. VQ_SIZE - 1
    BY <1>2, <1>3, OffIs
  <2>2. \A p, q \in Ids : Off(rx_last, p) = Off(rx_last, q) => p = q
    BY <1>2, OffIs
  <2> QED
    BY <1>1, <2>1, <2>2
<1>5. Waiting \in Nat /\ Waiting >= 1
  <2>1. rx_last # rx_uidx
    BY DEF vcon_read_copy
  <2>2. Waiting # 0
    BY <1>2, <2>1, DistNext DEF Waiting
  <2> QED
    BY <1>0, <1>1, <2>2, SerialPlaces
<1>6. rx_used[rx_last % VQ_SIZE] = b
  BY <1>0, <1>3, <1>4, <1>5 DEF RingInv, At
<1>7. IsUnread(b) /\ pc = "reading" /\ pc' = "rearm" /\ left \in 0 .. MaxRead
  <2>1. pc = "reading" /\ pc' = "rearm"
    BY DEF vcon_read_copy
  <2>2. left \in 0 .. MaxRead
    BY <1>0 DEF TypeOK
  <2>3. IsUnread(b)
    BY <1>4, <1>5, <2>1 DEF IsUnread, First
  <2> QED
    BY <2>1, <2>2, <2>3
<1>8. PICK s \in Seq(1 .. MaxTyped) : s = rx_buf[b]
  BY <1>0, <1>4 DEF TypeOK
<1>9. PICK n \in 0 .. Len(s) : n = Min2(Len(s), left) /\ n <= left
  <2>1. Len(s) \in Nat
    OBVIOUS
  <2> QED
    BY <1>1, <1>7, <2>1 DEF Min2
<1>10. PICK g \in Seq(1 .. MaxTyped) : g = got
  BY <1>0 DEF TypeOK
<1>11. PICK c : c = {s[k] : k \in n + 1 .. Len(s)}
  OBVIOUS
<1>12. /\ id' = b /\ got' = g \o SubSeq(s, 1, n) /\ cut' = cut \cup c /\ left' = left - n
       /\ UNCHANGED <<rx_ring, rx_idx, rx_used, rx_uidx, rx_buf, rx_last, dev_rx, typed, txVars, msg>>
  BY <1>6, <1>8, <1>9, <1>10, <1>11 DEF vcon_read_copy
<1>13. Increasing(g) /\ Elems(g) \cap cut = {} /\ Increasing(s) /\ Precede(Done, Elems(s))
  BY <1>0, <1>4, <1>7, <1>8, <1>10 DEF DataInv
<1>14. Done = Elems(g) \cup cut
  BY <1>10 DEF Done
<1>15. /\ got' \in Seq(1 .. MaxTyped) /\ Increasing(got') /\ c \subseteq 1 .. MaxTyped
       /\ Elems(got') \cup c = Elems(g) \cup Elems(s)
       /\ Elems(g) \subseteq Elems(got') /\ Elems(got') \cap c = {}
       /\ Elems(got') \subseteq Elems(g) \cup Elems(s)
  <2>1. Precede(Elems(g), Elems(s))
    BY <1>13, <1>14 DEF Precede
  <2>2. PICK h : h = got'
    OBVIOUS
  <2>3. h = g \o SubSeq(s, 1, n)
    BY <1>12, <2>2
  <2>4. SplitAs(MaxTyped, g, s, h, c)
    BY <1>1, <1>11, <1>13, <2>1, <2>3, CopiedBytes
  <2> QED
    BY <2>2, <2>4 DEF SplitAs
<1>16. Elems(s) \subseteq 1 .. MaxTyped
  BY ElemsIn
<1>17. Done' = Done \cup Elems(s)
  <2>1. Done' = Elems(got') \cup (cut \cup c)
    BY <1>12 DEF Done, Elems
  <2> QED
    BY <1>14, <1>15, <2>1
<1>18. TypeOK'
  <2>1. left' \in 0 .. MaxRead
    <3>1. PICK l \in 0 .. MaxRead : l = left /\ n <= l /\ n \in Nat /\ left' = l - n
      BY <1>7, <1>9, <1>12
    <3> QED
      BY <1>1, <3>1
  <2>2. UNCHANGED <<tx_idx, tx_uidx, tx_buf, tx_avail, tx_last, dev_tx, out, late>>
    BY <1>12 DEF txVars
  <2>3. cut' \subseteq 1 .. MaxTyped
    BY <1>0, <1>12, <1>15 DEF TypeOK
  <2> QED
    BY <1>0, <1>4, <1>7, <1>12, <1>15, <2>1, <2>2, <2>3 DEF TypeOK
<1>19. Waiting' = Waiting
  BY <1>12 DEF Waiting
<1>20. RingInv'
  BY <1>0, <1>3, <1>5, <1>7, <1>12, <1>19 DEF RingInv
<1>21. \A p \in Ids : IsUnread(p)' <=> IsUnread(p) /\ p # b
  <2>1. First' = 1 /\ First = 0
    BY <1>7 DEF First
  <2>2. \A p \in Ids : (1 <= Off(rx_last, p) /\ Off(rx_last, p) < Waiting)
                       <=> (0 <= Off(rx_last, p) /\ Off(rx_last, p) < Waiting /\ p # b)
    BY <1>4
  <2> QED
    BY <1>12, <1>19, <2>1, <2>2 DEF IsUnread
<1>22. DataInv'
  <2>1. Elems(got') \cap cut' = {}
    <3>1. Elems(s) \cap cut = {}
      <4>1. SUFFICES ASSUME NEW x \in Elems(s), x \in cut PROVE FALSE
        OBVIOUS
      <4>2. x < x /\ x \in Int
        BY <1>13, <1>14, <1>16, <4>1 DEF Precede
      <4> QED
        BY <4>2
    <3> QED
      BY <1>12, <1>13, <1>15, <3>1
  <2>2. ASSUME NEW p \in Ids, IsUnread(p)'
        PROVE  Increasing(rx_buf'[p]) /\ Precede(Done', Elems(rx_buf'[p]))
    <3>1. IsUnread(p) /\ p # b
      BY <1>21, <2>2
    <3>2. Increasing(rx_buf[p]) /\ Precede(Done, Elems(rx_buf[p]))
      BY <1>0, <3>1 DEF DataInv
    <3>3. Off(rx_last, b) < Off(rx_last, p)
      BY <1>4, <3>1
    <3>4. Precede(Elems(s), Elems(rx_buf[p]))
      BY <1>0, <1>4, <1>7, <1>8, <3>1, <3>3 DEF DataInv
    <3> QED
      BY <1>12, <1>17, <3>2, <3>4 DEF Precede
  <2>3. ASSUME NEW p \in Ids, NEW q \in Ids, IsUnread(p)', IsUnread(q)', Off(rx_last', p) < Off(rx_last', q)
        PROVE  Precede(Elems(rx_buf'[p]), Elems(rx_buf'[q]))
    BY <1>0, <1>12, <1>21, <2>3 DEF DataInv
  <2>4. ASSUME NEW x
        PROVE  x \in 1 .. typed' <=>
                 x \in Done' \/ \E p \in Ids : IsUnread(p)' /\ x \in Elems(rx_buf'[p])
    <3>1. x \in 1 .. typed <=> x \in Done \/ \E p \in Ids : IsUnread(p) /\ x \in Elems(rx_buf[p])
      BY <1>0 DEF DataInv
    <3>2. UNCHANGED <<typed, rx_buf>>
      BY <1>12
    <3> QED
      BY <1>4, <1>7, <1>8, <1>17, <1>21, <3>1, <3>2
  <2>5. Increasing(got)'
    BY <1>15 DEF Increasing
  <2>6. (Elems(got) \cap cut = {})'
    BY <2>1 DEF Elems
  <2> QED
    BY <2>2, <2>3, <2>4, <2>5, <2>6 DEF DataInv, Elems, Increasing
<1>23. TxSame
  BY <1>7, <1>12 DEF TxSame
<1> QED
  BY <1>18, <1>20, <1>22, <1>23, TxSameKeeps DEF SerialInv

(* The rest of the round gives the buffer back. *)
LEMMA ReadRearmKeeps ==
  ASSUME SerialInv, vcon_read_rearm
  PROVE  SerialInv'
<1>0. TypeOK /\ RingInv /\ DataInv
  BY DEF SerialInv
<1>1. VQ_SIZE \in Nat \ {0} /\ IDX \in Nat /\ IDX > VQ_SIZE
  BY VirtqueueAssumption
<1>2. rx_last \in Idx /\ rx_uidx \in Idx /\ rx_idx \in Idx
  BY <1>0, SerialIndices
<1>3. Inc(rx_last) \in Idx /\ Inc(rx_idx) \in Idx
  BY <1>2, IncIs
<1>4. /\ pc = "rearm" /\ pc' = "reading" /\ rx_idx' = Inc(rx_idx) /\ rx_last' = Inc(rx_last)
      /\ rx_ring' = [rx_ring EXCEPT ![At(rx_idx)] = id]
      /\ UNCHANGED <<rx_used, rx_uidx, rx_buf, dev_rx, typed, got, cut, txVars, msg, left, id>>
  BY DEF vcon_read_rearm, RearmedIdx, NextLast, At
<1>5. Waiting \in 1 .. VQ_SIZE /\ id = At(rx_last) /\ At(rx_idx) = At(rx_last) /\ At(rx_idx) \in Ids
  <2>1. Waiting >= 1 /\ id = At(rx_last)
    BY <1>0, <1>4 DEF RingInv
  <2> QED
    BY <1>0, <1>1, <1>2, <2>1, SerialPlaces, IncIs
<1>6. rx_ring' = Prefilled
  <2>1. rx_ring = Prefilled
    BY <1>0 DEF RingInv
  <2> QED
    BY <1>4, <1>5, <2>1 DEF Prefilled
<1>7. Waiting' = Waiting - 1
  <2>1. rx_uidx # rx_last
    BY <1>2, <1>5, DistNext DEF Waiting
  <2>2. Dist(rx_uidx, Inc(rx_last)) = Dist(rx_uidx, rx_last) - 1
    BY <1>2, <2>1, DistNext
  <2> QED
    BY <1>4, <2>2 DEF Waiting
<1>8. Dist(rx_idx', rx_last') = VQ_SIZE
  <2>1. Dist(rx_idx, rx_last) = VQ_SIZE
    BY <1>0 DEF RingInv
  <2>2. rx_idx # rx_last /\ Dist(rx_idx, Inc(rx_last)) = VQ_SIZE - 1
    BY <1>1, <1>2, <2>1, DistNext
  <2>3. Dist(Inc(rx_idx), Inc(rx_last)) = VQ_SIZE
    BY <1>1, <1>2, <1>3, <2>2, DistNext
  <2> QED
    BY <1>4, <2>3
<1>9. \A p \in Ids : /\ Off(rx_last, p) \in 0 .. VQ_SIZE - 1
                     /\ Off(rx_last', p) = IF Off(rx_last, p) = 0 THEN VQ_SIZE - 1 ELSE Off(rx_last, p) - 1
  BY <1>2, <1>4, OffIs
<1>10. \A p \in Ids : Off(rx_last', p) < Waiting' <=> IsUnread(p)
  BY <1>1, <1>4, <1>5, <1>7, <1>9 DEF IsUnread, First
<1>11. TypeOK'
  <2>1. UNCHANGED <<tx_idx, tx_uidx, tx_buf, tx_avail, tx_last, dev_tx, out, late>>
    BY <1>4 DEF txVars
  <2>2. rx_ring' \in [Ids -> Ids]
    BY <1>6 DEF Prefilled
  <2>3. {rx_idx', rx_uidx', rx_last', dev_rx', tx_idx', tx_uidx', tx_avail', tx_last', dev_tx'}
          \subseteq 0 .. IDX - 1
    BY <1>0, <1>3, <1>4, <2>1 DEF Idx, TypeOK
  <2>4. UNCHANGED <<rx_used, rx_uidx, rx_buf, dev_rx, typed, got, cut, msg, left, id>> /\ pc' = "reading"
    BY <1>4
  <2> QED
    BY <1>0, <2>1, <2>2, <2>3, <2>4 DEF TypeOK
<1>12. RingInv'
  <2>1. \A p \in Ids : Off(rx_last', p) < Waiting' => rx_used'[p] = p
    BY <1>0, <1>4, <1>10 DEF RingInv, IsUnread
  <2>2. Waiting' <= VQ_SIZE
    BY <1>1, <1>5, <1>7
  <2>3. pc' # "rearm" /\ dev_rx' = rx_uidx'
    BY <1>0, <1>4 DEF RingInv
  <2> QED
    BY <1>6, <1>8, <2>1, <2>2, <2>3 DEF RingInv
<1>13. \A p \in Ids : IsUnread(p)' <=> IsUnread(p)
  BY <1>1, <1>4, <1>9, <1>10 DEF IsUnread, First
<1>14. \A p, q \in Ids : IsUnread(p) /\ IsUnread(q) /\ Off(rx_last', p) < Off(rx_last', q) =>
         Off(rx_last, p) < Off(rx_last, q)
  BY <1>1, <1>4, <1>9 DEF IsUnread, First
<1>15. UNCHANGED <<typed, rx_buf, got, cut, Done>>
  BY <1>4 DEF Done
<1>16. DataInv'
  BY <1>0, <1>13, <1>14, <1>15 DEF DataInv
<1>17. TxSame
  BY <1>4 DEF TxSame
<1> QED
  BY <1>11, <1>12, <1>16, <1>17, TxSameKeeps DEF SerialInv

(* The device fills the first buffer that waits for it. *)
LEMMA ReceiveKeeps ==
  ASSUME SerialInv, NEW n \in 1 .. RX_BUF_SIZE, DeviceReceive(n)
  PROVE  SerialInv'
<1>0. TypeOK /\ RingInv /\ DataInv
  BY DEF SerialInv
<1>1. VQ_SIZE \in Nat \ {0} /\ IDX \in Nat /\ IDX > VQ_SIZE /\ MaxTyped \in Nat /\ n \in Nat \ {0}
  BY VirtqueueAssumption, VirtioAssumption
<1>2. rx_last \in Idx /\ rx_uidx \in Idx /\ rx_idx \in Idx
  BY <1>0, SerialIndices
<1>3. PICK b : b = At(rx_uidx)
  OBVIOUS
<1>4. PICK w \in Nat : w = Waiting
  BY <1>0, <1>1, SerialPlaces
<1>5. w < VQ_SIZE
  <2>1. Dist(rx_idx, rx_uidx) \in 1 .. VQ_SIZE
    BY <1>0 DEF RingInv, DeviceReceive, Ahead, Dist
  <2>2. Dist(rx_idx, rx_uidx) = VQ_SIZE - w
    BY <1>0, <1>4, SerialPlaces
  <2> QED
    BY <1>1, <2>1, <2>2
<1>6. b \in Ids /\ Off(rx_last, b) = w
  BY <1>0, <1>2, <1>3, <1>4, <1>5, SerialPlaces, IncIs
<1>7. \A p \in Ids : Off(rx_last, p) \in Nat /\ (Off(rx_last, p) = w => p = b)
  <2>1. \A p \in Ids : Off(rx_last, p) \in 0 .. VQ_SIZE - 1
    BY <1>2, OffIs
  <2>2. \A p, q \in Ids : Off(rx_last, p) = Off(rx_last, q) => p = q
    BY <1>2, OffIs
  <2> QED
    BY <1>1, <1>6, <2>1, <2>2
<1>8. PICK s : s = [k \in 1 .. n |-> typed + k]
  OBVIOUS
<1>9. /\ rx_ring[dev_rx % VQ_SIZE] = b /\ rx_uidx % VQ_SIZE = b
      /\ dev_rx = rx_uidx
  BY <1>0, <1>3, <1>6 DEF RingInv, Prefilled, At
<1>10. /\ rx_buf' = [rx_buf EXCEPT ![b] = s] /\ rx_used' = [rx_used EXCEPT ![b] = b]
       /\ rx_uidx' = Inc(rx_uidx) /\ dev_rx' = Inc(rx_uidx) /\ typed' = typed + n
       /\ typed + n <= MaxTyped
       /\ UNCHANGED <<rx_ring, rx_idx, rx_last, got, cut, txVars, pc, msg, left, id>>
  BY <1>8, <1>9 DEF DeviceReceive
<1>11. typed \in Nat
  BY <1>0, <1>1 DEF TypeOK
<1>12. s \in Seq(1 .. MaxTyped) /\ Len(s) = n /\ \A k \in 1 .. n : s[k] = typed + k
  <2>1. \A k \in 1 .. n : typed + k \in 1 .. MaxTyped
    BY <1>1, <1>10, <1>11
  <2>2. s \in [1 .. n -> 1 .. MaxTyped]
    BY <1>8, <2>1
  <2> QED
    BY <1>1, <1>8, <2>2
<1>13. Increasing(s) /\ Elems(s) = typed + 1 .. typed + n
  <2>1. Increasing(s)
    BY <1>1, <1>11, <1>12 DEF Increasing
  <2>2. ASSUME NEW x \in typed + 1 .. typed + n
        PROVE  x \in Elems(s)
    <3>1. x - typed \in 1 .. n /\ typed + (x - typed) = x
      BY <1>1, <1>11
    <3> QED
      BY <1>12, <3>1 DEF Elems
  <2>3. ASSUME NEW x \in Elems(s)
        PROVE  x \in typed + 1 .. typed + n
    <3>1. PICK k \in 1 .. n : x = s[k]
      BY <1>12 DEF Elems
    <3> QED
      BY <1>1, <1>11, <1>12, <3>1
  <2> QED
    BY <2>1, <2>2, <2>3
<1>14. /\ rx_buf'[b] = s /\ \A p \in Ids : p # b => rx_buf'[p] = rx_buf[p]
       /\ rx_used'[b] = b /\ \A p \in Ids : p # b => rx_used'[p] = rx_used[p]
  BY <1>0, <1>6, <1>10 DEF TypeOK
<1>15. Inc(rx_uidx) \in Idx
  BY <1>2, IncIs
<1>16. TypeOK'
  <2>1. UNCHANGED <<tx_idx, tx_uidx, tx_buf, tx_avail, tx_last, dev_tx, out, late>>
    BY <1>10 DEF txVars
  <2>2. rx_buf' \in [Ids -> Seq(1 .. MaxTyped)] /\ rx_used' \in [Ids -> Ids]
    <3>1. rx_buf \in [Ids -> Seq(1 .. MaxTyped)] /\ rx_used \in [Ids -> Ids]
      BY <1>0 DEF TypeOK
    <3> QED
      BY <1>6, <1>10, <1>12, <3>1
  <2>3. {rx_idx', rx_uidx', rx_last', dev_rx', tx_idx', tx_uidx', tx_avail', tx_last', dev_tx'}
          \subseteq 0 .. IDX - 1
    BY <1>0, <1>10, <1>15, <2>1 DEF Idx, TypeOK
  <2>4. UNCHANGED <<rx_ring, got, cut, pc, msg, left, id>>
    BY <1>10
  <2>5. typed' \in 0 .. MaxTyped
    BY <1>1, <1>10, <1>11
  <2> QED
    BY <1>0, <2>1, <2>2, <2>3, <2>4, <2>5 DEF TypeOK
<1>17. Waiting' = w + 1
  <2>1. Dist(Inc(rx_uidx), rx_last) = w + 1
    BY <1>1, <1>2, <1>4, <1>5, DistNext DEF Waiting
  <2> QED
    BY <1>10, <2>1 DEF Waiting
<1>18. RingInv'
  <2>1. \A p \in Ids : Off(rx_last', p) < Waiting' => rx_used'[p] = p
    <3>1. \A p \in Ids : Off(rx_last, p) < w => rx_used[p] = p
      BY <1>0, <1>4 DEF RingInv
    <3> QED
      BY <1>4, <1>7, <1>10, <1>14, <1>17, <3>1
  <2>2. pc' = "rearm" => Waiting' >= 1 /\ id' = At(rx_last')
    <3>1. pc = "rearm" => id = At(rx_last)
      BY <1>0 DEF RingInv
    <3> QED
      BY <1>4, <1>10, <1>17, <3>1
  <2>3. Waiting' <= VQ_SIZE
    BY <1>1, <1>4, <1>5, <1>17
  <2>4. rx_ring' = Prefilled /\ dev_rx' = rx_uidx' /\ Dist(rx_idx', rx_last') = VQ_SIZE
    BY <1>0, <1>10 DEF RingInv
  <2> QED
    BY <2>1, <2>2, <2>3, <2>4 DEF RingInv
<1>19. \A p \in Ids : IsUnread(p)' <=> IsUnread(p) \/ p = b
  <2>1. First' = First /\ First \in {0, 1} /\ First <= w
    BY <1>0, <1>4, <1>10 DEF First, RingInv
  <2>2. \A p \in Ids : (First <= Off(rx_last, p) /\ Off(rx_last, p) < w + 1)
                       <=> ((First <= Off(rx_last, p) /\ Off(rx_last, p) < w) \/ p = b)
    BY <1>4, <1>6, <1>7, <2>1
  <2> QED
    BY <1>4, <1>10, <1>17, <2>1, <2>2 DEF IsUnread
<1>20. ~IsUnread(b) /\ \A p \in Ids : IsUnread(p) => Off(rx_last, p) < w
  BY <1>4, <1>6 DEF IsUnread
<1>21. Done' = Done
  BY <1>10 DEF Done
<1>22. \A x : x \in Done => x \in 1 .. typed
  BY <1>0 DEF DataInv
<1>23. \A p \in Ids : \A x : IsUnread(p) /\ x \in Elems(rx_buf[p]) => x \in 1 .. typed
  BY <1>0 DEF DataInv
<1>24. \A x, y : x \in 1 .. typed /\ y \in Elems(s) => x < y
  BY <1>1, <1>11, <1>13
<1>25. DataInv'
  <2>1. Increasing(got)' /\ (Elems(got) \cap cut = {})'
    BY <1>0, <1>10 DEF DataInv
  <2>2. ASSUME NEW p \in Ids, IsUnread(p)'
        PROVE  Increasing(rx_buf'[p]) /\ Precede(Done', Elems(rx_buf'[p]))
    <3>1. CASE p = b
      BY <1>13, <1>14, <1>21, <1>22, <1>24, <3>1 DEF Precede
    <3>2. CASE p # b
      BY <1>0, <1>14, <1>19, <1>21, <2>2, <3>2 DEF DataInv
    <3> QED
      BY <3>1, <3>2
  <2>3. ASSUME NEW p \in Ids, NEW q \in Ids, IsUnread(p)', IsUnread(q)', Off(rx_last', p) < Off(rx_last', q)
        PROVE  Precede(Elems(rx_buf'[p]), Elems(rx_buf'[q]))
    <3>0. Off(rx_last, p) < Off(rx_last, q) /\ Off(rx_last, p) \in Nat /\ Off(rx_last, q) \in Nat
      BY <1>7, <1>10, <2>3
    <3>1. p # b
      <4>1. SUFFICES ASSUME p = b PROVE FALSE
        OBVIOUS
      <4>2. q # b
        BY <3>0, <4>1
      <4>3. Off(rx_last, q) < w /\ Off(rx_last, p) = w
        BY <1>6, <1>19, <1>20, <2>3, <4>1, <4>2
      <4> QED
        BY <1>4, <3>0, <4>3
    <3>2. IsUnread(p)
      BY <1>19, <2>3, <3>1
    <3>3. CASE q = b
      BY <1>14, <1>23, <1>24, <3>1, <3>2, <3>3 DEF Precede
    <3>4. CASE q # b
      <4>1. IsUnread(q)
        BY <1>19, <2>3, <3>4
      <4>2. Precede(Elems(rx_buf[p]), Elems(rx_buf[q]))
        BY <1>0, <3>0, <3>2, <4>1 DEF DataInv
      <4> QED
        BY <1>14, <3>1, <3>4, <4>2
    <3> QED
      BY <3>3, <3>4
  <2>4. ASSUME NEW x
        PROVE  x \in 1 .. typed' <=>
                 x \in Done' \/ \E p \in Ids : IsUnread(p)' /\ x \in Elems(rx_buf'[p])
    <3>1. x \in 1 .. typed <=> x \in Done \/ \E p \in Ids : IsUnread(p) /\ x \in Elems(rx_buf[p])
      BY <1>0 DEF DataInv
    <3>2. x \in 1 .. typed' <=> x \in 1 .. typed \/ x \in Elems(s)
      BY <1>1, <1>10, <1>11, <1>13
    <3>3. (\E p \in Ids : IsUnread(p)' /\ x \in Elems(rx_buf'[p]))
          <=> (\E p \in Ids : IsUnread(p) /\ x \in Elems(rx_buf[p])) \/ x \in Elems(s)
      <4>1. ASSUME NEW p \in Ids, IsUnread(p)', x \in Elems(rx_buf'[p])
            PROVE  (\E q \in Ids : IsUnread(q) /\ x \in Elems(rx_buf[q])) \/ x \in Elems(s)
        BY <1>14, <1>19, <4>1
      <4>2. ASSUME NEW p \in Ids, IsUnread(p), x \in Elems(rx_buf[p])
            PROVE  IsUnread(p)' /\ x \in Elems(rx_buf'[p])
        BY <1>14, <1>19, <1>20, <4>2
      <4>3. ASSUME x \in Elems(s)
            PROVE  IsUnread(b)' /\ x \in Elems(rx_buf'[b])
        BY <1>6, <1>14, <1>19, <4>3
      <4> QED
        BY <1>6, <4>1, <4>2, <4>3
    <3> QED
      BY <1>21, <3>1, <3>2, <3>3
  <2> QED
    BY <2>1, <2>2, <2>3, <2>4 DEF DataInv, Elems, Increasing
<1>26. TxSame
  BY <1>10 DEF TxSame
<1> QED
  BY <1>16, <1>18, <1>25, <1>26, TxSameKeeps DEF SerialInv

-----------------------------------------------------------------------------
(* virtio-serial: the theorems *)

(* The invariant holds always. *)
LEMMA SerialInvariance == Spec => []SerialInv
<1>1. SerialInv /\ [Next]_vars => SerialInv'
  <2> SUFFICES ASSUME SerialInv, [Next]_vars PROVE SerialInv'
    OBVIOUS
  <2>1. CASE vcon_write \/ WriteStep \/ DeviceSend
    BY <2>1, WriteKeeps
  <2>2. CASE vcon_read_return \/ \E size \in 1 .. MaxRead : vcon_read(size)
    BY <2>2, ReadFrameKeeps
  <2>3. CASE vcon_read_copy
    BY <2>3, ReadCopyKeeps
  <2>4. CASE vcon_read_rearm
    BY <2>4, ReadRearmKeeps
  <2>5. CASE \E n \in 1 .. RX_BUF_SIZE : DeviceReceive(n)
    BY <2>5, ReceiveKeeps
  <2>6. CASE UNCHANGED vars
    <3>1. UNCHANGED <<rxVars, txVars, pc, msg, left, id>>
      BY <2>6 DEF vars
    <3>2. RxSame /\ TxSame
      BY <3>1 DEF RxSame, TxSame
    <3>3. TypeOK'
      BY <3>1 DEF SerialInv, TypeOK, rxVars, txVars
    <3> QED
      BY <3>2, <3>3, RxSameKeeps, TxSameKeeps DEF SerialInv
  <2> QED
    BY <2>1, <2>2, <2>3, <2>4, <2>5, <2>6 DEF Next, ReadStep, Device
<1> QED
  BY <1>1, SerialStart, PTL DEF Spec

(* No receive buffer of the console is in two places, and none drops out of   *)
(* circulation (prefill_rx, vcon_read), for every ring size and for every     *)
(* width of the indices.                                                     *)
THEOREM ConsoleBuffers == Spec => []BufferOwnership
<1>1. SerialInv => BufferOwnership
  <2> SUFFICES ASSUME SerialInv PROVE BufferOwnership
    OBVIOUS
  <2>0. TypeOK /\ RingInv
    BY DEF SerialInv
  <2>1. /\ Available = {p \in Ids : Off(rx_last, p) >= Waiting}
        /\ Used = {p \in Ids : Off(rx_last, p) < Waiting}
    BY <2>0, SerialSets
  <2>2. rx_last \in Idx
    BY <2>0, SerialIndices
  <2>3. VQ_SIZE \in Nat \ {0}
    BY VirtqueueAssumption
  <2>4. /\ At(rx_last) \in Ids /\ Off(rx_last, At(rx_last)) = 0
        /\ \A p \in Ids : Off(rx_last, p) \in 0 .. VQ_SIZE - 1
    BY <2>2, OffIs
  <2>5. PICK n \in 0 .. VQ_SIZE : n = Waiting /\ Dist(rx_idx, rx_uidx) = VQ_SIZE - n
    BY <2>0, SerialPlaces
  <2>6. Available \cup Used = Ids /\ Available \cap Used = {}
    BY <2>1, <2>3, <2>4, <2>5
  <2>7. ((rx_idx - dev_rx) % IDX) + ((rx_uidx - rx_last) % IDX) = VQ_SIZE
    <3>1. (rx_idx - dev_rx) % IDX = VQ_SIZE - n
      BY <2>0, <2>5 DEF RingInv, Dist
    <3>2. (rx_uidx - rx_last) % IDX = n
      BY <2>5 DEF Waiting, Dist
    <3> QED
      BY <2>3, <3>1, <3>2
  <2>8. pc = "rearm" => id \in Used
    BY <2>0, <2>1, <2>4, <2>5 DEF RingInv
  <2> QED
    BY <2>6, <2>7, <2>8 DEF BufferOwnership
<1> QED
  BY <1>1, SerialInvariance, PTL

(* Typed bytes reach clients in order and once, and none is lost but those a   *)
(* read had no room for (vcon_read); written messages go out in order and once *)
(* as long as no poll runs out (vcon_write).                                  *)
THEOREM ConsoleBytes == Spec => []BytesAccounted
<1>1. SerialInv => BytesAccounted
  <2> SUFFICES ASSUME SerialInv PROVE BytesAccounted
    OBVIOUS
  <2>0. TypeOK /\ RingInv /\ DataInv /\ TxInv
    BY DEF SerialInv
  <2>1. Unread = {p \in Ids : IsUnread(p)}
    BY <2>0, SerialSets
  <2>2. \A x : x \in UNION {Elems(rx_buf[b]) : b \in Unread}
               <=> \E p \in Ids : IsUnread(p) /\ x \in Elems(rx_buf[p])
    BY <2>1
  <2>3. \A x : x \in 1 .. typed <=> x \in Elems(got) \cup cut \/ \E p \in Ids : IsUnread(p) /\ x \in Elems(rx_buf[p])
    BY <2>0 DEF DataInv, Done
  <2>4. Elems(got) \cup cut \cup UNION {Elems(rx_buf[b]) : b \in Unread} = 1 .. typed
    BY <2>2, <2>3
  <2>5. InputAccounted
    BY <2>0, <2>4 DEF InputAccounted, DataInv
  <2>6. SentWhenPolled
    <3>1. msg \in Nat
      BY <2>0, VirtioAssumption DEF TypeOK
    <3>2. ASSUME ~late
          PROVE  /\ \A k \in 1 .. Len(out) : out[k] = k
                 /\ Len(out) = msg \/ (Len(out) = msg - 1 /\ pc \notin {"idle", "polled"})
      BY <2>0, <3>2 DEF TxInv
    <3> QED
      BY <3>1, <3>2 DEF SentWhenPolled
  <2> QED
    BY <2>5, <2>6 DEF BytesAccounted
<1> QED
  BY <1>1, SerialInvariance, PTL

-----------------------------------------------------------------------------
(* netd: the places, as the invariant counts them *)

(* Indices are indices. *)
LEMMA NetIndices ==
  ASSUME NetQueueTypeOK
  PROVE  /\ n_rx_idx \in Idx /\ n_rx_uidx \in Idx /\ n_rx_last_used \in Idx /\ n_dev_rx \in Idx
         /\ n_tx_idx \in Idx /\ n_tx_uidx \in Idx /\ n_tx_last_used \in Idx
         /\ n_tx_avail_idx \in Idx /\ n_dev_tx \in Idx /\ Base \in Idx
<1>1. /\ n_rx_idx \in Idx /\ n_rx_uidx \in Idx /\ n_rx_last_used \in Idx /\ n_dev_rx \in Idx
      /\ n_tx_idx \in Idx /\ n_tx_uidx \in Idx /\ n_tx_last_used \in Idx
      /\ n_tx_avail_idx \in Idx /\ n_dev_tx \in Idx
  BY DEF NetQueueTypeOK, Idx
<1>2. Inc(n_rx_last_used) \in Idx
  BY <1>1, IncIs
<1> QED
  BY <1>1, <1>2 DEF Base

(* How many buffers the device has filled and published. *)
LEMMA NetPlaces ==
  ASSUME NetQueueTypeOK, NetRingInv
  PROVE  /\ Filled \in 0 .. VQ_SIZE /\ Ready \in 0 .. Filled
         /\ filling = NoId => Filled = Ready
         /\ Dist(n_rx_idx, n_dev_rx) = VQ_SIZE - Filled
         /\ At(n_rx_idx) = At(Base)
         /\ Ready < VQ_SIZE => Off(Base, At(n_rx_uidx)) = Ready
         /\ \A p \in Ids : Off(n_dev_rx, p) =
              IF Off(Base, p) >= Filled THEN Off(Base, p) - Filled ELSE Off(Base, p) - Filled + VQ_SIZE
<1>0. n_rx_idx \in Idx /\ n_rx_uidx \in Idx /\ n_dev_rx \in Idx /\ Base \in Idx
  BY NetIndices
<1>1. VQ_SIZE \in Nat \ {0} /\ IDX \in Nat /\ IDX > VQ_SIZE
  BY VirtqueueAssumption
<1>2. /\ Filled = (IF n_dev_rx >= Base THEN n_dev_rx - Base ELSE n_dev_rx - Base + IDX)
      /\ Ready \in 0 .. IDX - 1
      /\ Dist(n_rx_idx, Base) = (IF n_rx_idx >= Base THEN n_rx_idx - Base ELSE n_rx_idx - Base + IDX)
      /\ Dist(n_rx_idx, n_dev_rx) = (IF n_rx_idx >= n_dev_rx THEN n_rx_idx - n_dev_rx ELSE n_rx_idx - n_dev_rx + IDX)
  BY <1>0, DistIs DEF Filled, Ready
<1>3. Dist(n_rx_idx, Base) = VQ_SIZE /\ Filled <= VQ_SIZE
  BY DEF NetRingInv
<1>4. Filled \in 0 .. VQ_SIZE /\ Dist(n_rx_idx, n_dev_rx) = VQ_SIZE - Filled
  BY <1>0, <1>1, <1>2, <1>3 DEF Idx
<1>5. filling = NoId => Filled = Ready
  BY DEF NetRingInv, Filled, Ready
<1>6. Ready \in 0 .. Filled
  BY <1>1, <1>2, <1>4, <1>5 DEF NetRingInv
<1>7. PICK n \in 0 .. VQ_SIZE : n = Filled
  BY <1>4
<1>8. PICK r \in 0 .. VQ_SIZE : r = Ready
  BY <1>1, <1>4, <1>6
<1>9. \A p \in Ids : Off(n_dev_rx, p) = IF Off(Base, p) >= n THEN Off(Base, p) - n ELSE Off(Base, p) - n + VQ_SIZE
  BY <1>0, <1>7, OffOn DEF Filled
<1>10. r < VQ_SIZE => Off(Base, At(n_rx_uidx)) = r
  BY <1>0, <1>8, OffOn DEF Ready
<1>11. At(n_rx_idx) = At(Base)
  <2>1. VQ_SIZE \in 0 .. VQ_SIZE /\ VQ_SIZE = Dist(n_rx_idx, Base)
    BY <1>1, <1>3
  <2> QED
    BY <1>0, <2>1, OffOn
<1> QED
  BY <1>4, <1>5, <1>6, <1>7, <1>8, <1>9, <1>10, <1>11

-----------------------------------------------------------------------------
(* netd: the steps *)

(* net_prefill_rx establishes the invariant. *)
LEMMA NetStart == NetQueueInit => NetInv
<1> SUFFICES ASSUME NetQueueInit PROVE NetInv
  OBVIOUS
<1>0. /\ VQ_SIZE \in Nat \ {0} /\ IDX \in Nat /\ IDX > VQ_SIZE
      /\ MaxArrive \in Nat /\ MaxFrames \in Nat
  BY VirtqueueAssumption, NetQueueAssumption
<1>1. 0 \in Idx /\ VQ_SIZE \in Idx /\ 0 \in Ids
  BY <1>0 DEF Idx, Ids
<1>2. Dist(0, 0) = 0 /\ Dist(VQ_SIZE, 0) = VQ_SIZE
  BY <1>0, <1>1, DistIs
<1>3. NetQueueTypeOK
  <2>1. Prefilled \in [Ids -> Ids]
    BY DEF Prefilled
  <2>2. <<>> \in Seq(0 .. MaxArrive) /\ <<>> \in Seq(0 .. MaxFrames)
    OBVIOUS
  <2>3. /\ n_rx_ring \in [Ids -> Ids] /\ n_rx_used \in [Ids -> Ids]
        /\ n_rx_buf \in [Ids -> 0 .. MaxArrive] /\ rx_id \in Ids /\ filling \in Ids \cup {NoId}
    BY <1>0, <1>1, <2>1 DEF NetQueueInit
  <2>4. {n_rx_idx, n_rx_uidx, n_rx_last_used, n_dev_rx,
         n_tx_idx, n_tx_uidx, n_tx_last_used, n_tx_avail_idx, n_dev_tx} \subseteq 0 .. IDX - 1
    BY <1>1 DEF NetQueueInit, Idx
  <2>5. /\ arrived \in 0 .. MaxArrive /\ rx_pb \in 0 .. MaxArrive /\ passed \in Seq(0 .. MaxArrive)
        /\ asked \in 0 .. MaxFrames /\ n_tx_buf \in 0 .. MaxFrames /\ wire \in Seq(0 .. MaxFrames)
    BY <1>0, <2>2 DEF NetQueueInit
  <2> QED
    BY <2>3, <2>4, <2>5 DEF NetQueueInit, NetQueueTypeOK
<1>4. Base = 0 /\ Filled = 0 /\ Ready = 0 /\ Holding = 0
  BY <1>2 DEF Base, Filled, Ready, Holding, NetQueueInit
<1>5. \A p \in Ids : Off(0, p) \in 0 .. VQ_SIZE - 1
  BY <1>1, OffIs
<1>6. NetRingInv
  <2>1. \A p \in Ids : ~(Off(Base, p) < Ready)
    BY <1>4, <1>5
  <2> QED
    BY <1>0, <1>2, <1>4, <2>1 DEF NetRingInv, NetQueueInit
<1>7. NetDataInv
  <2>1. \A p \in Ids : ~IsWaiting(p)
    BY <1>4, <1>5 DEF IsWaiting
  <2>2. DOMAIN passed = {} /\ rx_at # "lock"
    BY DEF NetQueueInit
  <2> QED
    BY <2>1, <2>2 DEF NetDataInv, FramesInOrder
<1>8. NetTxInv
  <2>1. DOMAIN wire = {} /\ Len(wire) = 0
    BY DEF NetQueueInit
  <2> QED
    BY <2>1 DEF NetTxInv, NetQueueInit
<1> QED
  BY <1>3, <1>6, <1>7, <1>8 DEF NetInv

(* Steps that leave the rings and the buffers alone. *)
RingsSame ==
  /\ UNCHANGED <<n_rx_ring, n_rx_idx, n_rx_used, n_rx_uidx, n_rx_buf, n_dev_rx, filling, arrived>>
  /\ Base' = Base

(* They keep what is known of the rings, if the thread's buffer is the right   *)
(* one.                                                                      *)
LEMMA RingsSameKeeps ==
  ASSUME NetInv, RingsSame,
         Holding' = 1 => Ready >= 1 /\ rx_id' = At(n_rx_last_used'),
         rx_at' = "ring" => rx_id' = At(n_rx_last_used')
  PROVE  NetRingInv'
<1>1. UNCHANGED <<n_rx_ring, n_rx_idx, n_rx_used, n_rx_uidx, n_dev_rx, filling>> /\ Base' = Base
  BY DEF RingsSame
<1>2. Filled' = Filled /\ Ready' = Ready
  BY <1>1 DEF Filled, Ready
<1> QED
  BY <1>1, <1>2 DEF NetInv, NetRingInv

(* And what is known of the frames, if lwIP is given none and the thread takes *)
(* none.                                                                     *)
LEMMA FramesSameKeeps ==
  ASSUME NetInv, RingsSame, UNCHANGED <<passed, rx_pb>>, rx_at' = "lock" => rx_at = "lock",
         From' = From \/ From' = 1
  PROVE  NetDataInv'
<1>1. UNCHANGED <<n_rx_buf, arrived, passed, rx_pb>> /\ Base' = Base /\ Filled' = Filled
  BY DEF RingsSame, Filled
<1>2. NetDataInv
  BY DEF NetInv
<1>3. \A p \in Ids : IsWaiting(p)' => IsWaiting(p)
  <2>1. From \in {0, 1}
    BY DEF From
  <2>2. \A p \in Ids : Off(Base, p) \in 0 .. VQ_SIZE - 1
    BY NetIndices, OffIs DEF NetInv
  <2>3. \A p \in Ids : From' <= Off(Base, p) => From <= Off(Base, p)
    BY <2>1, <2>2, VirtqueueAssumption
  <2> QED
    BY <1>1, <2>3 DEF IsWaiting
<1>5. FramesInOrder'
  BY <1>1, <1>2 DEF NetDataInv, FramesInOrder
<1>6. \A p \in Ids : IsWaiting(p)' => n_rx_buf'[p] \in 1 .. arrived' /\ Before(n_rx_buf[p])
  BY <1>1, <1>2, <1>3 DEF NetDataInv
<1>7. \A p \in Ids : Before(n_rx_buf[p]) => Before(n_rx_buf[p])'
  BY <1>1 DEF Before
<1>8. \A p, q \in Ids : IsWaiting(p)' /\ IsWaiting(q)' /\ Off(Base', p) < Off(Base', q) =>
        n_rx_buf'[p] < n_rx_buf'[q]
  BY <1>1, <1>2, <1>3 DEF NetDataInv
<1>9. rx_at' = "lock" => rx_pb' \in 1 .. arrived' /\ \A i \in DOMAIN passed' : passed'[i] < rx_pb'
  BY <1>1, <1>2 DEF NetDataInv
<1> QED
  BY <1>5, <1>6, <1>7, <1>8, <1>9 DEF NetDataInv

(* The type invariant, by sides. *)
NetRxTypes ==
  /\ n_rx_ring \in [Ids -> Ids] /\ n_rx_used \in [Ids -> Ids]
  /\ n_rx_buf \in [Ids -> 0 .. MaxArrive] /\ rx_id \in Ids /\ filling \in Ids \cup {NoId}
  /\ {n_rx_idx, n_rx_uidx, n_rx_last_used, n_dev_rx} \subseteq 0 .. IDX - 1
  /\ rx_at \in {"poll", "copy", "lock", "input", "rearm", "ring", "index"}
  /\ arrived \in 0 .. MaxArrive /\ rx_pb \in 0 .. MaxArrive /\ passed \in Seq(0 .. MaxArrive)

NetTxTypes ==
  /\ {n_tx_idx, n_tx_uidx, n_tx_last_used, n_tx_avail_idx, n_dev_tx} \subseteq 0 .. IDX - 1
  /\ sending_at \in {"out", "copied", "wait"}
  /\ asked \in 0 .. MaxFrames /\ n_tx_buf \in 0 .. MaxFrames /\ wire \in Seq(0 .. MaxFrames)

(* The two make it up, with the lock. *)
LEMMA NetTypes == NetQueueTypeOK <=> NetRxTypes /\ NetTxTypes /\ core \in {"free", "app", "rx"}
BY DEF NetQueueTypeOK, NetRxTypes, NetTxTypes

(* Steps that leave the transmit side alone keep its part of the invariant. *)
LEMMA OutputSame ==
  ASSUME NetInv, UNCHANGED ntxVars
  PROVE  NetTxInv' /\ NetTxTypes'
<1>1. UNCHANGED <<n_tx_idx, n_tx_uidx, n_tx_buf, n_tx_last_used, n_tx_avail_idx, sending_at, n_dev_tx, asked, wire>>
  BY DEF ntxVars
<1>2. NetTxInv /\ NetTxTypes
  BY NetTypes DEF NetInv
<1> QED
  BY <1>1, <1>2 DEF NetTxInv, NetTxTypes

(* The steps of net_output, of the core lock and of the device that sends. *)
LEMMA OutputKeeps ==
  ASSUME NetInv, UNCHANGED nrxVars,
         \/ \E who \in {"app", "rx"} : net_output(who)
         \/ TxStep \/ NetDeviceSend \/ UNCHANGED netVars
  PROVE  NetInv'
<1>0. NetQueueTypeOK /\ NetTxInv /\ NetRingInv
  BY DEF NetInv
<1>1. IDX \in Nat /\ IDX > 1 /\ MaxFrames \in Nat
  BY VirtqueueAssumption, NetQueueAssumption
<1>2. /\ n_tx_idx \in Idx /\ n_tx_uidx \in Idx /\ n_tx_last_used \in Idx
      /\ n_tx_avail_idx \in Idx /\ n_dev_tx \in Idx
  BY <1>0, NetIndices
<1>3. /\ Inc(n_tx_avail_idx) \in Idx /\ Inc(n_tx_uidx) \in Idx /\ Inc(n_dev_tx) \in Idx
      /\ Inc(n_tx_last_used) # n_tx_last_used
  <2>1. Inc(n_tx_last_used) = IF n_tx_last_used + 1 = IDX THEN 0 ELSE n_tx_last_used + 1
    BY <1>2, IncIs
  <2>2. Inc(n_tx_last_used) # n_tx_last_used
    BY <1>1, <1>2, <2>1 DEF Idx
  <2> QED
    BY <1>2, <2>2, IncIs
<1>4. /\ UNCHANGED <<n_rx_ring, n_rx_idx, n_rx_used, n_rx_uidx, n_rx_buf, n_rx_last_used>>
      /\ UNCHANGED <<rx_at, rx_id, rx_pb, n_dev_rx, filling, arrived, passed>>
  BY DEF nrxVars
<1>5. NetRingInv' /\ NetDataInv'
  <2>1. UNCHANGED <<Base, Holding, From>>
    BY <1>4 DEF Base, Holding, From
  <2>2. RingsSame
    BY <1>4, <2>1 DEF RingsSame
  <2>3. /\ Holding' = 1 => Ready >= 1 /\ rx_id' = At(n_rx_last_used')
        /\ rx_at' = "ring" => rx_id' = At(n_rx_last_used')
    BY <1>0, <1>4, <2>1 DEF NetRingInv
  <2>4. NetRingInv'
    BY <2>2, <2>3, RingsSameKeeps
  <2>5. NetDataInv'
    BY <1>4, <2>1, <2>2, FramesSameKeeps
  <2> QED
    BY <2>4, <2>5
<1>6. NetRxTypes'
  BY <1>0, <1>4 DEF NetQueueTypeOK, NetRxTypes
<1>7. SUFFICES NetTxInv' /\ NetTxTypes' /\ core' \in {"free", "app", "rx"}
  BY <1>5, <1>6 DEF NetInv, NetQueueTypeOK, NetRxTypes, NetTxTypes
<1>8. asked \in 0 .. MaxFrames /\ n_tx_buf \in 0 .. MaxFrames /\ wire \in Seq(0 .. MaxFrames) /\ Len(wire) \in Nat
  BY <1>0 DEF NetQueueTypeOK
<1>9. ASSUME NEW who \in {"app", "rx"}, net_output(who)
      PROVE  NetTxInv' /\ NetTxTypes' /\ core' \in {"free", "app", "rx"}
  <2>1. NetTxInv'
    BY <1>0, <1>1, <1>8, <1>9 DEF NetTxInv, net_output
  <2>2. asked' \in 0 .. MaxFrames /\ n_tx_buf' \in 0 .. MaxFrames
    BY <1>1, <1>8, <1>9 DEF net_output
  <2> QED
    BY <1>2, <1>8, <1>9, <2>1, <2>2 DEF net_output, Idx, NetTxTypes
<1>10. CASE net_output_post
  <2>1. NetTxInv'
    BY <1>0, <1>3, <1>10 DEF NetTxInv, net_output_post, NetQueueTypeOK
  <2> QED
    BY <1>0, <1>2, <1>3, <1>8, <1>10, <2>1 DEF net_output_post, Idx, NetQueueTypeOK, NetTxTypes
<1>11. CASE net_output_return
  <2>1. NetTxInv'
    BY <1>0, <1>3, <1>11 DEF NetTxInv, net_output_return, TxSkipUsed
  <2> QED
    BY <1>0, <1>2, <1>8, <1>11, <2>1 DEF net_output_return, Idx, NetQueueTypeOK, NetTxTypes, TxSkipUsed
<1>12. CASE app_unlock \/ UNCHANGED netVars
  <2>1. UNCHANGED ntxVars
    BY <1>12 DEF app_unlock, netVars
  <2>2. core' \in {"free", "app", "rx"}
    BY <1>0, <1>12 DEF app_unlock, netVars, NetQueueTypeOK
  <2> QED
    BY <2>1, <2>2, OutputSame
<1>13. CASE NetDeviceSend
  <2>1. /\ UNCHANGED <<n_tx_idx, n_tx_buf, n_tx_last_used, n_tx_avail_idx, sending_at, asked, core>>
        /\ wire' = Append(wire, n_tx_buf) /\ n_tx_uidx' = Inc(n_tx_uidx) /\ n_dev_tx' = Inc(n_dev_tx)
    BY <1>13 DEF NetDeviceSend
  <2>2. n_dev_tx # n_tx_idx
    <3>1. Dist(n_tx_idx, n_dev_tx) # 0
      BY <1>13, VirtqueueAssumption DEF NetDeviceSend, Ahead, Dist
    <3> QED
      BY <1>2, <3>1, DistNext
  <2>3. sending_at = "wait" /\ n_dev_tx = n_tx_last_used /\ Len(wire) = asked - 1 /\ n_tx_buf = asked
    BY <1>0, <2>2 DEF NetTxInv, NetQueueTypeOK
  <2>4. /\ wire' \in Seq(0 .. MaxFrames) /\ Len(wire') = Len(wire) + 1
        /\ \A k \in 1 .. Len(wire) : wire'[k] = wire[k]
        /\ wire'[Len(wire) + 1] = n_tx_buf
    BY <1>8, <2>1, AppendProperties
  <2>5. Len(wire') = asked /\ \A k \in DOMAIN wire' : wire'[k] = k
    <3>1. DOMAIN wire' = 1 .. Len(wire) + 1 /\ DOMAIN wire = 1 .. Len(wire)
      BY <1>8, <2>4
    <3>2. \A k \in DOMAIN wire : wire[k] = k
      BY <1>0 DEF NetTxInv
    <3> QED
      BY <1>1, <1>8, <2>3, <2>4, <3>1, <3>2
  <2>6. n_tx_uidx' = n_dev_tx' /\ n_tx_buf = asked /\ asked >= 1 /\ n_tx_idx = n_tx_avail_idx /\ n_tx_avail_idx = Inc(n_tx_last_used)
    BY <1>0, <2>1, <2>3 DEF NetTxInv
  <2>7. NetTxInv'
    BY <2>1, <2>3, <2>5, <2>6 DEF NetTxInv
  <2> QED
    BY <1>0, <1>2, <1>3, <1>8, <2>1, <2>4, <2>7 DEF Idx, NetQueueTypeOK, NetTxTypes
<1> QED
  BY <1>9, <1>10, <1>11, <1>12, <1>13 DEF TxStep

(* The receive thread takes a buffer, copies its frame and gives it to lwIP. *)
LEMMA TakeKeeps ==
  ASSUME NetInv, rx_poll \/ rx_copy \/ rx_lock \/ rx_unlock
  PROVE  NetInv'
<1>0. NetQueueTypeOK /\ NetRingInv /\ NetDataInv /\ NetRxTypes
  BY NetTypes DEF NetInv
<1>1. VQ_SIZE \in Nat \ {0} /\ MaxArrive \in Nat
  BY VirtqueueAssumption, NetQueueAssumption
<1>2. n_rx_uidx \in Idx /\ n_rx_last_used \in Idx /\ Base \in Idx
  BY <1>0, NetIndices
<1>3. PICK b \in Ids : b = At(n_rx_last_used) /\ Off(n_rx_last_used, b) = 0
  BY <1>2, OffIs
<1>4. \A p \in Ids : Off(Base, p) \in 0 .. VQ_SIZE - 1
  BY <1>2, OffIs
<1>5. /\ UNCHANGED <<n_rx_ring, n_rx_idx, n_rx_used, n_rx_uidx, n_rx_buf, n_rx_last_used, n_dev_rx, filling, arrived>>
      /\ UNCHANGED ntxVars
  BY DEF rx_poll, rx_copy, rx_lock, rx_unlock
<1>6. rx_at \in {"poll", "copy", "lock", "input"} /\ rx_at' \in {"copy", "lock", "input", "rearm"}
  BY DEF rx_poll, rx_copy, rx_lock, rx_unlock
<1>7. Base = n_rx_last_used /\ Base' = n_rx_last_used /\ RingsSame /\ Holding' = 1
  BY <1>5, <1>6 DEF Base, RingsSame, Holding
<1>8. NetTxInv' /\ NetTxTypes'
  BY <1>5, OutputSame
<1>9. core' \in {"free", "app", "rx"}
  BY <1>0 DEF rx_poll, rx_copy, rx_lock, rx_unlock, NetQueueTypeOK, Unlocked
<1>10. Ready >= 1 /\ (rx_at = "poll" => n_rx_used[At(n_rx_last_used)] = b)
  <2>1. CASE rx_at = "poll"
    <3>1. n_rx_uidx # Base
      BY <1>7, <2>1 DEF rx_poll, rx_copy, rx_lock, rx_unlock
    <3>2. Ready # 0
      BY <1>2, <3>1, DistNext DEF Ready
    <3>3. Ready >= 1
      BY <1>0, <1>1, <3>2, NetPlaces
    <3>4. Ready \in Int
      BY <1>0, <1>1, NetPlaces
    <3>5. Off(Base, b) < Ready
      BY <1>3, <1>7, <3>3, <3>4
    <3> QED
      BY <1>0, <1>3, <3>3, <3>5 DEF NetRingInv
  <2>2. CASE rx_at # "poll"
    BY <1>0, <1>6, <2>2 DEF NetRingInv, Holding
  <2> QED
    BY <2>1, <2>2
<1>11. rx_id' = b
  <2>1. CASE rx_poll
    BY <1>10, <2>1 DEF rx_poll, At
  <2>2. CASE rx_copy \/ rx_lock \/ rx_unlock
    <3>1. rx_id' = rx_id /\ Holding = 1
      BY <2>2 DEF rx_copy, rx_lock, rx_unlock, Holding
    <3> QED
      BY <1>0, <1>3, <3>1 DEF NetRingInv
  <2> QED
    BY <2>1, <2>2
<1>12. NetRingInv'
  <2>1. rx_id' = At(n_rx_last_used')
    BY <1>3, <1>5, <1>11
  <2> QED
    BY <1>7, <1>10, <2>1, RingsSameKeeps
<1>13. UNCHANGED <<Filled, n_rx_buf, arrived, Base>>
  BY <1>5, <1>7 DEF Filled
<1>14. CASE ~(rx_copy /\ rx_at' = "lock") /\ ~rx_lock
  <2>1. rx_pb' = rx_pb /\ passed' = passed /\ (rx_at' = "lock" => rx_at = "lock")
    BY <1>14 DEF rx_poll, rx_copy, rx_lock, rx_unlock
  <2>2. From' = From \/ From' = 1
    BY <1>14 DEF rx_poll, rx_copy, rx_lock, rx_unlock, From
  <2>3. NetDataInv'
    BY <1>7, <2>1, <2>2, FramesSameKeeps
  <2>4. NetRxTypes'
    BY <1>0, <1>5, <1>6, <1>11, <2>1 DEF NetRxTypes
  <2> QED
    BY <1>8, <1>9, <1>12, <2>3, <2>4 DEF NetInv, NetQueueTypeOK, NetRxTypes, NetTxTypes
<1>15. CASE rx_copy /\ rx_at' = "lock"
  <2>1. rx_pb' = n_rx_buf[rx_id] /\ rx_at = "copy" /\ passed' = passed /\ rx_id' = rx_id
    BY <1>15 DEF rx_copy
  <2>2. rx_pb' = n_rx_buf[b]
    BY <1>11, <2>1
  <2>3. IsWaiting(b)
    <3>1. Filled \in Int /\ Filled >= 1
      BY <1>0, <1>1, <1>10, NetPlaces
    <3> QED
      BY <1>3, <1>7, <2>1, <3>1 DEF IsWaiting, From
  <2>4. rx_pb' \in 1 .. arrived /\ \A i \in DOMAIN passed : passed[i] < rx_pb'
    BY <1>0, <2>2, <2>3 DEF NetDataInv, Before
  <2>5. \A p \in Ids : IsWaiting(p)' => IsWaiting(p) /\ Off(Base, b) < Off(Base, p)
    <3>1. From' = 1 /\ From = 0
      BY <1>15, <2>1 DEF From
    <3> QED
      BY <1>3, <1>4, <1>7, <1>13, <3>1 DEF IsWaiting
  <2>6. \A p \in Ids : IsWaiting(p)' => n_rx_buf[p] \in 1 .. arrived /\ Before(n_rx_buf[p]) /\ rx_pb' < n_rx_buf[p]
    BY <1>0, <2>2, <2>3, <2>5 DEF NetDataInv
  <2>7. NetDataInv'
    <3>1. FramesInOrder'
      BY <1>0, <1>13, <2>1 DEF NetDataInv, FramesInOrder
    <3>2. rx_pb' \in 1 .. arrived' /\ \A i \in DOMAIN passed' : passed'[i] < rx_pb'
      BY <1>13, <2>1, <2>4
    <3>3. \A p \in Ids : IsWaiting(p)' => n_rx_buf'[p] \in 1 .. arrived' /\ Before(n_rx_buf[p])'
      BY <1>13, <2>1, <2>6 DEF Before
    <3>4. \A p, q \in Ids : IsWaiting(p)' /\ IsWaiting(q)' /\ Off(Base', p) < Off(Base', q) =>
            n_rx_buf'[p] < n_rx_buf'[q]
      BY <1>0, <1>13, <2>5 DEF NetDataInv
    <3> QED
      BY <3>1, <3>2, <3>3, <3>4 DEF NetDataInv
  <2>8. NetRxTypes'
    <3>1. rx_pb' \in 0 .. MaxArrive
      BY <1>0, <1>2, <2>2 DEF NetRxTypes
    <3> QED
      BY <1>0, <1>5, <1>6, <1>11, <2>1, <3>1 DEF NetRxTypes
  <2> QED
    BY <1>8, <1>9, <1>12, <2>7, <2>8 DEF NetInv, NetQueueTypeOK, NetRxTypes, NetTxTypes
<1>16. CASE rx_lock
  <2>1. rx_at = "lock" /\ rx_at' = "input" /\ passed' = Append(passed, rx_pb) /\ rx_pb' = 0 /\ rx_id' = rx_id
    BY <1>16 DEF rx_lock
  <2>2. passed \in Seq(0 .. MaxArrive) /\ rx_pb \in 0 .. MaxArrive /\ arrived \in 0 .. MaxArrive
    BY <1>0 DEF NetRxTypes
  <2>3. rx_pb \in 1 .. arrived /\ \A i \in DOMAIN passed : passed[i] < rx_pb
    BY <1>0, <2>1 DEF NetDataInv
  <2>4. /\ passed' \in Seq(0 .. MaxArrive) /\ Len(passed') = Len(passed) + 1
        /\ \A i \in 1 .. Len(passed) : passed'[i] = passed[i]
        /\ passed'[Len(passed) + 1] = rx_pb
    BY <2>1, <2>2, AppendProperties
  <2>5. DOMAIN passed = 1 .. Len(passed) /\ DOMAIN passed' = 1 .. Len(passed) + 1 /\ Len(passed) \in Nat
    BY <2>2, <2>4
  <2>6. \A i \in DOMAIN passed' : (i \in DOMAIN passed /\ passed'[i] = passed[i]) \/ (i = Len(passed) + 1 /\ passed'[i] = rx_pb)
    BY <2>4, <2>5
  <2>7. FramesInOrder'
    <3>1. /\ \A i, j \in DOMAIN passed : i < j => passed[i] < passed[j]
          /\ \A i \in DOMAIN passed : passed[i] \in 1 .. arrived
      BY <1>0 DEF NetDataInv, FramesInOrder
    <3>2. \A i, j \in DOMAIN passed' : i < j => passed'[i] < passed'[j]
      BY <2>3, <2>5, <2>6, <3>1
    <3>3. \A i \in DOMAIN passed' : passed'[i] \in 1 .. arrived'
      BY <1>13, <2>3, <2>6, <3>1
    <3> QED
      BY <3>2, <3>3 DEF FramesInOrder
  <2>8. From' = From
    BY <2>1 DEF From
  <2>9. \A p \in Ids : IsWaiting(p)' <=> IsWaiting(p)
    BY <1>13, <2>8 DEF IsWaiting
  <2>10. \A p \in Ids : IsWaiting(p)' => n_rx_buf'[p] \in 1 .. arrived' /\ Before(n_rx_buf[p])'
    <3>1. \A p \in Ids : IsWaiting(p) => n_rx_buf[p] \in 1 .. arrived /\ Before(n_rx_buf[p]) /\ rx_pb < n_rx_buf[p]
      BY <1>0, <2>1 DEF NetDataInv, Before
    <3>2. \A p \in Ids : IsWaiting(p) => \A i \in DOMAIN passed' : passed'[i] < n_rx_buf[p]
      BY <2>6, <3>1 DEF Before
    <3> QED
      BY <1>13, <2>1, <2>9, <3>1, <3>2 DEF Before
  <2>11. NetDataInv'
    <3>1. \A p, q \in Ids : IsWaiting(p)' /\ IsWaiting(q)' /\ Off(Base', p) < Off(Base', q) =>
            n_rx_buf'[p] < n_rx_buf'[q]
      BY <1>0, <1>13, <2>9 DEF NetDataInv
    <3> QED
      BY <2>1, <2>7, <2>10, <3>1 DEF NetDataInv
  <2>12. NetRxTypes'
    BY <1>0, <1>1, <1>5, <1>6, <1>11, <2>1, <2>4 DEF NetRxTypes
  <2> QED
    BY <1>8, <1>9, <1>12, <2>11, <2>12 DEF NetInv, NetQueueTypeOK, NetRxTypes, NetTxTypes
<1> QED
  BY <1>14, <1>15, <1>16

(* The buffer in hand goes back: avail.idx is raised, before the ring entry is  *)
(* stored or after it.                                                       *)
GivesBack ==
  /\ rx_at \in {"rearm", "index"} /\ rx_at' \in {"ring", "poll"}
  /\ n_rx_idx' = Inc(n_rx_idx) /\ Base' = Inc(Base)
  /\ rx_at' = "ring" => rx_id' = At(n_rx_last_used')
  /\ UNCHANGED <<n_rx_ring, n_rx_used, n_rx_uidx, n_rx_buf, n_dev_rx, filling, arrived, passed, rx_pb>>

(* What is known of rings and frames is kept, counted from one place on. *)
LEMMA GivesBackKeeps ==
  ASSUME NetInv, GivesBack
  PROVE  NetRingInv' /\ NetDataInv'
<1>0. NetQueueTypeOK /\ NetRingInv /\ NetDataInv
  BY DEF NetInv
<1>1. VQ_SIZE \in Nat \ {0} /\ IDX \in Nat /\ IDX > VQ_SIZE
  BY VirtqueueAssumption
<1>2. n_rx_idx \in Idx /\ n_rx_uidx \in Idx /\ n_dev_rx \in Idx /\ Base \in Idx
  BY <1>0, NetIndices
<1>3. Inc(Base) \in Idx /\ Inc(n_rx_idx) \in Idx
  BY <1>2, IncIs
<1>4. PICK f \in 0 .. VQ_SIZE, r \in 0 .. VQ_SIZE : f = Filled /\ r = Ready /\ r <= f
  BY <1>0, <1>1, NetPlaces
<1>5. Holding = 1 /\ Holding' = 0 /\ From = 1 /\ From' = 0 /\ rx_at # "lock" /\ rx_at' # "lock"
  BY DEF GivesBack, Holding, From
<1>6. r >= 1
  BY <1>0, <1>4, <1>5 DEF NetRingInv
<1>7. UNCHANGED <<n_rx_ring, n_rx_used, n_rx_uidx, n_rx_buf, n_dev_rx, filling, arrived, passed, rx_pb>>
  BY DEF GivesBack
<1>8. Filled' = f - 1 /\ Ready' = r - 1
  <2>1. n_dev_rx # Base /\ n_rx_uidx # Base
    BY <1>2, <1>4, <1>6, DistNext DEF Filled, Ready
  <2>2. Dist(n_dev_rx, Inc(Base)) = f - 1 /\ Dist(n_rx_uidx, Inc(Base)) = r - 1
    BY <1>2, <1>4, <2>1, DistNext DEF Filled, Ready
  <2> QED
    BY <1>7, <2>2 DEF Filled, Ready, GivesBack
<1>9. Dist(n_rx_idx', Base') = VQ_SIZE
  <2>1. Dist(n_rx_idx, Base) = VQ_SIZE
    BY <1>0 DEF NetRingInv
  <2>2. n_rx_idx # Base /\ Dist(n_rx_idx, Inc(Base)) = VQ_SIZE - 1
    BY <1>1, <1>2, <2>1, DistNext
  <2>3. Dist(Inc(n_rx_idx), Inc(Base)) = VQ_SIZE
    BY <1>1, <1>2, <1>3, <2>2, DistNext
  <2> QED
    BY <2>3 DEF GivesBack
<1>10. \A p \in Ids : /\ Off(Base, p) \in 0 .. VQ_SIZE - 1
                      /\ Off(Base', p) = IF Off(Base, p) = 0 THEN VQ_SIZE - 1 ELSE Off(Base, p) - 1
  BY <1>2, OffIs DEF GivesBack
<1>11. NetRingInv'
  <2>1. \A p \in Ids : Off(Base', p) < Ready' => n_rx_used'[p] = p
    <3>1. \A p \in Ids : Off(Base', p) < r - 1 => Off(Base, p) < r
      BY <1>1, <1>10
    <3> QED
      BY <1>0, <1>4, <1>7, <1>8, <3>1 DEF NetRingInv
  <2>2. Filled' <= VQ_SIZE
    BY <1>1, <1>8
  <2>3. filling' # NoId => Filled' = Ready' + 1
    BY <1>0, <1>1, <1>4, <1>7, <1>8 DEF NetRingInv
  <2>4. /\ n_rx_ring' = Prefilled /\ (filling' = NoId => n_dev_rx' = n_rx_uidx')
        /\ filling' # NoId => n_dev_rx' = Inc(n_rx_uidx') /\ filling' = At(n_rx_uidx')
    BY <1>0, <1>7 DEF NetRingInv
  <2> QED
    BY <1>5, <1>9, <2>1, <2>2, <2>3, <2>4 DEF NetRingInv, GivesBack
<1>12. \A p \in Ids : IsWaiting(p)' => IsWaiting(p) /\ Off(Base', p) = Off(Base, p) - 1
  <2>1. \A p \in Ids : Off(Base', p) < f - 1 =>
          1 <= Off(Base, p) /\ Off(Base, p) < f /\ Off(Base', p) = Off(Base, p) - 1
    BY <1>1, <1>10
  <2> QED
    BY <1>4, <1>5, <1>8, <2>1 DEF IsWaiting
<1>13. NetDataInv'
  <2>1. FramesInOrder'
    BY <1>0, <1>7 DEF NetDataInv, FramesInOrder
  <2>2. \A p \in Ids : IsWaiting(p)' => n_rx_buf'[p] \in 1 .. arrived' /\ Before(n_rx_buf[p])
    BY <1>0, <1>7, <1>12 DEF NetDataInv
  <2>3. \A p \in Ids : Before(n_rx_buf[p]) => Before(n_rx_buf[p])'
    BY <1>5, <1>7 DEF Before
  <2>4. \A p, q \in Ids : IsWaiting(p)' /\ IsWaiting(q)' /\ Off(Base', p) < Off(Base', q) =>
          Off(Base, p) < Off(Base, q)
    BY <1>1, <1>10, <1>12
  <2>5. \A p, q \in Ids : IsWaiting(p)' /\ IsWaiting(q)' /\ Off(Base', p) < Off(Base', q) =>
          n_rx_buf'[p] < n_rx_buf'[q]
    BY <1>0, <1>7, <1>12, <2>4 DEF NetDataInv
  <2> QED
    BY <1>5, <2>1, <2>2, <2>3, <2>5 DEF NetDataInv
<1> QED
  BY <1>11, <1>13

(* net_rx_thread re-arms the buffer, in either order of its two stores. *)
LEMMA RearmKeeps ==
  ASSUME NetInv, rx_rearm \/ rx_rearmed
  PROVE  NetInv'
<1>0. NetQueueTypeOK /\ NetRingInv /\ NetDataInv /\ NetRxTypes
  BY NetTypes DEF NetInv
<1>1. VQ_SIZE \in Nat \ {0}
  BY VirtqueueAssumption
<1>2. n_rx_idx \in Idx /\ n_rx_last_used \in Idx /\ Base \in Idx
  BY <1>0, NetIndices
<1>3. /\ UNCHANGED <<n_rx_used, n_rx_uidx, n_rx_buf, rx_id, rx_pb, n_dev_rx, filling, arrived, passed, core>>
      /\ UNCHANGED ntxVars
  BY DEF rx_rearm, rx_rearmed
<1>4. rx_at \in {"rearm", "index", "ring"} /\ rx_id = At(n_rx_last_used)
  <2>1. rx_at \in {"rearm", "index", "ring"}
    BY DEF rx_rearm, rx_rearmed
  <2> QED
    BY <1>0, <2>1 DEF NetRingInv, Holding
<1>5. At(n_rx_idx) = At(Base) /\ At(Base) \in Ids /\ At(n_rx_last_used) \in Ids
  BY <1>0, <1>2, NetPlaces, IncIs
<1>6. n_rx_ring' = n_rx_ring
  <2>0. n_rx_ring = Prefilled
    BY <1>0 DEF NetRingInv
  <2>1. CASE n_rx_ring' = [n_rx_ring EXCEPT ![RearmSlot] = rx_id] /\ rx_at # "ring"
    <3>1. RearmSlot = rx_id /\ rx_id \in Ids
      BY <1>4, <1>5, <2>1 DEF RearmSlot, Base, At
    <3> QED
      BY <2>0, <2>1, <3>1 DEF Prefilled
  <2>2. CASE RearmPrevious /\ rx_at = "ring"
    <3>1. RearmSlot = At(Inc(n_rx_last_used))
      BY <1>5, <2>2 DEF RearmSlot, Base, At
    <3>2. PICK a \in Ids : a = At(n_rx_last_used)
      BY <1>5
    <3>3. RearmSlot = IF a + 1 = VQ_SIZE THEN 0 ELSE a + 1
      BY <1>2, <3>1, <3>2, IncIs
    <3>4. (RearmSlot + VQ_SIZE - 1) % VQ_SIZE = a
      <4>1. CASE a + 1 = VQ_SIZE
        <5>1. RearmSlot + VQ_SIZE - 1 = a
          BY <1>1, <3>3, <4>1 DEF Ids
        <5>2. a % VQ_SIZE = a
          BY <1>1 DEF Ids
        <5> QED
          BY <5>1, <5>2
      <4>2. CASE a + 1 # VQ_SIZE
        <5>1. RearmSlot + VQ_SIZE - 1 = a + VQ_SIZE
          BY <1>1, <3>3, <4>2 DEF Ids
        <5>2. (a + VQ_SIZE) % VQ_SIZE = a % VQ_SIZE
          <6>1. VQ_SIZE % VQ_SIZE = 0 /\ VQ_SIZE \in Nat /\ a \in Int
            BY <1>1 DEF Ids
          <6> QED
            BY <1>1, <6>1, RoundsOn
        <5>3. a % VQ_SIZE = a
          BY <1>1 DEF Ids
        <5> QED
          BY <5>1, <5>2, <5>3
      <4> QED
        BY <4>1, <4>2
    <3>5. n_rx_ring' = [n_rx_ring EXCEPT ![a] = a]
      BY <1>4, <2>2, <3>2, <3>4 DEF RearmPrevious
    <3> QED
      BY <2>0, <3>5 DEF Prefilled
  <2> QED
    BY <2>1, <2>2 DEF rx_rearm, rx_rearmed, RearmRing
<1>7. Inc(n_rx_last_used) \in Idx /\ Inc(n_rx_idx) \in Idx
  BY <1>2, IncIs
<1>8. NetRxTypes'
  <2>1. n_rx_idx' \in {n_rx_idx, Inc(n_rx_idx)} /\ n_rx_last_used' \in {n_rx_last_used, Inc(n_rx_last_used)}
    BY DEF rx_rearm, rx_rearmed, RxNextLast
  <2>2. rx_at' \in {"index", "ring", "poll"}
    BY DEF rx_rearm, rx_rearmed
  <2> QED
    BY <1>0, <1>2, <1>3, <1>6, <1>7, <2>1, <2>2 DEF NetRxTypes, Idx
<1>9. NetTxInv' /\ NetTxTypes' /\ core' \in {"free", "app", "rx"}
  BY <1>0, <1>3, OutputSame DEF NetQueueTypeOK
<1>10. CASE n_rx_idx' = n_rx_idx
  <2>1. /\ (rx_at = "rearm" /\ rx_at' = "index" /\ n_rx_last_used' = n_rx_last_used)
           \/ (rx_at = "ring" /\ rx_at' = "poll" /\ n_rx_last_used' = Inc(n_rx_last_used))
    <3>1. Inc(n_rx_idx) # n_rx_idx
      <4>1. Inc(n_rx_idx) = IF n_rx_idx + 1 = IDX THEN 0 ELSE n_rx_idx + 1
        BY <1>2, IncIs
      <4> QED
        BY <1>2, <4>1, VirtqueueAssumption DEF Idx
    <3> QED
      BY <1>10, <3>1 DEF rx_rearm, rx_rearmed, RxNextLast
  <2>2. Base' = Base
    BY <2>1 DEF Base
  <2>3. RingsSame
    BY <1>3, <1>6, <1>10, <2>2 DEF RingsSame
  <2>4. rx_at' # "ring" /\ (Holding' = 1 => Holding = 1 /\ n_rx_last_used' = n_rx_last_used)
    BY <2>1 DEF Holding
  <2>5. Holding' = 1 => Ready >= 1 /\ rx_id' = At(n_rx_last_used')
    BY <1>0, <1>3, <2>4 DEF NetRingInv
  <2>6. NetRingInv'
    BY <2>3, <2>4, <2>5, RingsSameKeeps
  <2>7. (From' = From \/ From' = 1) /\ rx_at' # "lock"
    BY <2>1 DEF From
  <2>8. NetDataInv'
    BY <1>3, <2>3, <2>7, FramesSameKeeps
  <2> QED
    BY <1>8, <1>9, <2>6, <2>8 DEF NetInv, NetQueueTypeOK, NetRxTypes, NetTxTypes
<1>11. CASE n_rx_idx' # n_rx_idx
  <2>1. /\ n_rx_idx' = Inc(n_rx_idx)
        /\ (rx_at = "rearm" /\ rx_at' = "ring" /\ n_rx_last_used' = n_rx_last_used)
           \/ (rx_at = "index" /\ rx_at' = "poll" /\ n_rx_last_used' = Inc(n_rx_last_used))
    BY <1>11 DEF rx_rearm, rx_rearmed, RxNextLast
  <2>2. Base' = Inc(Base)
    BY <2>1 DEF Base
  <2>3. GivesBack
    BY <1>3, <1>4, <1>6, <2>1, <2>2 DEF GivesBack
  <2>4. NetRingInv' /\ NetDataInv'
    BY <2>3, GivesBackKeeps
  <2> QED
    BY <1>8, <1>9, <2>4 DEF NetInv, NetQueueTypeOK, NetRxTypes, NetTxTypes
<1> QED
  BY <1>10, <1>11

(* The device takes the next available buffer and writes a frame to it. *)
LEMMA FillKeeps ==
  ASSUME NetInv, NetDeviceFill
  PROVE  NetInv'
<1>0. NetQueueTypeOK /\ NetRingInv /\ NetDataInv /\ NetRxTypes
  BY NetTypes DEF NetInv
<1>1. VQ_SIZE \in Nat \ {0} /\ IDX \in Nat /\ IDX > VQ_SIZE /\ MaxArrive \in Nat
  BY VirtqueueAssumption, NetQueueAssumption
<1>2. n_rx_idx \in Idx /\ n_rx_uidx \in Idx /\ n_dev_rx \in Idx /\ Base \in Idx
  BY <1>0, NetIndices
<1>3. n_dev_rx = n_rx_uidx /\ filling = NoId
  BY <1>0 DEF NetRingInv, NetDeviceFill
<1>4. PICK f \in 0 .. VQ_SIZE : f = Filled /\ f = Ready /\ Dist(n_rx_idx, n_dev_rx) = VQ_SIZE - f
  BY <1>0, <1>3, NetPlaces
<1>5. f < VQ_SIZE
  BY <1>1, <1>4 DEF NetDeviceFill, Ahead, Dist
<1>6. PICK b \in Ids : b = At(n_rx_uidx) /\ Off(Base, b) = f
  BY <1>0, <1>2, <1>4, <1>5, NetPlaces, IncIs
<1>7. b # NoId
  BY <1>1 DEF Ids, NoId
<1>8. \A p \in Ids : Off(Base, p) \in Nat /\ (Off(Base, p) = f => p = b)
  <2>1. \A p \in Ids : Off(Base, p) \in 0 .. VQ_SIZE - 1
    BY <1>2, OffIs
  <2>2. \A p, q \in Ids : Off(Base, p) = Off(Base, q) => p = q
    BY <1>2, OffIs
  <2> QED
    BY <1>1, <1>6, <2>1, <2>2
<1>9. /\ filling' = b /\ n_rx_buf' = [n_rx_buf EXCEPT ![b] = arrived + 1]
      /\ arrived' = arrived + 1 /\ arrived < MaxArrive /\ n_dev_rx' = Inc(n_rx_uidx)
  BY <1>0, <1>3, <1>6 DEF NetDeviceFill, NetRingInv, Prefilled, At
<1>10. /\ UNCHANGED <<n_rx_ring, n_rx_idx, n_rx_used, n_rx_uidx, n_rx_last_used, rx_at, rx_id, rx_pb, passed, core>>
       /\ UNCHANGED ntxVars
  BY DEF NetDeviceFill
<1>11. UNCHANGED <<Base, Ready, Holding, From>>
  BY <1>10 DEF Base, Ready, Holding, From
<1>12. Filled' = f + 1
  <2>1. Dist(Inc(n_rx_uidx), Base) = f + 1
    BY <1>1, <1>2, <1>4, <1>5, DistNext DEF Ready
  <2> QED
    BY <1>9, <1>11, <2>1 DEF Filled
<1>13. Inc(n_rx_uidx) \in Idx
  BY <1>2, IncIs
<1>14. arrived \in 0 .. MaxArrive /\ arrived' \in 0 .. MaxArrive
  BY <1>0, <1>1, <1>9 DEF NetRxTypes
<1>15. n_rx_buf'[b] = arrived + 1 /\ \A p \in Ids : p # b => n_rx_buf'[p] = n_rx_buf[p]
  BY <1>0, <1>9 DEF NetRxTypes
<1>16. NetRxTypes'
  <2>1. n_rx_buf' \in [Ids -> 0 .. MaxArrive]
    BY <1>0, <1>9, <1>14 DEF NetRxTypes
  <2> QED
    BY <1>0, <1>9, <1>10, <1>13, <1>14, <2>1 DEF NetRxTypes, Idx
<1>17. NetRingInv'
  <2>1. \A p \in Ids : Off(Base', p) < Ready' => n_rx_used'[p] = p
    BY <1>0, <1>10, <1>11 DEF NetRingInv
  <2>2. filling' # NoId /\ n_dev_rx' = Inc(n_rx_uidx') /\ filling' = At(n_rx_uidx') /\ Filled' = Ready' + 1
    BY <1>4, <1>6, <1>7, <1>9, <1>10, <1>11, <1>12
  <2>3. Filled' <= VQ_SIZE
    BY <1>1, <1>5, <1>12
  <2>4. n_rx_ring' = Prefilled /\ Dist(n_rx_idx', Base') = VQ_SIZE
    BY <1>0, <1>10, <1>11 DEF NetRingInv
  <2>5. /\ Holding' = 1 => Ready' >= 1 /\ rx_id' = At(n_rx_last_used')
        /\ rx_at' = "ring" => rx_id' = At(n_rx_last_used')
    BY <1>0, <1>10, <1>11 DEF NetRingInv
  <2> QED
    BY <2>1, <2>2, <2>3, <2>4, <2>5 DEF NetRingInv
<1>18. \A p \in Ids : IsWaiting(p)' => IsWaiting(p) \/ p = b
  BY <1>4, <1>8, <1>11, <1>12 DEF IsWaiting
<1>19. ~IsWaiting(b) /\ \A p \in Ids : IsWaiting(p) => Off(Base, p) < f
  BY <1>4, <1>6 DEF IsWaiting
<1>20. NetDataInv'
  <2>1. /\ \A i, j \in DOMAIN passed : i < j => passed[i] < passed[j]
        /\ \A i \in DOMAIN passed : passed[i] \in 1 .. arrived
    BY <1>0 DEF NetDataInv, FramesInOrder
  <2>2. FramesInOrder'
    BY <1>9, <1>10, <1>14, <2>1 DEF FramesInOrder
  <2>3. rx_at = "lock" => rx_pb \in 1 .. arrived /\ \A i \in DOMAIN passed : passed[i] < rx_pb
    BY <1>0 DEF NetDataInv
  <2>4. rx_at' = "lock" => rx_pb' \in 1 .. arrived' /\ \A i \in DOMAIN passed' : passed'[i] < rx_pb'
    BY <1>9, <1>10, <1>14, <2>3
  <2>5. ASSUME NEW p \in Ids, IsWaiting(p)'
        PROVE  n_rx_buf'[p] \in 1 .. arrived' /\ Before(n_rx_buf[p])'
    <3>1. CASE p = b
      <4>1. n_rx_buf'[p] = arrived + 1
        BY <1>15, <3>1
      <4>2. n_rx_buf'[p] \in 1 .. arrived'
        BY <1>9, <1>14, <4>1
      <4>3. (\A i \in DOMAIN passed' : passed'[i] < n_rx_buf'[p]) /\ (rx_at' = "lock" => rx_pb' < n_rx_buf'[p])
        BY <1>10, <1>14, <2>1, <2>3, <4>1
      <4> QED
        BY <4>2, <4>3 DEF Before
    <3>2. CASE p # b
      <4>1. IsWaiting(p) /\ n_rx_buf'[p] = n_rx_buf[p]
        BY <1>15, <1>18, <2>5, <3>2
      <4>2. n_rx_buf[p] \in 1 .. arrived /\ Before(n_rx_buf[p])
        BY <1>0, <4>1 DEF NetDataInv
      <4>3. n_rx_buf'[p] \in 1 .. arrived'
        BY <1>9, <1>14, <4>1, <4>2
      <4> QED
        BY <1>10, <4>1, <4>2, <4>3 DEF Before
    <3> QED
      BY <3>1, <3>2
  <2>6. ASSUME NEW p \in Ids, NEW q \in Ids, IsWaiting(p)', IsWaiting(q)', Off(Base', p) < Off(Base', q)
        PROVE  n_rx_buf'[p] < n_rx_buf'[q]
    <3>0. Off(Base, p) < Off(Base, q) /\ Off(Base, p) \in Nat /\ Off(Base, q) \in Nat
      BY <1>8, <1>11, <2>6
    <3>1. p # b
      <4>1. SUFFICES ASSUME p = b PROVE FALSE
        OBVIOUS
      <4>2. q # b
        BY <3>0, <4>1
      <4>3. Off(Base, q) < f /\ Off(Base, p) = f
        BY <1>6, <1>18, <1>19, <2>6, <4>1, <4>2
      <4> QED
        BY <3>0, <4>3
    <3>2. IsWaiting(p) /\ n_rx_buf'[p] = n_rx_buf[p] /\ n_rx_buf[p] \in 1 .. arrived
      BY <1>0, <1>15, <1>18, <2>6, <3>1 DEF NetDataInv
    <3>3. CASE q = b
      BY <1>14, <1>15, <3>2, <3>3
    <3>4. CASE q # b
      <4>1. IsWaiting(q) /\ n_rx_buf'[q] = n_rx_buf[q]
        BY <1>15, <1>18, <2>6, <3>4
      <4>2. n_rx_buf[p] < n_rx_buf[q]
        BY <1>0, <3>0, <3>2, <4>1 DEF NetDataInv
      <4> QED
        BY <3>2, <4>1, <4>2
    <3> QED
      BY <3>3, <3>4
  <2> QED
    BY <2>2, <2>4, <2>5, <2>6 DEF NetDataInv
<1>21. NetTxInv' /\ NetTxTypes' /\ core' \in {"free", "app", "rx"}
  BY <1>0, <1>10, OutputSame DEF NetQueueTypeOK
<1> QED
  BY <1>16, <1>17, <1>20, <1>21 DEF NetInv, NetQueueTypeOK, NetRxTypes, NetTxTypes

(* The device puts the buffer it has filled into the used ring. *)
LEMMA PublishKeeps ==
  ASSUME NetInv, NetDevicePublish
  PROVE  NetInv'
<1>0. NetQueueTypeOK /\ NetRingInv /\ NetDataInv /\ NetRxTypes
  BY NetTypes DEF NetInv
<1>1. VQ_SIZE \in Nat \ {0} /\ IDX \in Nat /\ IDX > VQ_SIZE
  BY VirtqueueAssumption
<1>2. n_rx_uidx \in Idx /\ n_dev_rx \in Idx /\ Base \in Idx
  BY <1>0, NetIndices
<1>3. n_dev_rx = Inc(n_rx_uidx) /\ filling = At(n_rx_uidx) /\ Filled = Ready + 1 /\ Filled <= VQ_SIZE
  BY <1>0 DEF NetRingInv, NetDevicePublish
<1>4. PICK r \in 0 .. VQ_SIZE : r = Ready
  BY <1>0, <1>1, NetPlaces
<1>5. r < VQ_SIZE
  BY <1>1, <1>3, <1>4
<1>6. PICK b \in Ids : b = At(n_rx_uidx) /\ Off(Base, b) = r
  BY <1>0, <1>2, <1>4, <1>5, NetPlaces, IncIs
<1>7. \A p \in Ids : Off(Base, p) \in Nat /\ (Off(Base, p) = r => p = b)
  <2>1. \A p \in Ids : Off(Base, p) \in 0 .. VQ_SIZE - 1
    BY <1>2, OffIs
  <2>2. \A p, q \in Ids : Off(Base, p) = Off(Base, q) => p = q
    BY <1>2, OffIs
  <2> QED
    BY <1>1, <1>6, <2>1, <2>2
<1>8. n_rx_used' = [n_rx_used EXCEPT ![b] = b] /\ n_rx_uidx' = Inc(n_rx_uidx) /\ filling' = NoId
  BY <1>3, <1>6 DEF NetDevicePublish, At
<1>9. /\ UNCHANGED <<n_rx_ring, n_rx_idx, n_rx_buf, n_rx_last_used, rx_at, rx_id, rx_pb, n_dev_rx, arrived, passed, core>>
      /\ UNCHANGED ntxVars
  BY DEF NetDevicePublish
<1>10. UNCHANGED <<Base, Filled, Holding, From>>
  BY <1>9 DEF Base, Filled, Holding, From
<1>11. Ready' = r + 1
  BY <1>3, <1>4, <1>8, <1>10 DEF Filled, Ready
<1>12. n_rx_used'[b] = b /\ \A p \in Ids : p # b => n_rx_used'[p] = n_rx_used[p]
  BY <1>0, <1>8 DEF NetRxTypes
<1>13. NetRxTypes'
  <2>1. n_rx_used' \in [Ids -> Ids]
    BY <1>0, <1>8 DEF NetRxTypes
  <2>2. n_rx_uidx' \in 0 .. IDX - 1
    BY <1>2, <1>3, <1>8 DEF Idx
  <2> QED
    BY <1>0, <1>8, <1>9, <2>1, <2>2 DEF NetRxTypes
<1>14. NetRingInv'
  <2>1. \A p \in Ids : Off(Base', p) < Ready' => n_rx_used'[p] = p
    <3>1. \A p \in Ids : Off(Base, p) < r => n_rx_used[p] = p
      BY <1>0, <1>4 DEF NetRingInv
    <3> QED
      BY <1>7, <1>10, <1>11, <1>12, <3>1
  <2>2. filling' = NoId /\ n_dev_rx' = n_rx_uidx' /\ Filled' <= VQ_SIZE
    BY <1>3, <1>8, <1>9, <1>10
  <2>3. n_rx_ring' = Prefilled /\ Dist(n_rx_idx', Base') = VQ_SIZE
    BY <1>0, <1>9, <1>10 DEF NetRingInv
  <2>4. /\ Holding' = 1 => Ready' >= 1 /\ rx_id' = At(n_rx_last_used')
        /\ rx_at' = "ring" => rx_id' = At(n_rx_last_used')
    BY <1>0, <1>9, <1>10, <1>11 DEF NetRingInv
  <2> QED
    BY <2>1, <2>2, <2>3, <2>4 DEF NetRingInv
<1>15. NetDataInv'
  <2>1. \A p \in Ids : IsWaiting(p)' <=> IsWaiting(p)
    BY <1>10 DEF IsWaiting
  <2>2. \A p \in Ids : Before(n_rx_buf[p])' <=> Before(n_rx_buf[p])
    BY <1>9 DEF Before
  <2>3. FramesInOrder'
    BY <1>0, <1>9 DEF NetDataInv, FramesInOrder
  <2> QED
    BY <1>0, <1>9, <1>10, <2>1, <2>2, <2>3 DEF NetDataInv
<1>16. NetTxInv' /\ NetTxTypes' /\ core' \in {"free", "app", "rx"}
  BY <1>0, <1>9, OutputSame DEF NetQueueTypeOK
<1> QED
  BY <1>13, <1>14, <1>15, <1>16 DEF NetInv, NetQueueTypeOK, NetRxTypes, NetTxTypes

-----------------------------------------------------------------------------
(* netd: the theorems *)

(* The invariant holds always. *)
LEMMA NetInvariance == NetQueueSpec => []NetInv
<1>1. NetInv /\ [NetQueueNext]_netVars => NetInv'
  <2> SUFFICES ASSUME NetInv, [NetQueueNext]_netVars PROVE NetInv'
    OBVIOUS
  <2>1. CASE \/ \E who \in {"app", "rx"} : net_output(who)
             \/ TxStep \/ NetDeviceSend \/ UNCHANGED netVars
    <3>1. UNCHANGED nrxVars
      BY <2>1 DEF net_output, TxStep, net_output_post, net_output_return, app_unlock, NetDeviceSend, netVars
    <3> QED
      BY <2>1, <3>1, OutputKeeps
  <2>2. CASE rx_poll \/ rx_copy \/ rx_lock \/ rx_unlock
    BY <2>2, TakeKeeps
  <2>3. CASE rx_rearm \/ rx_rearmed
    BY <2>3, RearmKeeps
  <2>4. CASE NetDeviceFill
    BY <2>4, FillKeeps
  <2>5. CASE NetDevicePublish
    BY <2>5, PublishKeeps
  <2> QED
    BY <2>1, <2>2, <2>3, <2>4, <2>5 DEF NetQueueNext, RxStep
<1> QED
  BY <1>1, NetStart, PTL DEF NetQueueSpec

(* No receive buffer of netd is in two places and none is lost, whichever of   *)
(* the two stores that re-arm it the device sees first (net_rx_thread).       *)
THEOREM NetBuffers == NetQueueSpec => []RxBufferOwnership
<1>1. NetInv => RxBufferOwnership
  <2> SUFFICES ASSUME NetInv PROVE RxBufferOwnership
    OBVIOUS
  <2>0. NetQueueTypeOK /\ NetRingInv
    BY DEF NetInv
  <2>1. VQ_SIZE \in Nat \ {0}
    BY VirtqueueAssumption
  <2>2. n_rx_idx \in Idx /\ n_rx_uidx \in Idx /\ n_dev_rx \in Idx /\ Base \in Idx /\ n_rx_last_used \in Idx
    BY <2>0, NetIndices
  <2>3. PICK f \in 0 .. VQ_SIZE, r \in 0 .. VQ_SIZE :
          /\ f = Filled /\ r = Ready /\ r <= f
          /\ (filling = NoId => f = r) /\ (filling # NoId => f = r + 1 /\ filling = At(n_rx_uidx))
          /\ (r < VQ_SIZE => Off(Base, At(n_rx_uidx)) = r)
          /\ Dist(n_rx_idx, n_dev_rx) = VQ_SIZE - f
    <3>1. PICK f \in 0 .. VQ_SIZE, r \in 0 .. VQ_SIZE : f = Filled /\ r = Ready /\ r <= f
      BY <2>0, <2>1, NetPlaces
    <3>2. filling # NoId => Filled = Ready + 1 /\ filling = At(n_rx_uidx)
      BY <2>0 DEF NetRingInv
    <3> QED
      BY <2>0, <3>1, <3>2, NetPlaces
  <2>4. \A p \in Ids : Off(Base, p) \in 0 .. VQ_SIZE - 1
    BY <2>2, OffIs
  <2>5. \A p, q \in Ids : Off(Base, p) = Off(Base, q) => p = q
    BY <2>2, OffIs
  <2> DEFINE avail == {n_rx_ring[p] : p \in Span(n_dev_rx, n_rx_idx)}
             used  == {n_rx_used[p] : p \in Span(NotTaken, n_rx_uidx)}
             busy  == {filling} \ {NoId}
  <2>6. avail = {p \in Ids : Off(Base, p) >= f}
    <3>1. VQ_SIZE - f <= VQ_SIZE
      BY <2>1
    <3>2. Span(n_dev_rx, n_rx_idx) = {p \in Ids : Off(n_dev_rx, p) < VQ_SIZE - f}
      BY <2>2, <2>3, <3>1, SpanIs
    <3>3. \A p \in Ids : Off(n_dev_rx, p) = IF Off(Base, p) >= f THEN Off(Base, p) - f ELSE Off(Base, p) - f + VQ_SIZE
      BY <2>0, <2>3, NetPlaces
    <3>4. \A p \in Ids : Off(n_dev_rx, p) < VQ_SIZE - f <=> Off(Base, p) >= f
      BY <2>1, <2>4, <3>3
    <3>5. \A p \in Ids : n_rx_ring[p] = p
      BY <2>0 DEF NetRingInv, Prefilled
    <3> QED
      BY <3>2, <3>4, <3>5
  <2>7. used = {p \in Ids : Holding <= Off(Base, p) /\ Off(Base, p) < r}
    <3>0. \A p \in Ids : Off(Base, p) < r => n_rx_used[p] = p
      BY <2>0, <2>3 DEF NetRingInv
    <3>1. CASE Holding = 0
      <4>1. NotTaken = Base
        BY <3>1 DEF NotTaken, Base, Holding
      <4>2. Span(NotTaken, n_rx_uidx) = {p \in Ids : Off(Base, p) < r}
        BY <2>1, <2>2, <2>3, <4>1, SpanIs DEF Ready
      <4> QED
        BY <2>4, <3>0, <3>1, <4>2
    <3>2. CASE Holding = 1
      <4>1. NotTaken = Inc(Base) /\ r >= 1
        BY <2>0, <2>3, <3>2 DEF NotTaken, Base, Holding, NetRingInv
      <4>2. Dist(n_rx_uidx, Inc(Base)) = r - 1
        BY <2>2, <2>3, <4>1, DistNext DEF Ready
      <4>3. Inc(Base) \in Idx
        BY <2>2, IncIs
      <4>4. Span(NotTaken, n_rx_uidx) = {p \in Ids : Off(Inc(Base), p) < r - 1}
        BY <2>1, <2>2, <4>1, <4>2, <4>3, SpanIs
      <4>5. \A p \in Ids : Off(Inc(Base), p) = IF Off(Base, p) = 0 THEN VQ_SIZE - 1 ELSE Off(Base, p) - 1
        BY <2>2, OffIs
      <4>6. \A p \in Ids : Off(Inc(Base), p) < r - 1 <=> 1 <= Off(Base, p) /\ Off(Base, p) < r
        BY <2>1, <2>4, <4>5
      <4> QED
        BY <3>0, <3>2, <4>4, <4>6
    <3> QED
      BY <3>1, <3>2 DEF Holding
  <2>8. busy = {p \in Ids : Off(Base, p) = r /\ r < f}
    <3>1. CASE filling = NoId
      BY <2>1, <2>3, <3>1
    <3>2. CASE filling # NoId
      <4>1. At(n_rx_uidx) \in Ids
        BY <2>2, IncIs
      <4>2. Off(Base, filling) = r /\ r < f /\ filling \in Ids
        BY <2>1, <2>3, <3>2, <4>1
      <4> QED
        BY <2>5, <3>2, <4>2
    <3> QED
      BY <3>1, <3>2
  <2>9. InHand = {p \in Ids : Off(Base, p) = 0 /\ Holding = 1} /\ (Holding = 1 => r >= 1) /\ Holding \in {0, 1}
    <3>1. CASE Holding = 0
      BY <3>1 DEF InHand, Holding
    <3>2. CASE Holding = 1
      <4>1. InHand = {rx_id} /\ Base = n_rx_last_used
        BY <3>2 DEF InHand, Holding, Base
      <4>2. rx_id = At(Base) /\ r >= 1
        BY <2>0, <2>3, <3>2, <4>1 DEF NetRingInv
      <4>3. At(Base) \in Ids /\ Off(Base, At(Base)) = 0
        BY <2>2, OffIs
      <4> QED
        BY <2>5, <3>2, <4>1, <4>2, <4>3
    <3> QED
      BY <3>1, <3>2 DEF Holding
  <2> HIDE DEF avail, used, busy
  <2>10. f = r \/ f = r + 1
    BY <2>3
  <2>11. avail \cup used \cup busy \cup InHand = Ids
    BY <2>1, <2>4, <2>6, <2>7, <2>8, <2>9, <2>10
  <2>12. /\ avail \cap used = {} /\ (avail \cup used) \cap (busy \cup InHand) = {}
         /\ busy \cap InHand = {}
    BY <2>1, <2>3, <2>4, <2>6, <2>7, <2>8, <2>9
  <2> QED
    BY <2>11, <2>12 DEF RxBufferOwnership, avail, used, busy
<1> QED
  BY <1>1, NetInvariance, PTL

(* lwIP is given frames that arrived, in order, unchanged and none twice       *)
(* (net_rx_thread), and every frame it sends is on the wire, unchanged and in  *)
(* order, before net_output returns.                                         *)
THEOREM NetFrames == NetQueueSpec => []FramesIntact
<1>1. NetInv => FramesIntact
  <2> SUFFICES ASSUME NetInv PROVE FramesIntact
    OBVIOUS
  <2>1. FramesInOrder
    BY DEF NetInv, NetDataInv
  <2>2. asked \in Nat /\ sending_at \in {"out", "copied", "wait"}
    BY NetQueueAssumption DEF NetInv, NetQueueTypeOK
  <2>3. Len(wire) = asked \/ Len(wire) = asked - 1
    BY <2>2 DEF NetInv, NetTxInv
  <2>4. FramesSentIntact
    <3>1. Len(wire) <= asked
      BY <2>2, <2>3
    <3> QED
      BY <3>1 DEF FramesSentIntact, NetInv, NetTxInv
  <2> QED
    BY <2>1, <2>4 DEF FramesIntact
<1> QED
  BY <1>1, NetInvariance, PTL
=============================================================================
