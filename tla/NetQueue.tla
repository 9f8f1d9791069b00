------------------------------ MODULE NetQueue ------------------------------
(***************************************************************************)
(* netd's driver for virtio-net (pkg/netd/server/main.cc): net_output, the *)
(* netif's transmit function, and net_rx_thread, which polls for frames.   *)
(*                                                                         *)
(* lwIP calls net_output with its core lock held, from whichever thread    *)
(* has it: an application or the tcpip thread ("app"; there may be many,   *)
(* the lock lets one in), or the receive thread itself, which takes the    *)
(* lock around ethernet_input and answers ARP and ICMP from inside it.     *)
(*                                                                         *)
(* Frames are numbered as they arrive and as they are sent.  Left out: the *)
(* descriptors, which always point to the same buffers; the interrupt      *)
(* registers; and frames too long for tx_buf, which an MTU of 1500         *)
(* excludes.  Reads of the used ring are in order and fresh.               *)
(***************************************************************************)
EXTENDS Virtqueue, Sequences

CONSTANTS
  MaxArrive,      \* bound: frames ever received by the device
  MaxFrames       \* bound: frames ever sent

ASSUME NetQueueAssumption == MaxArrive \in Nat /\ MaxFrames \in Nat

NoId == VQ_SIZE   \* not a buffer

VARIABLES
  \* memory shared with the device
  n_rx_ring, n_rx_idx,    \* rx_q.avail
  n_rx_used, n_rx_uidx,   \* rx_q.used, as buffer numbers, and its index
  n_rx_buf,               \* the frame in every receive buffer
  n_tx_idx, n_tx_uidx,    \* tx_q.avail.idx and tx_q.used.idx
  n_tx_buf,               \* the frame in the one transmit buffer
  \* the driver
  n_rx_last_used, n_tx_last_used, n_tx_avail_idx,
  core,                   \* who has the core lock: "free", "app" or "rx"
  sending_at,             \* in net_output: "out" (not in it), "copied", "wait"
  rx_at,                  \* net_rx_thread: poll, copy, lock, input, rearm,
                          \*   ring (its index is out first), index
  rx_id, rx_pb,           \* the buffer in hand, and the frame copied from it
  \* the device
  n_dev_rx, n_dev_tx,     \* avail entries it has consumed
  filling,                \* the buffer it is writing, or NoId
  \* history
  arrived,                \* frames the device has received
  passed,                 \* frames given to ethernet_input
  asked,                  \* frames given to net_output
  wire                    \* frames the device has sent

nrxVars == <<n_rx_ring, n_rx_idx, n_rx_used, n_rx_uidx, n_rx_buf, n_rx_last_used,
             rx_at, rx_id, rx_pb, n_dev_rx, filling, arrived, passed>>
ntxVars == <<n_tx_idx, n_tx_uidx, n_tx_buf, n_tx_last_used, n_tx_avail_idx,
             sending_at, n_dev_tx, asked, wire>>
netVars == <<nrxVars, ntxVars, core>>

-----------------------------------------------------------------------------
(* net_output *)

(* the frame goes to tx_buf; an application has taken the lock for it, or    *)
(* has it still, the receive thread is in ethernet_input                   *)
net_output(who) ==
  /\ sending_at = "out" /\ asked < MaxFrames
  /\ \/ who = "app" /\ core \in {"free", "app"}
     \/ who = "rx" /\ rx_at = "input"
  /\ core' = who
  /\ asked' = asked + 1 /\ n_tx_buf' = asked + 1
  /\ sending_at' = "copied"
  /\ UNCHANGED <<nrxVars, n_tx_idx, n_tx_uidx, n_tx_last_used, n_tx_avail_idx, n_dev_tx, wire>>

net_output_post ==
  /\ sending_at = "copied"
  /\ n_tx_idx' = Inc(n_tx_avail_idx) /\ n_tx_avail_idx' = Inc(n_tx_avail_idx)
  /\ sending_at' = "wait"
  /\ UNCHANGED <<nrxVars, n_tx_uidx, n_tx_buf, n_tx_last_used, n_dev_tx, asked, wire, core>>

(* Mutant: the driver does not follow used.idx *)
TxUsedKept == n_tx_last_used

(* all the used entries are skipped *)
TxSkipUsed == n_tx_uidx

(* the loop on used.idx, which has no bound, ends *)
net_output_return ==
  /\ sending_at = "wait" /\ n_tx_uidx # n_tx_last_used
  /\ n_tx_last_used' = TxSkipUsed
  /\ sending_at' = "out"
  /\ UNCHANGED <<nrxVars, n_tx_idx, n_tx_uidx, n_tx_buf, n_tx_avail_idx, n_dev_tx, asked, wire, core>>

app_unlock ==
  /\ core = "app" /\ sending_at = "out"
  /\ core' = "free"
  /\ UNCHANGED <<nrxVars, ntxVars>>

-----------------------------------------------------------------------------
(* net_rx_thread *)

rx_poll ==
  /\ rx_at = "poll" /\ n_rx_uidx # n_rx_last_used
  /\ rx_id' = n_rx_used[n_rx_last_used % VQ_SIZE]
  /\ rx_at' = "copy"
  /\ UNCHANGED <<n_rx_ring, n_rx_idx, n_rx_used, n_rx_uidx, n_rx_buf, n_rx_last_used,
                 rx_pb, n_dev_rx, filling, arrived, passed, ntxVars, core>>

(* the frame is copied, unless it is empty or no pbuf is left *)
rx_copy ==
  /\ rx_at = "copy"
  /\ \/ rx_pb' = n_rx_buf[rx_id] /\ rx_at' = "lock"
     \/ rx_at' = "rearm" /\ UNCHANGED rx_pb
  /\ UNCHANGED <<n_rx_ring, n_rx_idx, n_rx_used, n_rx_uidx, n_rx_buf, n_rx_last_used,
                 rx_id, n_dev_rx, filling, arrived, passed, ntxVars, core>>

rx_lock ==
  /\ rx_at = "lock" /\ core = "free"
  /\ core' = "rx"
  /\ passed' = Append(passed, rx_pb) /\ rx_pb' = 0
  /\ rx_at' = "input"
  /\ UNCHANGED <<n_rx_ring, n_rx_idx, n_rx_used, n_rx_uidx, n_rx_buf, n_rx_last_used,
                 rx_id, n_dev_rx, filling, arrived, ntxVars>>

(* Mutant: ethernet_input is left without UNLOCK_TCPIP_CORE *)
StillLocked == "rx"

Unlocked == "free"

rx_unlock ==
  /\ rx_at = "input" /\ sending_at = "out"
  /\ core' = Unlocked
  /\ rx_at' = "rearm"
  /\ UNCHANGED <<n_rx_ring, n_rx_idx, n_rx_used, n_rx_uidx, n_rx_buf, n_rx_last_used,
                 rx_id, rx_pb, n_dev_rx, filling, arrived, passed, ntxVars>>

(* Mutant: the buffer is put one place on *)
RearmNextSlot == (n_rx_idx + 1) % VQ_SIZE

RearmSlot == n_rx_idx % VQ_SIZE

RxNextLast == Inc(n_rx_last_used)

(* Re-arming stores the ring entry and then avail.idx.  There is no barrier  *)
(* between the two stores, so the device may see either first; the thread   *)
(* goes on once both are out.                                              *)
RearmRing == n_rx_ring' = [n_rx_ring EXCEPT ![RearmSlot] = rx_id]

rx_rearm ==
  /\ \/ rx_at = "rearm" /\ RearmRing /\ rx_at' = "index" /\ UNCHANGED n_rx_idx
     \/ rx_at = "rearm" /\ n_rx_idx' = Inc(n_rx_idx) /\ rx_at' = "ring" /\ UNCHANGED n_rx_ring
  /\ UNCHANGED <<n_rx_used, n_rx_uidx, n_rx_buf, n_rx_last_used, rx_id, rx_pb,
                 n_dev_rx, filling, arrived, passed, ntxVars, core>>

(* the place avail.idx had before it was raised *)
RearmPrevious == n_rx_ring' = [n_rx_ring EXCEPT ![(RearmSlot + VQ_SIZE - 1) % VQ_SIZE] = rx_id]

rx_rearmed ==
  /\ \/ rx_at = "index" /\ n_rx_idx' = Inc(n_rx_idx) /\ UNCHANGED n_rx_ring
     \/ rx_at = "ring" /\ RearmPrevious /\ UNCHANGED n_rx_idx
  /\ n_rx_last_used' = RxNextLast
  /\ rx_at' = "poll"
  /\ UNCHANGED <<n_rx_used, n_rx_uidx, n_rx_buf, rx_id, rx_pb,
                 n_dev_rx, filling, arrived, passed, ntxVars, core>>

-----------------------------------------------------------------------------
(* The device (external).  It uses the receive buffers in the order in which *)
(* they were made available, one at a time.                                *)

NetDeviceFill ==
  /\ filling = NoId /\ Ahead(n_rx_idx, n_dev_rx) /\ arrived < MaxArrive
  /\ filling' = n_rx_ring[n_dev_rx % VQ_SIZE]
  /\ n_rx_buf' = [n_rx_buf EXCEPT ![filling'] = arrived + 1]
  /\ arrived' = arrived + 1 /\ n_dev_rx' = Inc(n_dev_rx)
  /\ UNCHANGED <<n_rx_ring, n_rx_idx, n_rx_used, n_rx_uidx, n_rx_last_used,
                 rx_at, rx_id, rx_pb, passed, ntxVars, core>>

NetDevicePublish ==
  /\ filling # NoId
  /\ n_rx_used' = [n_rx_used EXCEPT ![n_rx_uidx % VQ_SIZE] = filling]
  /\ n_rx_uidx' = Inc(n_rx_uidx)
  /\ filling' = NoId
  /\ UNCHANGED <<n_rx_ring, n_rx_idx, n_rx_buf, n_rx_last_used,
                 rx_at, rx_id, rx_pb, n_dev_rx, arrived, passed, ntxVars, core>>

NetDeviceSend ==
  /\ Ahead(n_tx_idx, n_dev_tx)
  /\ wire' = Append(wire, n_tx_buf)
  /\ n_tx_uidx' = Inc(n_tx_uidx) /\ n_dev_tx' = Inc(n_dev_tx)
  /\ UNCHANGED <<nrxVars, n_tx_idx, n_tx_buf, n_tx_last_used, n_tx_avail_idx, sending_at, asked, core>>

-----------------------------------------------------------------------------
(* net_prefill_rx and the start of the thread *)
NetQueueInit ==
  /\ n_rx_ring = Prefilled /\ n_rx_idx = VQ_SIZE
  /\ n_rx_used = [i \in Ids |-> 0] /\ n_rx_uidx = 0
  /\ n_rx_buf = [i \in Ids |-> 0]
  /\ n_tx_idx = 0 /\ n_tx_uidx = 0 /\ n_tx_buf = 0
  /\ n_rx_last_used = 0 /\ n_tx_last_used = 0 /\ n_tx_avail_idx = 0
  /\ core = "free" /\ sending_at = "out"
  /\ rx_at = "poll" /\ rx_id = 0 /\ rx_pb = 0
  /\ n_dev_rx = 0 /\ n_dev_tx = 0 /\ filling = NoId
  /\ arrived = 0 /\ passed = <<>> /\ asked = 0 /\ wire = <<>>

RxStep == rx_poll \/ rx_copy \/ rx_lock \/ rx_unlock \/ rx_rearm \/ rx_rearmed

TxStep == net_output_post \/ net_output_return \/ app_unlock

NetQueueNext ==
  \/ (\E who \in {"app", "rx"} : net_output(who)) \/ TxStep
  \/ RxStep
  \/ NetDeviceFill \/ NetDevicePublish \/ NetDeviceSend

NetQueueSpec == NetQueueInit /\ [][NetQueueNext]_netVars

(* The threads run, and the device sends what it is given.  A frame more    *)
(* than MaxFrames is never sent, so that weak fairness of the lock is enough.*)
NetQueueFairness ==
  /\ WF_netVars(RxStep) /\ WF_netVars(TxStep)
  /\ WF_netVars(NetDeviceSend)

-----------------------------------------------------------------------------
(* Properties *)

NetQueueTypeOK ==
  /\ n_rx_ring \in [Ids -> Ids] /\ n_rx_used \in [Ids -> Ids]
  /\ n_rx_buf \in [Ids -> 0 .. MaxArrive] /\ rx_id \in Ids /\ filling \in Ids \cup {NoId}
  /\ {n_rx_idx, n_rx_uidx, n_rx_last_used, n_dev_rx,
      n_tx_idx, n_tx_uidx, n_tx_last_used, n_tx_avail_idx, n_dev_tx} \subseteq 0 .. IDX - 1
  /\ core \in {"free", "app", "rx"} /\ sending_at \in {"out", "copied", "wait"}
  /\ rx_at \in {"poll", "copy", "lock", "input", "rearm", "ring", "index"}
  /\ arrived \in 0 .. MaxArrive /\ rx_pb \in 0 .. MaxArrive /\ passed \in Seq(0 .. MaxArrive)
  /\ asked \in 0 .. MaxFrames /\ n_tx_buf \in 0 .. MaxFrames /\ wire \in Seq(0 .. MaxFrames)

(* used buffers the thread has not come to *)
NotTaken == IF rx_at = "poll" THEN n_rx_last_used ELSE Inc(n_rx_last_used)

InHand == IF rx_at \in {"poll", "ring"} THEN {} ELSE {rx_id}

(* Every receive buffer is in exactly one place - available to the device,    *)
(* being filled, waiting in the used ring or in the hand of the receive       *)
(* thread - also while the device sees avail.idx before the ring entry: the    *)
(* entry it then reads is the one of the round before, and that is the same   *)
(* buffer (net_prefill_rx, net_rx_thread).                                    *)
RxBufferOwnership ==
  LET avail == {n_rx_ring[p] : p \in Span(n_dev_rx, n_rx_idx)}
      used  == {n_rx_used[p] : p \in Span(NotTaken, n_rx_uidx)}
      busy  == {filling} \ {NoId}
  IN  /\ avail \cup used \cup busy \cup InHand = Ids
      /\ avail \cap used = {} /\ (avail \cup used) \cap (busy \cup InHand) = {}
      /\ busy \cap InHand = {}

(* What lwIP is given are frames that arrived, as they arrived, in order and  *)
(* none twice: no buffer is overwritten between the poll and the copy         *)
(* (net_rx_thread).                                                         *)
FramesInOrder ==
  /\ \A i, j \in DOMAIN passed : i < j => passed[i] < passed[j]
  /\ \A i \in DOMAIN passed : passed[i] \in 1 .. arrived

(* The one transmit buffer is enough: every frame is on the wire, unchanged   *)
(* and in order, before net_output returns (the wait for used.idx), however   *)
(* the receive thread and the applications alternate.                        *)
FramesSentIntact ==
  /\ \A k \in DOMAIN wire : wire[k] = k
  /\ sending_at = "out" => Len(wire) = asked
  /\ Len(wire) <= asked

(* Frames pass in order, unchanged and once in both directions, although the   *)
(* receive thread and applications share the lock and one transmit buffer.    *)
FramesIntact == FramesInOrder /\ FramesSentIntact

(* Every frame the device delivers is taken and its buffer given back: the    *)
(* receive thread gets the core lock although it also transmits under it, and *)
(* net_output returns as long as the device sends (net_rx_thread, net_output).*)
FramesTaken == (n_rx_uidx # n_rx_last_used) ~> (n_rx_uidx = n_rx_last_used)

=============================================================================
