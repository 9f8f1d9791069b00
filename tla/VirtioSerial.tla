---------------------------- MODULE VirtioSerial ----------------------------
(***************************************************************************)
(* The virtio-serial driver (pkg/virtio-serial/server/src/main.cc): a Vcon  *)
(* server with one thread over two split virtqueues, and the device, which  *)
(* reads and writes the rings and the buffers whenever it likes.            *)
(*                                                                         *)
(* One action is what the driver does between two points where the device   *)
(* can see a difference.  Bytes are numbered in the order they are typed,   *)
(* messages in the order they are written.  Left out: the descriptor table, *)
(* whose entries always point to the same buffers, the interrupt registers, *)
(* which nobody waits on, and attributes.                                   *)
(***************************************************************************)
EXTENDS Virtqueue, Sequences

CONSTANTS
  RX_BUF_SIZE,    \* bytes of a receive buffer (256 in the code)
  MaxRead,        \* bound: the largest size a client passes to vcon_read
  MaxTyped,       \* bound: bytes ever typed
  MaxWrites       \* bound: messages ever written

ASSUME VirtioAssumption ==
  /\ RX_BUF_SIZE \in Nat \ {0} /\ MaxRead \in Nat \ {0}
  /\ MaxTyped \in Nat /\ MaxWrites \in Nat

VARIABLES
  \* memory shared with the device
  rx_ring, rx_idx,     \* rxq.avail.ring and rxq.avail.idx
  rx_used, rx_uidx,    \* rxq.used.ring, as buffer numbers, and rxq.used.idx
  rx_buf,              \* bytes in each receive buffer; used.len is their number
  tx_idx, tx_uidx,     \* txq.avail.idx and txq.used.idx
  tx_buf,              \* the message in the one transmit buffer
  \* the driver
  rx_last, tx_avail, tx_last,
  pc,                  \* idle, copied, polling, polled, reading, rearm
  msg,                 \* the message being written
  left, id,            \* of vcon_read: size - total, and the buffer in hand
  \* the device
  dev_rx, dev_tx,      \* avail entries it has consumed
  typed,               \* bytes typed so far
  \* history
  got,                 \* bytes handed to clients
  cut,                 \* bytes vcon_read dropped because the client's buffer was full
  out,                 \* messages the device has put out
  late                 \* has some poll ended before its message was taken?

rxVars   == <<rx_ring, rx_idx, rx_used, rx_uidx, rx_buf, rx_last, dev_rx, typed, got, cut>>
txVars   == <<tx_idx, tx_uidx, tx_buf, tx_avail, tx_last, dev_tx, out, late>>
vars     == <<rxVars, txVars, pc, msg, left, id>>

Min2(a, b) == IF a <= b THEN a ELSE b

-----------------------------------------------------------------------------
(* vcon_write *)

(* the message goes to tx_buf *)
vcon_write ==
  /\ pc = "idle" /\ msg < MaxWrites
  /\ msg' = msg + 1 /\ tx_buf' = msg + 1
  /\ pc' = "copied"
  /\ UNCHANGED <<rxVars, tx_idx, tx_uidx, tx_avail, tx_last, dev_tx, out, late, left, id>>

(* the descriptor is made available and the device notified *)
vcon_write_post ==
  /\ pc = "copied"
  /\ tx_idx' = Inc(tx_avail)
  /\ pc' = "polling"
  /\ UNCHANGED <<rxVars, tx_uidx, tx_buf, tx_avail, tx_last, dev_tx, out, late, msg, left, id>>

(* Mutant: the poll without its bound *)
PollUntilUsed == tx_uidx # tx_last

(* the poll ends when used.idx has moved, or after its 100000 rounds; the    *)
(* counter is not volatile, so a build may also read it only once          *)
PollEnds == TRUE

vcon_write_poll ==
  /\ pc = "polling" /\ PollEnds
  /\ late' = (late \/ tx_uidx = tx_last)
  /\ pc' = "polled"
  /\ UNCHANGED <<rxVars, tx_idx, tx_uidx, tx_buf, tx_avail, tx_last, dev_tx, out, msg, left, id>>

(* the used entries, all of them, are skipped *)
SkipUsed == tx_uidx

(* vcon_write returns *)
vcon_write_return ==
  /\ pc = "polled"
  /\ tx_last' = SkipUsed /\ tx_avail' = Inc(tx_avail)
  /\ pc' = "idle"
  /\ UNCHANGED <<rxVars, tx_idx, tx_uidx, tx_buf, dev_tx, out, late, msg, left, id>>

-----------------------------------------------------------------------------
(* vcon_read *)

vcon_read(size) ==
  /\ pc = "idle"
  /\ \/ rx_uidx = rx_last /\ UNCHANGED <<pc, left>>
     \/ rx_uidx # rx_last /\ pc' = "reading" /\ left' = size
  /\ UNCHANGED <<rxVars, txVars, msg, id>>

(* one round of the loop: the buffer's bytes, as many as fit, are copied *)
vcon_read_copy ==
  /\ pc = "reading" /\ rx_last # rx_uidx /\ left > 0
  /\ LET b == rx_used[rx_last % VQ_SIZE]
         n == Min2(Len(rx_buf[b]), left)
     IN /\ id' = b
        /\ got' = got \o SubSeq(rx_buf[b], 1, n)
        /\ cut' = cut \cup {rx_buf[b][k] : k \in n + 1 .. Len(rx_buf[b])}
        /\ left' = left - n
  /\ pc' = "rearm"
  /\ UNCHANGED <<rx_ring, rx_idx, rx_used, rx_uidx, rx_buf, rx_last, dev_rx, typed, txVars, msg>>

(* Mutants: a buffer the client had no room for is not given back, or is     *)
(* looked at again                                                         *)
RearmIfRoom == IF left = 0 THEN rx_idx ELSE Inc(rx_idx)
KeepIfFull == IF left = 0 THEN rx_last ELSE Inc(rx_last)

RearmedIdx == Inc(rx_idx)

NextLast == Inc(rx_last)

(* the rest of the round: the buffer goes back to the device *)
vcon_read_rearm ==
  /\ pc = "rearm"
  /\ rx_ring' = [rx_ring EXCEPT ![rx_idx % VQ_SIZE] = id]
  /\ rx_idx' = RearmedIdx
  /\ rx_last' = NextLast
  /\ pc' = "reading"
  /\ UNCHANGED <<rx_used, rx_uidx, rx_buf, dev_rx, typed, got, cut, txVars, msg, left, id>>

vcon_read_return ==
  /\ pc = "reading" /\ (rx_last = rx_uidx \/ left = 0)
  /\ pc' = "idle"
  /\ left' = 0
  /\ UNCHANGED <<rxVars, txVars, msg, id>>

-----------------------------------------------------------------------------
(* The device (external) *)

(* n bytes have been typed: they go to the next available buffer *)
DeviceReceive(n) ==
  /\ Ahead(rx_idx, dev_rx) /\ typed + n <= MaxTyped
  /\ LET b == rx_ring[dev_rx % VQ_SIZE]
     IN /\ rx_buf'  = [rx_buf EXCEPT ![b] = [k \in 1 .. n |-> typed + k]]
        /\ rx_used' = [rx_used EXCEPT ![rx_uidx % VQ_SIZE] = b]
  /\ rx_uidx' = Inc(rx_uidx) /\ dev_rx' = Inc(dev_rx)
  /\ typed' = typed + n
  /\ UNCHANGED <<rx_ring, rx_idx, rx_last, got, cut, txVars, pc, msg, left, id>>

(* the next available message, as it is in the buffer now, is put out *)
DeviceSend ==
  /\ Ahead(tx_idx, dev_tx)
  /\ out' = Append(out, tx_buf)
  /\ tx_uidx' = Inc(tx_uidx) /\ dev_tx' = Inc(dev_tx)
  /\ UNCHANGED <<rxVars, tx_idx, tx_buf, tx_avail, tx_last, late, pc, msg, left, id>>

-----------------------------------------------------------------------------
(* prefill_rx *)
Init ==
  /\ rx_ring = Prefilled /\ rx_idx = VQ_SIZE
  /\ rx_used = [i \in Ids |-> 0] /\ rx_uidx = 0
  /\ rx_buf = [i \in Ids |-> <<>>]
  /\ tx_idx = 0 /\ tx_uidx = 0 /\ tx_buf = 0
  /\ rx_last = 0 /\ tx_avail = 0 /\ tx_last = 0
  /\ pc = "idle" /\ msg = 0 /\ left = 0 /\ id = 0
  /\ dev_rx = 0 /\ dev_tx = 0 /\ typed = 0
  /\ got = <<>> /\ cut = {} /\ out = <<>> /\ late = FALSE

WriteStep == vcon_write_post \/ vcon_write_poll \/ vcon_write_return

ReadStep == vcon_read_copy \/ vcon_read_rearm \/ vcon_read_return

Device == (\E n \in 1 .. RX_BUF_SIZE : DeviceReceive(n)) \/ DeviceSend

Next ==
  \/ vcon_write \/ WriteStep
  \/ (\E size \in 1 .. MaxRead : vcon_read(size)) \/ ReadStep
  \/ Device

Spec == Init /\ [][Next]_vars

(* The server thread runs.  Nothing is assumed of the device. *)
SerialFairness == WF_vars(WriteStep) /\ WF_vars(ReadStep)

-----------------------------------------------------------------------------
(* Properties *)

TypeOK ==
  /\ rx_ring \in [Ids -> Ids] /\ rx_used \in [Ids -> Ids]
  /\ rx_buf \in [Ids -> Seq(1 .. MaxTyped)] /\ id \in Ids
  /\ {rx_idx, rx_uidx, rx_last, dev_rx, tx_idx, tx_uidx, tx_avail, tx_last, dev_tx}
       \subseteq 0 .. IDX - 1
  /\ pc \in {"idle", "copied", "polling", "polled", "reading", "rearm"}
  /\ msg \in 0 .. MaxWrites /\ tx_buf \in 0 .. MaxWrites /\ out \in Seq(0 .. MaxWrites)
  /\ left \in 0 .. MaxRead /\ typed \in 0 .. MaxTyped
  /\ got \in Seq(1 .. MaxTyped) /\ cut \subseteq 1 .. MaxTyped /\ late \in BOOLEAN

Available == {rx_ring[p] : p \in Span(dev_rx, rx_idx)}
Used      == {rx_used[p] : p \in Span(rx_last, rx_uidx)}

(* Every receive buffer is in exactly one place, waiting for the device or   *)
(* waiting for the driver, at every index wrap-around: the device never      *)
(* writes a buffer the driver is still to read, and none drops out of        *)
(* circulation (prefill_rx and the re-arming in vcon_read).                 *)
BufferOwnership ==
  /\ Available \cup Used = Ids /\ Available \cap Used = {}
  /\ ((rx_idx - dev_rx) % IDX) + ((rx_uidx - rx_last) % IDX) = VQ_SIZE
  /\ pc = "rearm" => id \in Used

Increasing(s) == \A i, j \in 1 .. Len(s) : i < j => s[i] < s[j]

Elems(s) == {s[k] : k \in 1 .. Len(s)}

(* buffers whose bytes no read has copied yet *)
Unread == {rx_used[p] : p \in Span(IF pc = "rearm" THEN Inc(rx_last) ELSE rx_last, rx_uidx)}

(* Typed bytes reach clients in order and once.  Whatever has been typed was  *)
(* handed to a client, waits in a buffer, or was cut off by a read that was   *)
(* too small for its last buffer: nothing else is lost (vcon_read).         *)
InputAccounted ==
  /\ Increasing(got)
  /\ Elems(got) \cap cut = {}
  /\ Elems(got) \cup cut \cup UNION {Elems(rx_buf[b]) : b \in Unread} = 1 .. typed

(* As long as no poll has run out, the device puts out exactly the messages   *)
(* written, in order, and each before vcon_write returns (the wait for        *)
(* used.idx in vcon_write).                                                 *)
SentWhenPolled ==
  ~late =>
    /\ \A k \in 1 .. Len(out) : out[k] = k
    /\ Len(out) <= msg
    /\ pc \in {"idle", "polled"} => Len(out) = msg

(* The console's bytes are accounted for in both directions: input as            *)
(* InputAccounted says, output as SentWhenPolled does.                        *)
BytesAccounted == InputAccounted /\ SentWhenPolled

(* The messages are put out as they were written, however long the device     *)
(* takes: what the comment in vcon_write says of a poll that does not wait.   *)
SentIntact == \A k \in 1 .. Len(out) : out[k] = k

(* vcon_write returns even if the device never takes the message: a stalled   *)
(* console does not stop the server.                                        *)
WriteReturns == (pc = "copied") ~> (pc = "idle")

=============================================================================
