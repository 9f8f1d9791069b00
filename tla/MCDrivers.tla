----------------------------- MODULE MCDrivers -----------------------------
(***************************************************************************)
(* The two servers that drive a virtio device themselves: virtio-serial    *)
(* and netd, the latter by its queues and by its sockets.  The parts share *)
(* no state (lwIP, between netd's two, is outside): each is explored while *)
(* the others rest in their initial states.                                *)
(***************************************************************************)
EXTENDS VirtioSerial, NetQueue, NetSockets

DriversInit == Init /\ NetQueueInit /\ NetSocketsInit

DriversNext ==
  \/ NetQueueInit /\ NetSocketsInit /\ Next /\ UNCHANGED <<netVars, netsockVars>>
  \/ Init /\ NetSocketsInit /\ NetQueueNext /\ UNCHANGED <<vars, netsockVars>>
  \/ Init /\ NetQueueInit /\ NetSocketsNext /\ UNCHANGED <<vars, netVars>>

DriversSpec ==
  /\ DriversInit /\ [][DriversNext]_<<vars, netVars, netsockVars>>
  /\ SerialFairness /\ NetQueueFairness

=============================================================================
