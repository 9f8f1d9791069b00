-------------------------- MODULE NetSocketsProofs --------------------------
(***************************************************************************)
(* Proofs about NetSockets, for every set of descriptors and any number of *)
(* echo threads.                                                           *)
(***************************************************************************)
EXTENDS NetSockets, FiniteSetTheorems, TLAPS

Places == {"none", "start", "bind", "run", "end"}

(* NetSocketsTypeOK, with the records as a whole. *)
RecordType ==
  /\ NetSocketsTypeOK
  /\ rpc \in [op : Starts \cup Kinds \cup {"close", "none"},
              at : {"none", "opened", "closed", "spawn"}, fd : NetFds \cup {NoFd}]
  /\ workers \in [Workers -> [kind : Kinds, at : Places,
                              fd : NetFds \cup {NoFd}, cfd : NetFds \cup {NoFd}]]

(* What the RPC in service holds: a socket that is no handle yet, a handle   *)
(* that is no socket any more, or nothing.                                  *)
RpcInv ==
  /\ rpc.op = "none" => rpc = Idle
  /\ rpc.op \in Starts => rpc.at = "opened" /\ rpc.fd \in NetFds
  /\ rpc.op = "close" => rpc.at = "closed" /\ rpc.fd \in handles
  /\ rpc.op \in Kinds => rpc.at = "spawn"

(* The sockets of an echo thread: a connection only with the tcp server, and *)
(* only while it serves.                                                    *)
WorkerInv ==
  \A w \in Workers :
    /\ workers[w].at \in {"bind", "run"} => workers[w].fd \in NetFds
    /\ workers[w].cfd # NoFd =>
         workers[w].at = "run" /\ workers[w].kind = "tcp" /\ workers[w].cfd # workers[w].fd

(* The three kinds of owners of a descriptor. *)
ByClient(f)  == f \in handles /\ ~(rpc.op = "close" /\ rpc.fd = f)
ByRpc(f)     == rpc.op \in Starts /\ rpc.fd = f
ByEcho(w, f) == f \in NetFds /\ ( \/ workers[w].cfd = f
                                  \/ workers[w].at \in {"bind", "run"} /\ workers[w].fd = f)

(* A descriptor is open exactly if it has an owner, and has only one; this   *)
(* holds in the middle of an RPC too.                                       *)
OwnerInv ==
  /\ \A f \in NetFds :
       socks[f] # "free" <=> ByClient(f) \/ ByRpc(f) \/ \E w \in Workers : ByEcho(w, f)
  /\ \A f \in NetFds : ~(ByClient(f) /\ ByRpc(f))
  /\ \A f \in NetFds, w \in Workers : ByEcho(w, f) => ~ByClient(f) /\ ~ByRpc(f)
  /\ \A f \in NetFds, v, w \in Workers : ByEcho(v, f) /\ ByEcho(w, f) => v = w

(* A thread of a kind excludes another and a start of another; the flag says *)
(* that there is one or the other.                                          *)
EchoInv ==
  \A k \in Kinds :
    /\ \A v, w \in Workers :
         Alive(v) /\ Alive(w) /\ workers[v].kind = k /\ workers[w].kind = k => v = w
    /\ \A w \in Workers : Alive(w) /\ workers[w].kind = k => rpc.op # k
    /\ running[k] = ((\E w \in Workers : Alive(w) /\ workers[w].kind = k) \/ rpc.op = k)

IInv == RecordType /\ RpcInv /\ WorkerInv /\ OwnerInv /\ EchoInv

-----------------------------------------------------------------------------
(* The number that stands for no descriptor is none. *)
LEMMA NoFdIsNone == NoFd \notin NetFds
BY NetSocketsAssumption DEF NoFd

(* The initial state. *)
LEMMA InitInv == NetSocketsInit => IInv
<1> SUFFICES ASSUME NetSocketsInit PROVE IInv
  OBVIOUS
<1> USE DEF NetSocketsInit, Idle, NoWork
<1>1. RecordType
  <2>1. running \in [Kinds -> BOOLEAN]
    OBVIOUS
  <2>2. workers \in [Workers -> [kind : Kinds, at : Places, fd : NetFds \cup {NoFd},
                                 cfd : NetFds \cup {NoFd}]]
    BY DEF Kinds, Places
  <2> QED
    BY <2>1, <2>2 DEF RecordType, NetSocketsTypeOK, Kinds, Places
<1>2. RpcInv /\ WorkerInv
  BY DEF RpcInv, WorkerInv, Starts, Kinds
<1>3. OwnerInv
  BY NoFdIsNone DEF OwnerInv, ByClient, ByRpc, ByEcho, Starts
<1>4. EchoInv
  BY DEF EchoInv, Alive, Kinds
<1> QED
  BY <1>1, <1>2, <1>3, <1>4 DEF IInv

(* A step that starts and ends no thread and sets no flag preserves EchoInv. *)
LEMMA EchoSame ==
  ASSUME EchoInv, running' = running,
         \A w \in Workers : Alive(w)' = Alive(w) /\ workers'[w].kind = workers[w].kind,
         \A k \in Kinds : (rpc'.op = k) <=> (rpc.op = k)
  PROVE  EchoInv'
BY DEF EchoInv

(* socket() of an RPC: the new descriptor belongs to the RPC. *)
LEMMA OpSocketInv ==
  ASSUME IInv, NEW op \in Starts, op_socket(op)
  PROVE  IInv'
<1>1. CASE UNCHANGED <<socks, rpc>>
  BY <1>1 DEF op_socket, IInv, RecordType, NetSocketsTypeOK, RpcInv, WorkerInv, OwnerInv,
     ByClient, ByRpc, ByEcho, EchoInv, Alive
<1>2. CASE \E f \in NetFds : Opened(f, "other") /\ Serve(op, "opened", f)
  <2> PICK f \in NetFds : Opened(f, "other") /\ Serve(op, "opened", f)
    BY <1>2
  <2> USE DEF IInv
  <2>1. /\ UNCHANGED <<handles, running, workers>> /\ rpc = Idle
        /\ rpc' = [op |-> op, at |-> "opened", fd |-> f]
        /\ socks[f] = "free" /\ socks' = [socks EXCEPT ![f] = "other"]
    BY DEF op_socket, Opened, IsLowest, Free, Serve
  <2>2. RecordType'
    BY <2>1 DEF RecordType, NetSocketsTypeOK
  <2>3. RpcInv' /\ WorkerInv'
    BY <2>1 DEF RpcInv, WorkerInv, Starts, Kinds
  <2>4. OwnerInv'
    BY <2>1 DEF OwnerInv, ByClient, ByRpc, ByEcho, RecordType, NetSocketsTypeOK, Idle, Starts
  <2>5. EchoInv'
    BY <2>1, EchoSame DEF Alive, Idle, Starts, Kinds
  <2> QED
    BY <2>2, <2>3, <2>4, <2>5
<1> QED
  BY <1>1, <1>2 DEF op_socket, SocketFails

(* connect, listen or ping: the RPC's descriptor becomes a handle or is       *)
(* closed.                                                                   *)
LEMMA OpDoneInv ==
  ASSUME IInv, op_tcp_ready \/ op_ping_done
  PROVE  IInv'
<1> USE DEF IInv
<1>1. /\ UNCHANGED <<running, workers>> /\ rpc.op \in Starts /\ rpc' = Idle
      /\ rpc.fd \in NetFds
      /\ \/ /\ handles' = handles \cup {rpc.fd}
            /\ \E k \in {"listen", "stream"} : socks' = [socks EXCEPT ![rpc.fd] = k]
         \/ socks' = [socks EXCEPT ![rpc.fd] = "free"] /\ handles' = handles
  BY DEF op_tcp_ready, op_ping_done, ConnectFailed, Closed, Return, RpcInv, Starts
<1>2. RecordType'
  BY <1>1 DEF RecordType, NetSocketsTypeOK, Idle
<1>3. RpcInv' /\ WorkerInv'
  BY <1>1 DEF RpcInv, WorkerInv, Starts, Kinds, Idle
<1>4. OwnerInv'
  BY <1>1 DEF OwnerInv, ByClient, ByRpc, ByEcho, RecordType, NetSocketsTypeOK, Idle, Starts
<1>5. EchoInv'
  BY <1>1, EchoSame DEF Alive, Idle, Starts, Kinds
<1> QED
  BY <1>2, <1>3, <1>4, <1>5

(* accept: the new descriptor is a handle at once. *)
LEMMA OpAcceptInv ==
  ASSUME IInv, NEW f \in NetFds, op_tcp_accept(f)
  PROVE  IInv'
<1>1. CASE UNCHANGED <<socks, handles>>
  BY <1>1 DEF op_tcp_accept, IInv, RecordType, NetSocketsTypeOK, RpcInv, WorkerInv, OwnerInv,
     ByClient, ByRpc, ByEcho, EchoInv, Alive
<1>2. CASE \E c \in NetFds : Opened(c, "stream") /\ handles' = handles \cup {c}
  <2> PICK c \in NetFds : Opened(c, "stream") /\ handles' = handles \cup {c}
    BY <1>2
  <2> USE DEF IInv
  <2>1. /\ UNCHANGED <<rpc, running, workers>> /\ rpc = Idle
        /\ socks[c] = "free" /\ socks' = [socks EXCEPT ![c] = "stream"]
    BY DEF op_tcp_accept, Opened, IsLowest, Free
  <2>2. RecordType'
    BY <2>1 DEF RecordType, NetSocketsTypeOK
  <2>3. RpcInv' /\ WorkerInv'
    BY <2>1 DEF RpcInv, WorkerInv
  <2>4. OwnerInv'
    BY <2>1 DEF OwnerInv, ByClient, ByRpc, ByEcho, RecordType, NetSocketsTypeOK, Idle, Starts
  <2>5. EchoInv'
    BY <2>1, EchoSame DEF Alive
  <2> QED
    BY <2>2, <2>3, <2>4, <2>5
<1> QED
  BY <1>1, <1>2 DEF op_tcp_accept

(* op_close: from the close to the erase the handle owns nothing, so that an *)
(* echo thread may be given its number in between.                          *)
LEMMA OpCloseInv ==
  ASSUME IInv, NEW f \in NetFds, op_close(f)
  PROVE  IInv'
<1> USE DEF IInv
<1>1. /\ UNCHANGED <<handles, running, workers>> /\ rpc = Idle /\ f \in handles
      /\ rpc' = [op |-> "close", at |-> "closed", fd |-> f]
      /\ socks' = [socks EXCEPT ![f] = "free"]
  BY DEF op_close, Closed, Serve
<1>2. RecordType'
  BY <1>1 DEF RecordType, NetSocketsTypeOK
<1>3. RpcInv' /\ WorkerInv'
  BY <1>1 DEF RpcInv, WorkerInv, Starts, Kinds
<1>4. OwnerInv'
  BY <1>1 DEF OwnerInv, ByClient, ByRpc, ByEcho, RecordType, NetSocketsTypeOK, Idle, Starts
<1>5. EchoInv'
  BY <1>1, EchoSame DEF Alive, Idle, Kinds
<1> QED
  BY <1>2, <1>3, <1>4, <1>5

(* op_close forgets the handle after lwip_close has returned. *)
LEMMA OpCloseEraseInv == IInv /\ op_close_erase => IInv'
<1> SUFFICES ASSUME IInv, op_close_erase PROVE IInv'
  OBVIOUS
<1> USE DEF IInv
<1>1. /\ UNCHANGED <<socks, running, workers>> /\ rpc.op = "close" /\ rpc' = Idle
      /\ handles' = handles \ {rpc.fd}
  BY DEF op_close_erase, Return
<1>2. RecordType'
  BY <1>1 DEF RecordType, NetSocketsTypeOK, Idle
<1>3. RpcInv' /\ WorkerInv'
  BY <1>1 DEF RpcInv, WorkerInv, Starts, Kinds, Idle
<1>4. OwnerInv'
  BY <1>1 DEF OwnerInv, ByClient, ByRpc, ByEcho, RecordType, NetSocketsTypeOK, Idle, Starts
<1>5. EchoInv'
  BY <1>1, EchoSame DEF Alive, Idle, Kinds
<1> QED
  BY <1>2, <1>3, <1>4, <1>5

-----------------------------------------------------------------------------
(* The flag is set before the thread exists: the RPC stands for it. *)
LEMMA OpEchoInv ==
  ASSUME IInv, NEW k \in Kinds, op_echo(k)
  PROVE  IInv'
<1> USE DEF IInv
<1>1. /\ UNCHANGED <<socks, handles, workers>> /\ rpc = Idle /\ ~running[k]
      /\ running' = [running EXCEPT ![k] = TRUE]
      /\ rpc' = [op |-> k, at |-> "spawn", fd |-> NoFd]
  BY DEF op_echo, MayStart, Serve
<1>2. RecordType'
  BY <1>1 DEF RecordType, NetSocketsTypeOK
<1>3. RpcInv' /\ WorkerInv'
  BY <1>1 DEF RpcInv, WorkerInv, Starts, Kinds
<1>4. OwnerInv'
  BY <1>1 DEF OwnerInv, ByClient, ByRpc, ByEcho, RecordType, NetSocketsTypeOK, Idle, Starts, Kinds
<1>5. EchoInv'
  BY <1>1, ZenonT(60) DEF EchoInv, Alive, Idle, Kinds, RecordType, NetSocketsTypeOK
<1> QED
  BY <1>2, <1>3, <1>4, <1>5

(* spawn_worker: the thread takes over the flag, or it is cleared. *)
LEMMA OpEchoSpawnInv == IInv /\ op_echo_spawn => IInv'
<1> SUFFICES ASSUME IInv, op_echo_spawn PROVE IInv'
  OBVIOUS
<1> USE DEF IInv
<1>0. UNCHANGED <<socks, handles>> /\ rpc' = Idle /\ rpc.op \in Kinds
  BY DEF op_echo_spawn, Return
<1>1. CASE \E w \in Workers :
             /\ workers[w].at = "none"
             /\ workers' = [workers EXCEPT ![w] = [kind |-> rpc.op, at |-> "start",
                                                  fd |-> NoFd, cfd |-> NoFd]]
             /\ UNCHANGED running
  <2>1. PICK w \in Workers :
             /\ workers[w].at = "none"
             /\ workers' = [workers EXCEPT ![w] = [kind |-> rpc.op, at |-> "start",
                                                  fd |-> NoFd, cfd |-> NoFd]]
             /\ running' = running
    BY <1>1, Zenon
  <2>2. RecordType'
    BY <1>0, <2>1 DEF RecordType, NetSocketsTypeOK, Idle, Places
  <2>3. RpcInv' /\ WorkerInv'
    BY <1>0, <2>1 DEF RpcInv, WorkerInv, Starts, Kinds, Idle, RecordType
  <2>4. OwnerInv'
    <3>1. \A f \in NetFds, v \in Workers : ByEcho(v, f)' = ByEcho(v, f)
      BY <2>1, NoFdIsNone DEF ByEcho, RecordType, WorkerInv
    <3>2. \A f \in NetFds : ByClient(f)' = ByClient(f) /\ ByRpc(f)' = ByRpc(f)
      BY <1>0 DEF ByClient, ByRpc, Idle, Starts, Kinds
    <3> QED
      BY <1>0, <3>1, <3>2 DEF OwnerInv
  <2>5. EchoInv'
    BY <1>0, <2>1 DEF EchoInv, Alive, Idle, Kinds, RecordType
  <2> QED
    BY <2>2, <2>3, <2>4, <2>5
<1>2. CASE running' = [running EXCEPT ![rpc.op] = FALSE] /\ UNCHANGED workers
  <2>2. RecordType'
    BY <1>0, <1>2 DEF RecordType, NetSocketsTypeOK, Idle
  <2>3. RpcInv' /\ WorkerInv'
    BY <1>0, <1>2 DEF RpcInv, WorkerInv, Starts, Kinds, Idle
  <2>4. OwnerInv'
    BY <1>0, <1>2 DEF OwnerInv, ByClient, ByRpc, ByEcho, RecordType, NetSocketsTypeOK, Idle,
       Starts, Kinds
  <2>5. EchoInv'
    BY <1>0, <1>2, ZenonT(60) DEF EchoInv, Alive, Idle, Kinds, RecordType, NetSocketsTypeOK
  <2> QED
    BY <2>2, <2>3, <2>4, <2>5
<1> QED
  BY <1>1, <1>2 DEF op_echo_spawn

-----------------------------------------------------------------------------
(* An echo thread gets a socket: it is the thread's alone. *)
LEMMA WorkerOpens ==
  ASSUME IInv, NEW w \in Workers, NEW f \in NetFds, Opened(f, "other"),
         UNCHANGED <<handles, rpc, running>>,
         \/ workers[w].at = "start" /\ workers' = [workers EXCEPT ![w].at = "bind", ![w].fd = f]
         \/ /\ workers[w].kind = "tcp" /\ workers[w].at = "run" /\ workers[w].cfd = NoFd
            /\ workers' = [workers EXCEPT ![w].cfd = f]
  PROVE  IInv'
<1> USE DEF IInv
<1>1. socks[f] = "free" /\ socks' = [socks EXCEPT ![f] = "other"]
  BY DEF Opened, IsLowest, Free
<1>2. RecordType'
  <2>1. workers' \in [Workers -> [kind : Kinds, at : Places, fd : NetFds \cup {NoFd},
                                  cfd : NetFds \cup {NoFd}]]
    BY DEF RecordType, Places
  <2> QED
    BY <1>1, <2>1 DEF RecordType, NetSocketsTypeOK, Places
<1>3. RpcInv'
  BY DEF RpcInv
<1>4. ~ \E v \in Workers : ByEcho(v, f)
  BY <1>1 DEF OwnerInv
<1>5. WorkerInv'
  BY <1>4, NoFdIsNone DEF WorkerInv, RecordType, ByEcho
<1>6. OwnerInv'
  <2>1. \A g \in NetFds, v \in Workers : ByEcho(v, g)' <=> ByEcho(v, g) \/ (v = w /\ g = f)
    BY NoFdIsNone DEF ByEcho, RecordType, WorkerInv
  <2>2. \A g \in NetFds : ByClient(g)' = ByClient(g) /\ ByRpc(g)' = ByRpc(g)
    BY DEF ByClient, ByRpc
  <2>3. ~ByClient(f) /\ ~ByRpc(f)
    BY <1>1 DEF OwnerInv
  <2> QED
    BY <1>1, <1>4, <2>1, <2>2, <2>3 DEF OwnerInv, RecordType, NetSocketsTypeOK
<1>7. EchoInv'
  BY EchoSame DEF Alive, RecordType
<1> QED
  BY <1>2, <1>3, <1>5, <1>6, <1>7

(* An echo thread closes a socket of its own. *)
LEMMA WorkerCloses ==
  ASSUME IInv, NEW w \in Workers, NEW f \in NetFds, Closed(f),
         UNCHANGED <<handles, rpc, running>>,
         \/ /\ workers[w].at \in {"bind", "run"} /\ workers[w].cfd = NoFd
            /\ f = workers[w].fd /\ workers' = [workers EXCEPT ![w].at = "end"]
         \/ f = workers[w].cfd /\ workers' = [workers EXCEPT ![w].cfd = NoFd]
  PROVE  IInv'
<1> USE DEF IInv
<1>1. socks' = [socks EXCEPT ![f] = "free"]
  BY DEF Closed
<1>2. RecordType'
  <2>1. workers' \in [Workers -> [kind : Kinds, at : Places, fd : NetFds \cup {NoFd},
                                  cfd : NetFds \cup {NoFd}]]
    BY DEF RecordType, Places
  <2> QED
    BY <1>1, <2>1 DEF RecordType, NetSocketsTypeOK, Places
<1>3. RpcInv' /\ WorkerInv'
  BY NoFdIsNone DEF RpcInv, WorkerInv, RecordType
<1>4. ByEcho(w, f)
  BY DEF ByEcho
<1>5. OwnerInv'
  <2>1. \A g \in NetFds, v \in Workers : ByEcho(v, g)' <=> ByEcho(v, g) /\ ~(v = w /\ g = f)
    BY NoFdIsNone DEF ByEcho, RecordType, WorkerInv
  <2>2. \A g \in NetFds : ByClient(g)' = ByClient(g) /\ ByRpc(g)' = ByRpc(g)
    BY DEF ByClient, ByRpc
  <2> QED
    BY <1>1, <1>4, <2>1, <2>2 DEF OwnerInv, RecordType, NetSocketsTypeOK
<1>6. EchoInv'
  BY NoFdIsNone, EchoSame DEF Alive, RecordType, WorkerInv
<1> QED
  BY <1>2, <1>3, <1>5, <1>6

(* A thread ends, without a socket, and clears its flag. *)
LEMMA WorkerEnds ==
  ASSUME IInv, NEW w \in Workers, workers[w].at \in {"start", "end"}, Ends(w),
         UNCHANGED <<socks, handles, rpc>>
  PROVE  IInv'
<1> USE DEF IInv
<1>1. /\ workers' = [workers EXCEPT ![w] = [kind |-> "udp", at |-> "none", fd |-> NoFd, cfd |-> NoFd]]
      /\ running' = [running EXCEPT ![workers[w].kind] = FALSE]
  BY DEF Ends, NoWork
<1>2. RecordType'
  BY <1>1 DEF RecordType, NetSocketsTypeOK, Kinds, Places
<1>3. RpcInv' /\ WorkerInv'
  BY <1>1 DEF RpcInv, WorkerInv, RecordType
<1>4. OwnerInv'
  <2>1. \A f \in NetFds, v \in Workers : ByEcho(v, f)' = ByEcho(v, f)
    BY <1>1, NoFdIsNone DEF ByEcho, RecordType, WorkerInv
  <2>2. \A f \in NetFds : ByClient(f)' = ByClient(f) /\ ByRpc(f)' = ByRpc(f)
    BY DEF ByClient, ByRpc
  <2> QED
    BY <2>1, <2>2 DEF OwnerInv
<1>5. EchoInv'
  <2>1. workers[w].kind \in Kinds /\ Alive(w)
    BY DEF RecordType, Alive
  <2>2. \A v \in Workers : v # w => Alive(v)' = Alive(v) /\ workers'[v] = workers[v]
    BY <1>1 DEF Alive, RecordType
  <2>3. ~Alive(w)'
    BY <1>1 DEF Alive, RecordType
  <2>4. ASSUME NEW k \in Kinds, k = workers[w].kind
        PROVE  rpc.op # k /\ running'[k] = FALSE /\
               \A v \in Workers : ~(Alive(v)' /\ workers'[v].kind = k)
    BY <1>1, <2>1, <2>2, <2>3, <2>4 DEF EchoInv, RecordType, NetSocketsTypeOK
  <2>5. ASSUME NEW k \in Kinds, k # workers[w].kind
        PROVE  running'[k] = running[k] /\
               \A v \in Workers : Alive(v)' /\ workers'[v].kind = k <=> Alive(v) /\ workers[v].kind = k
    BY <1>1, <2>1, <2>2, <2>3, <2>5 DEF RecordType, NetSocketsTypeOK
  <2> SUFFICES ASSUME NEW k \in Kinds
               PROVE /\ \A u, v \in Workers :
                         Alive(u)' /\ Alive(v)' /\ workers'[u].kind = k /\ workers'[v].kind = k => u = v
                     /\ \A v \in Workers : Alive(v)' /\ workers'[v].kind = k => rpc'.op # k
                     /\ running'[k] = ((\E v \in Workers : Alive(v)' /\ workers'[v].kind = k) \/ rpc'.op = k)
    BY DEF EchoInv
  <2>6. CASE k = workers[w].kind
    BY <2>4, <2>6
  <2>7. CASE k # workers[w].kind
    BY <2>5, <2>7 DEF EchoInv
  <2> QED
    BY <2>6, <2>7
<1> QED
  BY <1>2, <1>3, <1>4, <1>5

(* The steps of the echo threads. *)
LEMMA WorkerStepInv ==
  ASSUME IInv, NEW w \in Workers,
         \/ echo_socket(w) \/ echo_bind(w) \/ udp_echo_break(w) \/ echo_end(w)
         \/ tcp_echo_accept(w) \/ tcp_echo_close(w)
  PROVE  IInv'
<1>1. CASE echo_socket(w)
  BY <1>1, WorkerOpens, WorkerEnds DEF echo_socket
<1>2. CASE echo_bind(w)
  <2>1. CASE workers' = [workers EXCEPT ![w].at = "run"] /\ UNCHANGED <<socks, running>>
    <3> USE <1>2, <2>1 DEF IInv, echo_bind
    <3>1. RecordType'
      <4>1. workers' \in [Workers -> [kind : Kinds, at : Places, fd : NetFds \cup {NoFd},
                                      cfd : NetFds \cup {NoFd}]]
        BY DEF RecordType, Places
      <4> QED
        BY <4>1 DEF RecordType, NetSocketsTypeOK, Places
    <3>2. RpcInv' /\ WorkerInv'
      BY DEF RpcInv, WorkerInv, RecordType
    <3>3. OwnerInv'
      BY DEF OwnerInv, ByClient, ByRpc, ByEcho, RecordType
    <3>4. EchoInv'
      BY EchoSame DEF Alive, RecordType
    <3> QED
      BY <3>1, <3>2, <3>3, <3>4
  <2>2. CASE Closed(workers[w].fd) /\ workers' = [workers EXCEPT ![w].at = "end"] /\ UNCHANGED running
    <3>1. workers[w].fd \in NetFds /\ workers[w].cfd = NoFd
      BY <1>2 DEF echo_bind, IInv, WorkerInv
    <3> QED
      BY <1>2, <2>2, <3>1, WorkerCloses DEF echo_bind
  <2> QED
    BY <1>2, <2>1, <2>2 DEF echo_bind
<1>3. CASE udp_echo_break(w)
  <2>1. workers[w].fd \in NetFds /\ workers[w].cfd = NoFd
    BY <1>3 DEF udp_echo_break, IInv, WorkerInv
  <2> QED
    BY <1>3, <2>1, WorkerCloses DEF udp_echo_break
<1>4. CASE echo_end(w)
  BY <1>4, WorkerEnds DEF echo_end
<1>5. CASE tcp_echo_accept(w)
  BY <1>5, WorkerOpens DEF tcp_echo_accept
<1>6. CASE tcp_echo_close(w)
  <2>1. workers[w].cfd \in NetFds
    BY <1>6 DEF tcp_echo_close, IInv, RecordType
  <2> QED
    BY <1>6, <2>1, WorkerCloses DEF tcp_echo_close
<1> QED
  BY <1>1, <1>2, <1>3, <1>4, <1>5, <1>6

-----------------------------------------------------------------------------
(* Every step preserves IInv. *)
LEMMA NextInv == IInv /\ [NetSocketsNext]_netsockVars => IInv'
<1>1. IInv /\ UNCHANGED netsockVars => IInv'
  BY DEF netsockVars, IInv, RecordType, NetSocketsTypeOK, RpcInv, WorkerInv, OwnerInv,
     ByClient, ByRpc, ByEcho, EchoInv, Alive
<1> QED
  BY <1>1, OpSocketInv, OpDoneInv, OpAcceptInv, OpCloseInv, OpCloseEraseInv, OpEchoInv,
     OpEchoSpawnInv, WorkerStepInv DEF NetSocketsNext

(* IInv holds in every reachable state of netd's socket server. *)
THEOREM Invariance == NetSocketsSpec => []IInv
BY InitInv, NextInv, PTL DEF NetSocketsSpec

(* Between two RPCs every open socket has exactly one owner: no path of the   *)
(* RPCs and of the echo threads leaks a socket or leaves a handle to another  *)
(* one's.                                                                    *)
THEOREM AllSocketsAccounted == NetSocketsSpec => []SocketsAccounted
<1>1. IInv => SocketsAccounted
  <2> SUFFICES ASSUME IInv, rpc = Idle
               PROVE  /\ NetFds \ Free = handles \cup UNION {WorkerFds(w) : w \in Workers}
                      /\ handles \cap UNION {WorkerFds(w) : w \in Workers} = {}
                      /\ \A v, w \in Workers : v # w => WorkerFds(v) \cap WorkerFds(w) = {}
    BY DEF SocketsAccounted
  <2> USE DEF IInv
  <2>1. \A w \in Workers : \A f : f \in WorkerFds(w) <=> ByEcho(w, f)
    BY NoFdIsNone DEF WorkerFds, ByEcho, WorkerInv, RecordType
  <2>2. \A f : f \in UNION {WorkerFds(w) : w \in Workers} <=> \E w \in Workers : ByEcho(w, f)
    BY <2>1
  <2>3. \A f \in NetFds : ByClient(f) <=> f \in handles
    BY DEF ByClient, Idle
  <2>4. \A f : ~ByRpc(f)
    BY DEF ByRpc, Idle, Starts
  <2>5. \A f : (\E w \in Workers : ByEcho(w, f)) => f \in NetFds
    BY DEF ByEcho
  <2>6. handles \subseteq NetFds
    BY DEF RecordType, NetSocketsTypeOK
  <2>7. \A f : f \in NetFds \ Free <=> f \in handles \/ \E w \in Workers : ByEcho(w, f)
    BY <2>3, <2>4, <2>5, <2>6 DEF OwnerInv, Free
  <2>8. \A f : ~(f \in handles /\ \E w \in Workers : ByEcho(w, f))
    BY <2>3, <2>5 DEF OwnerInv
  <2>9. \A v, w \in Workers : v # w => WorkerFds(v) \cap WorkerFds(w) = {}
    BY <2>1, <2>5 DEF OwnerInv
  <2> QED
    BY <2>2, <2>7, <2>8, <2>9
<1> QED
  BY <1>1, Invariance, PTL

(* At most one echo server of a kind runs, and its flag is exact: a server    *)
(* that failed can be started again.                                         *)
THEOREM EchoServerOnce == NetSocketsSpec => []EchoOnce
<1>1. IInv => EchoOnce
  <2> SUFFICES ASSUME IInv, NEW k \in Kinds
               PROVE  LET mine == {w \in Workers : Alive(w) /\ workers[w].kind = k}
                      IN  /\ Cardinality(mine) <= 1
                          /\ running[k] <=> (mine # {} \/ rpc.op = k)
    BY DEF EchoOnce
  <2> DEFINE mine == {w \in Workers : Alive(w) /\ workers[w].kind = k}
  <2>1. mine = {} \/ \E w \in Workers : mine = {w}
    BY DEF IInv, EchoInv
  <2>3. running[k] <=> (mine # {} \/ rpc.op = k)
    BY DEF IInv, EchoInv
  <2> HIDE DEF mine
  <2>2. Cardinality(mine) <= 1
    <3>1. CASE mine = {}
      BY <3>1, FS_EmptySet
    <3>2. CASE \E w \in Workers : mine = {w}
      <4>1. PICK w \in Workers : mine = {w}
        BY <3>2
      <4>2. Cardinality({w}) = 1
        BY FS_Singleton
      <4> QED
        BY <4>1, <4>2
    <3> QED
      BY <2>1, <3>1, <3>2
  <2> QED
    BY <2>2, <2>3 DEF mine
<1> QED
  BY <1>1, Invariance, PTL

=============================================================================
