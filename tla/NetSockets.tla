----------------------------- MODULE NetSockets -----------------------------
(***************************************************************************)
(* netd's socket server (pkg/netd/server/main.cc, Net_impl): the RPCs that *)
(* open and close sockets, the set g_open_handles of those a client may    *)
(* name, and the echo servers, which run on threads of their own.          *)
(*                                                                         *)
(* The RPCs are served by one thread, one at a time; but the echo threads  *)
(* open and close sockets meanwhile, from the same descriptors, of which   *)
(* the lowest free one is always taken.  A step is one socket call, which  *)
(* may fail.  send, recv, resolve, ifconfig and dhcp open and close        *)
(* nothing and are left out; so is a netd whose stack did not come up,     *)
(* which refuses every call.                                               *)
(***************************************************************************)
EXTENDS Integers, FiniteSets

CONSTANTS
  NetFds,         \* the file descriptors of netd
  Workers         \* threads that may be running at a time

ASSUME NetSocketsAssumption == NetFds \subseteq Nat /\ IsFiniteSet(NetFds)

NoFd   == -1
Kinds  == {"udp", "tcp"}               \* the two echo servers
NoWork == [kind |-> "udp", at |-> "none", fd |-> NoFd, cfd |-> NoFd]
Idle   == [op |-> "none", at |-> "none", fd |-> NoFd]

VARIABLES
  socks,          \* the open descriptors: "stream", "listen", or "other"; or "free"
  handles,        \* g_open_handles
  rpc,            \* the RPC in service: its operation, where it is, its socket
  running,        \* g_udp_echo_running and g_tcp_echo_running
  workers         \* the echo threads

netsockVars == <<socks, handles, rpc, running, workers>>

Free      == {f \in NetFds : socks[f] = "free"}
IsLowest(f) == f \in Free /\ \A g \in Free : f <= g

Opened(f, kind) == IsLowest(f) /\ socks' = [socks EXCEPT ![f] = kind]
Closed(f)       == socks' = [socks EXCEPT ![f] = "free"]

Serve(op, at, f) == rpc' = [op |-> op, at |-> at, fd |-> f]
Return           == rpc' = Idle

-----------------------------------------------------------------------------
(* op_tcp_connect, op_tcp_listen and op_ping_one begin with socket(); without *)
(* a descriptor they return an error                                        *)
Starts == {"tcp_connect", "tcp_listen", "ping_one"}

SocketFails(op) == UNCHANGED <<socks, rpc>>

op_socket(op) ==
  /\ rpc = Idle /\ op \in Starts
  /\ \/ SocketFails(op)
     \/ \E f \in NetFds : Opened(f, "other") /\ Serve(op, "opened", f)
  /\ UNCHANGED <<handles, running, workers>>

(* Mutant: the socket of a failed connect stays open *)
ConnectFailedLeaks == UNCHANGED socks

ConnectFailed == Closed(rpc.fd)

(* connect, or bind and listen: the socket becomes a handle or is closed *)
op_tcp_ready ==
  /\ rpc.op \in {"tcp_connect", "tcp_listen"} /\ rpc.at = "opened"
  /\ \/ /\ handles' = handles \cup {rpc.fd}
        /\ socks' = [socks EXCEPT ![rpc.fd] = IF rpc.op = "tcp_listen" THEN "listen" ELSE "stream"]
     \/ ConnectFailed /\ UNCHANGED handles
  /\ Return
  /\ UNCHANGED <<running, workers>>

(* op_ping_one: whether sendto fails, the reply comes or the wait times out *)
op_ping_done ==
  /\ rpc.op = "ping_one" /\ rpc.at = "opened"
  /\ Closed(rpc.fd)
  /\ Return
  /\ UNCHANGED <<handles, running, workers>>

(* op_tcp_accept: -L4_EINVAL for a number that is no handle; 0 when nothing  *)
(* is pending, the handle is not a listening one or no descriptor is left    *)
op_tcp_accept(f) ==
  /\ rpc = Idle
  /\ \/ UNCHANGED <<socks, handles>>
     \/ /\ f \in handles /\ socks[f] = "listen"
        /\ \E c \in NetFds : Opened(c, "stream") /\ handles' = handles \cup {c}
  /\ UNCHANGED <<rpc, running, workers>>

(* op_close closes first and takes the handle away then: in between an echo  *)
(* thread may be given the same descriptor                                  *)
op_close(f) ==
  /\ rpc = Idle /\ f \in handles
  /\ Closed(f) /\ Serve("close", "closed", f)
  /\ UNCHANGED <<handles, running, workers>>

op_close_erase ==
  /\ rpc.op = "close"
  /\ handles' = handles \ {rpc.fd}
  /\ Return
  /\ UNCHANGED <<socks, running, workers>>

(* Mutant: the flag is not looked at *)
NotChecked(kind) == TRUE

MayStart(kind) == ~running[kind]

(* op_udp_echo and op_tcp_echo: "already running", or the flag is set... *)
op_echo(kind) ==
  /\ rpc = Idle /\ MayStart(kind)
  /\ running' = [running EXCEPT ![kind] = TRUE]
  /\ Serve(kind, "spawn", NoFd)
  /\ UNCHANGED <<socks, handles, workers>>

(* ... and spawn_worker starts the thread or, failing, clears it *)
op_echo_spawn ==
  /\ rpc.op \in Kinds
  /\ \/ \E w \in Workers :
          /\ workers[w].at = "none"
          /\ workers' = [workers EXCEPT ![w] =
                           [kind |-> rpc.op, at |-> "start", fd |-> NoFd, cfd |-> NoFd]]
          /\ UNCHANGED running
     \/ running' = [running EXCEPT ![rpc.op] = FALSE] /\ UNCHANGED workers
  /\ Return
  /\ UNCHANGED <<socks, handles>>

-----------------------------------------------------------------------------
(* udp_echo_thread and tcp_echo_thread *)

Ends(w) ==
  /\ running' = [running EXCEPT ![workers[w].kind] = FALSE]
  /\ workers' = [workers EXCEPT ![w] = NoWork]

echo_socket(w) ==
  /\ workers[w].at = "start"
  /\ \/ /\ \E f \in NetFds :
             /\ Opened(f, "other")
             /\ workers' = [workers EXCEPT ![w].at = "bind", ![w].fd = f]
        /\ UNCHANGED running
     \/ Ends(w) /\ UNCHANGED socks
  /\ UNCHANGED <<handles, rpc>>

echo_bind(w) ==
  /\ workers[w].at = "bind"
  /\ \/ workers' = [workers EXCEPT ![w].at = "run"] /\ UNCHANGED <<socks, running>>
     \/ Closed(workers[w].fd) /\ workers' = [workers EXCEPT ![w].at = "end"] /\ UNCHANGED running
  /\ UNCHANGED <<handles, rpc>>

(* udp_echo_thread: recvfrom fails *)
udp_echo_break(w) ==
  /\ workers[w].kind = "udp" /\ workers[w].at = "run"
  /\ Closed(workers[w].fd)
  /\ workers' = [workers EXCEPT ![w].at = "end"]
  /\ UNCHANGED <<handles, rpc, running>>

(* the socket is closed: the flag is cleared and the thread is gone *)
echo_end(w) ==
  /\ workers[w].at = "end"
  /\ Ends(w)
  /\ UNCHANGED <<socks, handles, rpc>>

(* tcp_echo_thread serves one connection after the other; a failed accept is *)
(* tried again                                                              *)
tcp_echo_accept(w) ==
  /\ workers[w].kind = "tcp" /\ workers[w].at = "run" /\ workers[w].cfd = NoFd
  /\ \E c \in NetFds : Opened(c, "other") /\ workers' = [workers EXCEPT ![w].cfd = c]
  /\ UNCHANGED <<handles, rpc, running>>

tcp_echo_close(w) ==
  /\ workers[w].cfd # NoFd
  /\ Closed(workers[w].cfd) /\ workers' = [workers EXCEPT ![w].cfd = NoFd]
  /\ UNCHANGED <<handles, rpc, running>>

-----------------------------------------------------------------------------
NetSocketsInit ==
  /\ socks = [f \in NetFds |-> "free"] /\ handles = {}
  /\ rpc = Idle
  /\ running = [k \in Kinds |-> FALSE]
  /\ workers = [w \in Workers |-> NoWork]

NetSocketsNext ==
  \/ (\E op \in Starts : op_socket(op)) \/ op_tcp_ready \/ op_ping_done
  \/ (\E f \in NetFds : op_tcp_accept(f) \/ op_close(f)) \/ op_close_erase
  \/ (\E k \in Kinds : op_echo(k)) \/ op_echo_spawn
  \/ \E w \in Workers :
       \/ echo_socket(w) \/ echo_bind(w) \/ udp_echo_break(w) \/ echo_end(w)
       \/ tcp_echo_accept(w) \/ tcp_echo_close(w)

NetSocketsSpec == NetSocketsInit /\ [][NetSocketsNext]_netsockVars

-----------------------------------------------------------------------------
(* Properties *)

NetSocketsTypeOK ==
  /\ socks \in [NetFds -> {"free", "stream", "listen", "other"}]
  /\ handles \subseteq NetFds
  /\ rpc.op \in Starts \cup Kinds \cup {"close", "none"} /\ rpc.fd \in NetFds \cup {NoFd}
  /\ running \in [Kinds -> BOOLEAN]
  /\ \A w \in Workers :
       /\ workers[w].kind \in Kinds /\ workers[w].at \in {"none", "start", "bind", "run", "end"}
       /\ {workers[w].fd, workers[w].cfd} \subseteq NetFds \cup {NoFd}

Alive(w)     == workers[w].at # "none"
WorkerFds(w) == ({workers[w].cfd} \cup IF workers[w].at \in {"bind", "run"} THEN {workers[w].fd} ELSE {})
                  \ {NoFd}

(* Between two RPCs the descriptors add up: every open socket is a handle of  *)
(* a client or belongs to one echo thread, no handle names a closed socket or *)
(* one an echo thread has come to own, although op_close frees the number     *)
(* before it forgets it, and no error path leaves a socket open ("the set     *)
(* guards against clients passing fds we never opened", g_open_handles).      *)
SocketsAccounted ==
  LET echo == UNION {WorkerFds(w) : w \in Workers}
  IN  rpc = Idle =>
        /\ NetFds \ Free = handles \cup echo
        /\ handles \cap echo = {}
        /\ \A v, w \in Workers : v # w => WorkerFds(v) \cap WorkerFds(w) = {}

(* "Idempotent: reports if one is already running" (net_ipc.h, udp_echo and    *)
(* tcp_echo): at most one thread of a kind runs, and the flag is set exactly   *)
(* while one does or is being started, so that an echo server that failed can *)
(* be started again.                                                          *)
EchoOnce ==
  \A k \in Kinds :
    LET mine == {w \in Workers : Alive(w) /\ workers[w].kind = k}
    IN  /\ Cardinality(mine) <= 1
        /\ running[k] <=> (mine # {} \/ rpc.op = k)

=============================================================================
