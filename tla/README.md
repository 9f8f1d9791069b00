# TuringOS: a TLA+ verification project

TuringOS is a multi-server operating system on the L4Re/Fiasco microkernel.
The kernel, L4Re and most device drivers come from upstream; the system's own
logic is a set of user-level servers and libraries under `src/pkg/` that talk
by synchronous IPC. This project models that logic, checks it with TLC on
small instances and proves with TLAPS, for every size of the instances, all of
its safety properties and its three refinements.

## 1. Inventory

| Component | State it keeps | Operations | Interacts with |
|---|---|---|---|
| `spawn` (spawnd) | task table of 32 slots, handle counter; one mutex | spawn, spawn_con, wait, kill, exec, task_count, task_stat; reaper thread: exit IPC, crash scan | children (exit IPC on the parent gate), shell, devmgr, benchmarks |
| `native_shell` | job table of 16 entries, keyboard ring of 256 bytes, login state, redirection | run, wait, kill, list_tasks, top, file/network commands, login | spawnd, authd, devfs, ext4, klog, netd |
| `klog` (libklog) | ring of 256 entries, sequence counters; one mutex | klog_write, klog_flush, klog_dump, klog_clear | log file on ext4, or syslogd |
| `syslogd` | one open file, bytes since reopen | log (send-only IPC, dropped when busy) | klog clients, ext4 |
| `filesystem/ext4` | per-open file objects with a shared bounce buffer, cache of sub-namespaces | query, setup, pread, pwrite, pappend, ftruncate, release, mkdir, unlink | lwext4 (external), virtio block client, VFS client library |
| `tmpfs` | inodes, directory lists, one cursor per directory object | open, read, write, truncate, mkdir, unlink, rmdir, getdents | VFS |
| `devfs` | registry of devices, snapshot for getdents | register, unregister, open, getdents | shell, drivers |
| `procfs` | none of its own | generated files | spawnd, kernel info |
| `authd` | table of credentials | authenticate | shell login, shadow file on ext4 |
| `netd` | lwIP stack, socket handles, receive thread, virtio rings | resolve, ping, dhcp, sockets, echo servers | virtio-net device, clients |
| `virtio-serial` | two virtqueues, one TX buffer | vcon write, vcon read | shell console |
| `virtio-block-driver` | virtqueue, client requests | queue processing | ext4 |
| `devmgr` | none | starts the drivers of its table through spawnd | spawnd |
| `net-cluster` | MQTT and telnet sessions, network tools | connect, publish, session loop | netd |
| `fb-drv`, sensor drivers (`ds18b20`, `tef6686hn`, `at24c02`, `mcp2515`, `ssd1306`), `lvgl` demo, `benchmark`, `smp-test`, `hello` | device registers | simple request/reply or demo loops | io server |

Vendored or upstream, left aside: `acpica`, `ada`, `ahci-driver`, `atkins`,
`bootstrap`, `cons`, `drivers-frst`, `emmc-driver`, `gnu-efi`, `i2c-driver`,
`io`, `l4virtio`, `libblock-device`, `libfdt`, `libvcpu`, `lwip`, `mbedtls`,
`nvme-driver`, `readline`, `rtc`, `spi-driver`, `tinit`, `tvmm`, `usb`,
`uvmm`, `virtio-net`, `virtio-net-switch`, `wamr`, `zlib`.

Where it is hard:

* **spawnd**: a dispatch thread that unlocks the table in the middle of spawn,
  exec and wait, a reaper thread that marks slots meanwhile, and children that
  may exit or crash at any point, before they are installed or while they are
  being replaced by exec. Correct means: handles are unique, a wait is about the child that was
  asked for, no exit and no task is lost, an exit is charged to the right
  program, and waits return.
* **klog, syslogd**: flush unlocks between reading and raising its mark, and opens,
  seeks and writes the file in between; correct means each entry is in the file
  once, in order, and warnings are on disk. With
  syslogd, sends race and are dropped while the server is busy; what it accepts
  must survive its reopening of the file.
* **job control**: two tables (shell and spawnd) that must agree over a
  blocking RPC, and one server thread for all shells.
* **ext4, tmpfs, devfs**: several open handles on one file, each with a cached
  size in the client and another one in the server; transfers cut into chunks, between which other clients write; listings
  of a directory that changes meanwhile.
* **the shell's two threads**: a monitor thread that reads keys and a main loop
  that runs commands, joined by a ring under a lock and by two flags without
  one. Correct means that keys arrive in order and none is dropped while there is
  room, that a Ctrl-C ends the command it was meant
  for and no later one, and that stdout is restored.
* **virtio drivers**: ring indices modulo the queue size, buffers reused while
  the device may still own them, bounded polling. Correct means that each
  buffer has one owner and that bytes pass once, in order and unchanged. In
  netd the receive thread also transmits, under the lock all transmitters share.
* **netd's sockets**: one thread for the RPCs, others for the echo servers, all
  taking descriptors from one set; error paths that must give them back.
* **login**: must fail closed when authd or its data are missing.

The full list of what is hard to test, each at its line, is `hazards` in
`PROJECT.json`.

## 2. Plan

Written, in this order:

| Module | Models | Kind |
|---|---|---|
| `Lifecycle` | what spawnd promises about a handle | abstract specification |
| `Spawnd` | spawnd: dispatch thread, reaper thread, task table, children | detailed specification; implements `Lifecycle` |
| `SpawndProofs` | theorems about `Spawnd`, and that it implements `Lifecycle` | proofs |
| `Klog` | libklog's ring and log file, several threads | specification |
| `Syslogd` | syslogd, and `Klog` sending to it | composition |
| `ShellJobs`, `MCShellJobs` | the shells' job tables over spawnd, spawnd being `Lifecycle` plus its slots and its single server | composition |
| `Ext4Files` | file objects of the ext4 server and the client library on top | composition of client and server |
| `PosixFiles` | what a program expects of regular files | abstract specification |
| `TmpfsFile` | files of tmpfs: inodes, handles, buffers | detailed specification; implements `PosixFiles` |
| `TmpfsDir`, `Devfs` | directories of tmpfs and of /dev, and their listings | specifications |
| `KeyQueue` | a bounded queue of keys | abstract specification |
| `Console` | the shell's monitor thread, keyboard ring, main loop, redirection | detailed specification; its ring implements `KeyQueue` |
| `Login` | the login dialogue and authd | composition |
| `Virtqueue` | ring indices, shared by the next two | operators |
| `VirtioSerial` | the console driver and its device | specification |
| `NetQueue` | netd's driver, the threads that share it and its device | specification |
| `NetSockets` | netd's sockets, handles and echo threads | specification |
| `Loops` | two loops over a sequence that `Klog`, `Syslogd` and `Login` share | operators |
| `DataLemmas` | sequences, ring indices, remainders, the loops, induction | lemmas |
| `LogProofs`, `ShellJobsProofs`, `DriverProofs`, `NetSocketsProofs`, `FileProofs`, `ConsoleProofs` | theorems about `Klog` with `Syslogd`; `ShellJobs`; `VirtioSerial` and `NetQueue`; `NetSockets`; `Ext4Files`, `TmpfsFile`, `TmpfsDir` and `Devfs`; `Console` and `Login` | proofs |
| `MCExt4` | `Ext4Files` with interchangeable clients | model-checking module |
| `MCShell`, `MCDrivers` | the process of the shell (`Console`, `Login`, tmpfs, /dev); the drivers and sockets: one run for several modules that share no state: each is explored while the others rest in their initial states | model-checking modules |

What is left to prove: nothing that the runs check as an invariant, an action
property or a refinement. The seven liveness properties stay with TLC (section
6). Worth adding are stronger statements about the modelled parts, for instance
that `Syslogd` implements a queue of lines, and modules for parts that are only
partly modelled.

## 3. The modules and the code

### Spawnd

Every access to the task table is inside a critical section of `_mtx`, so an
action is one critical section or one stretch of code between two of them. The
handler that is running is `pc` with its locals; `pc = "loop"` is the server
loop. The names of the actions are those of the methods:

| Action | Code in `pkg/spawn/server/src` |
|---|---|
| `op_spawn`, `op_spawn_invalid` | `op_spawn`, `op_spawn_con` up to the allocation; refusals |
| `do_spawn_load`, `do_spawn_failed`, `do_spawn_install` | `do_spawn`: `load_image` without the lock, the slot given back, the slot filled |
| `op_wait`, `do_wait_done`, `do_wait_free` | `op_wait`, `do_wait` (poll every 10 ms), the free afterwards |
| `op_kill`, `op_task_count`, `op_task_stat` | the same |
| `op_exec`, `op_exec_load`, `op_exec_swap` | `op_exec`: check, load, swap or drop |
| `ReaperReceive`, `ReaperMark`, `ReaperReply`, `ReaperTimeout`, `reap_once` | `reaper_main`, `reap_once` |
| `ChildExit`, `ChildCrash`, `ChildExec` | the programs (outside the server; `pkg/exectest` is one) |

A slot has the code's fields except the name; `task` stands for the four
capabilities a slot owns, which come and go together. An *image* is one
successful `load_image`: exec gives the same handle a second image, which is
why images and handles differ. Destroying capabilities makes an image `gone`,
and a message from an image that is gone cannot arrive. `MultiThreaded` says
whether a program may exit in one thread while another is inside exec.

Left out: argument packing, names, printing, and `being_waited`, which is
written and never read. Clients may send any handle at any time. A child
passes its own handle to exec (`SPAWND_HANDLE`).

### Lifecycle

A handle is unborn, live, exited or over. It exits at most once, its code does
not change, one waiter collects it, and it never comes back. `Spawnd` maps the
slot states to it; `ShellJobs` uses it in place of spawnd.

### Klog and Syslogd

The ring, the counters and, per thread, the position inside `klog_flush`: copy
under the lock, open the file and seek to its end without it (`flush_open`),
write there (`flush_write`), raise `g_file_seq` under the lock. `klog_write` at
WARN or worse goes on into a flush. An entry is its number and its level. The
position is the thread's own: a flush that writes after another one has written
to the same end destroys some of its lines, how many is left open, since lines
have different lengths. `raced` is the history of the entries that flushes had
to write while another had the file open; the properties except those and
nothing else. `fopen` may fail; `fprintf` and `fclose` do not (the code ignores
their results).

`klog_init` finds out whether the process has a capability to syslogd
(`syslogd`, chosen in `Init`). If so, `klog_write` numbers the entry under the
lock and sends it afterwards (`klog_send`), and `klog_flush` does nothing.
`Syslogd` adds the other side: a send that finds the server waiting is received
(`log_received`), any other is dropped (`log_dropped`), since the send timeout
is zero. `op_log` is three steps: reopen or open the file (which may fail: the
message is refused), write into the stdio stream (whose buffer may be written
out when full), and for a warning close and reopen, which flushes. `taken`
records what was received. Lines have a length so that `REOPEN_BYTES` means
something.

### ShellJobs

Per shell, the command that is running, its call to spawnd, the reply and
`g_tasks` up to `g_task_count`. spawnd's handles obey `Lifecycle` (the actions
are its actions, conjoined); added are what its clients feel: the number of
slots, and the single dispatch thread, which serves nobody else while it loads
or polls (`serving`). A program need not end, and a shell may start more programs
than its table has entries: `task_register_proc` then forgets the job, and
`starter` records whose it was. Exit codes are 0 and -1, the code of a crash. A code of
-2 is left out: `wait` cannot tell it from "no such handle".

### Ext4Files

Per client one handle: what `Ext4_file_vfs` remembers of the size and its
flags, and the operation in progress with what is left of it. One action is one
RPC to the file object (`pread`, `pwrite`, `pappend`, `ftruncate`, `release`)
together with what the client does before its next one: `preadv` and `pwritev`
loop over chunks of the bounce buffer, so writes of others fall between the
chunks of one. The file is a sequence of numbered bytes, with 0 for a hole. The
lookup makes an object and counts it until its release.

lwext4 is external and modelled from how the server uses it: each open has an
`ext4_file` of its own with its own idea of the size (`fsize`), which its reads,
writes and truncations bring up to date and others' do not. `ext4_fseek` trusts it:
`SEEK_END` goes there, so that `op_pappend` may write over what others appended
since, and a position beyond it is refused. Truncating to more than there is
changes nothing and reports success, and a truncation may fail halfway; the
client takes any size it asked for as its new `_size` when the call succeeds. Any
call may fail. The history records what a client reported as appended (`kept`),
what others wrote that a server object has not seen (`unseen`), and which of it
an append then hit (`overrun`).

### TmpfsFile, TmpfsDir, Devfs

`TmpfsFile` has one name, the inodes it has had and the handles on them. A
buffer has a capacity, and the bytes between size and capacity are whatever was
there: that is what makes "a hole reads as zero" a statement about the code.
Mapped to `PosixFiles`, an inode is its first `_size` bytes. Allocation may
fail. `TmpfsDir` has the linked lists (new entries in front), and the listing
position of a directory, which belongs to the directory object and so is
shared by all who list it. `Devfs` is the registry under its lock and the copy
of its names that a listing works on. Readers of a directory are recorded as
alone or not, because the shared position makes a promise only to one who is.

### Console, KeyQueue, Login

`Console` has the ring with its two indices, the flags `g_cmd_running` and
`g_shell_interrupt`, the monitor thread (for Ctrl-C three steps: set the one flag,
test the other, and push the key) and the main loop step by step: read a line,
open the redirection, `dup` and `dup2`, set and clear the flags, run, restore.
Commands are of three kinds: `cat`, which tests the flag between two reads of
input that may have no end (`cat_test`, `cat_read`; a read need not return);
`top`, which polls the flag and takes keys; and others, which do not look. File
descriptors are counted. readline is external. The ring, whose push and pop are
each one step under `g_kbd_mtx`, implements `KeyQueue`; `io` records the last key
typed or taken, so that typing a key is a step of `KeyQueue` also when the key is
dropped, and allowed to be dropped only when the queue is full.

`Login` reads characters into the two buffers (with erasing, and a limit),
sends the call and counts attempts; authd loads its table from the shadow file
or falls back to the built-in entry, skips unusable lines, and compares with
the first entry of the name. Two passwords never have one hash.

### VirtioSerial, NetQueue

The rings, the buffers and the indices shared with the device, the driver's
private indices, and the position inside `vcon_write` or `vcon_read`. Actions
are split wherever the device could see a difference. Bytes and messages are
numbered, and history variables record what clients got, what a read cut off
and what the device put out. The device is external: it takes available
entries in order, at any time or never, and rejects an index that is more than
a ring ahead. Memory is sequentially consistent. The poll of `vcon_write` may
end at any time, because its bound is a number of rounds and the counter it
reads is not volatile.

`NetQueue` is the same for netd: `net_output`, called with the core lock held by
an application's thread or by the receive thread from inside `ethernet_input`,
and `net_rx_thread`. One departure from sequential consistency is modelled,
because the code leaves out a barrier: in re-arming, the ring entry and
`avail.idx` become visible in either order. Reads of the used ring are fresh.

### NetSockets

The descriptors of netd by what they are, `g_open_handles`, the RPC in service
and the echo threads. A step is one socket call; each may fail. `op_close` is two
steps, because it frees the descriptor before it erases the handle.

## 4. The runs

| Run | Bounds | Checks |
|---|---|---|
| `spawnd` | 2 slots, 2 handles, 3 images (one exec, or a third load that fails), 2 exit codes, single-threaded programs | all safety properties and the refinement of `Lifecycle` |
| `spawnd_threads` | 1 slot, 2 handles, 2 images, multi-threaded programs, fairness | exits and crashes are noticed, a wait on an ended child returns |
| `spawnd_stale_exit` | 1 slot, 2 images, multi-threaded | violation: an exit IPC charged to the program that replaced its sender |
| `spawnd_exec_wait` | 1 slot, 2 images, fairness, every unblocked program ends | violation: a wait on a program that calls exec never returns |
| `klog` | 2 threads, ring of 2, 3 entries, with and without syslogd, lines of 1 or 2, reopening at 2 | ring contents; nothing counts as written that is not, and warnings are on disk, save entries of flushes that overlapped; `SyslogKept`: syslogd keeps what it accepts, warnings and all before them are on disk, its buffer is bounded; each thread in order |
| `klog_duplicates` | the same, without syslogd | violation: two flushes write the same entry |
| `shell_jobs` | 2 shells, 2 handles, 2 slots, tables of 1 | no child lost but one that found the table full, no ghost job; every command returns unless a program that is waited for never ends |
| `drivers` | rings of 2, indices modulo 4, buffers of 2 bytes, reads of 1 to 3, 6 bytes, 5 messages; 5 frames in, 5 out; 3 descriptors, 2 threads; fairness | console: one owner per buffer, input accounted for and output intact while polls succeed (`BytesAccounted`), writes return; network: one owner per buffer, frames in order and intact both ways (`FramesIntact`), every frame taken; sockets: descriptors add up, one echo thread of a kind |
| `vserial_late` | rings of 2, 2 messages | violation: a late device puts out the wrong message |
| `ext4` | 2 clients, chunks of 1, transfers of 2, 3 bytes, 2 opens, offsets and truncations to 0 and 1 | an append destroys nothing its server object has seen (`SeenAppendsKept`), cached size ahead of the file only for the reasons named and exact for a lone client (`CachedSize`), reads not torn while the file grows, bounded, and short only at the end (`ReadsSound`), objects released |
| `ext4_append` | the same, offsets to 2 | violation: an append lands on another client's |
| `shell` | 4 keys, ring of 3, 2 descriptors; 2 characters, lines of 2, 3 attempts, 7 shadow files; tmpfs: 2 handles, 2 inodes, sizes to 2, 2 names, 2 readers, 1 sub-directory; /dev: 3 names, 2 readers; fairness of the main loop | keys in order and dropped only when the ring is full, a Ctrl-C is kept and not stale (`InterruptExact`), the command it hits ends, stdout restored and descriptors accounted for (`RedirectionUndone`); login exactly with the right password; tmpfs is `PosixFiles`, inodes live exactly as long as needed, the tree stays one and listings miss and repeat nothing (`DirectoriesSound`), /dev lists its snapshot |

Why these bounds reach the interesting cases. In `spawnd` two slots are enough
for a slot to be freed and taken again while the other is waited for, and for
a full table; three images allow spawn, spawn, exec, and the failure of every
load. All defects of the table involve at most two children and one exec. One
slot in `spawnd_threads` forces its reuse, which is what a late exit IPC would
need. The ring of `klog` wraps at the third entry, while both threads are in a
flush, and three lines pass the limit at which syslogd reopens. In `shell_jobs` a
full spawnd and a full `g_tasks` are both reached, the latter with one job. In
`drivers` every index wraps, a read ends in the middle of a buffer, the
transmit ring can be overrun, and the descriptors run out while an echo thread
holds some. In `ext4` a transfer has two chunks, so that another client's write
falls between them; a client writes behind an end that another has cut, which
leaves a hole; and a truncation may be to more than there is. In `shell` the
ring is full with two keys, a failed redirection uses up the descriptors, a
password is as long as the buffer, a tmpfs buffer grows twice, and a directory
changes between two calls of one listing. The proofs of section 6 remove the
bounds for every safety property and refinement in the table; for liveness they
remain.

Some properties are conjunctions of statements that are defined, and explained,
one by one in front of them: those named in the table, and no others.

Each property has a mutant in `PROJECT.json`: a changed definition, such as a
dropped guard or a counter that is not advanced, under which the same run finds
it violated. The mutants stand in the modules in front of what they replace.

The larger passing runs reach 1,336,850 states (`ext4`), 1,335,311 (`klog`),
1,089,224 (`shell`) and 452,505 (`drivers`), each in two or three minutes at most.

Some properties are bounded by what the code gives and no more:
`FlushedInFile` and `WarnOnDisk` are for flushes that have the file to themselves,
`SeenAppendsKept` for bytes the appending handle's server object has seen,
`SizeExactAlone` (in `CachedSize`) for a client that has the file to itself,
`ReadNotTorn` (in `ReadsSound`) for a read during which the file only grows,
`NoneMissed` and `NoneTwice` (in `DirectoriesSound`) for a reader that lists
alone, `NoLostChild` for jobs that found room in the table, and `InterruptEnds`
for commands that poll the flag and reads that return. What happens
outside these conditions is shown by the run `ext4_append` for appends, and told in
section 7 for the log and the job table.

### Findings

* `spawnd_exec_wait`: `run exectest` does not do what its comment says. The
  shell's spawn polls on the dispatch thread, which alone could serve the exec
  of the program it polls for.
* `spawnd_stale_exit`: the reaper looks the slot up by handle only, and exec
  keeps the handle. An exit IPC received before the swap marks the new program.
  It takes a program with two threads, one in exit and one in exec; with
  single-threaded programs `spawnd` shows that it cannot happen.
* `klog_duplicates`: `g_file_seq` is read in one critical section and raised in
  another, so two threads may write the same entries.
* `ext4_append`: `op_pappend` seeks to the end that the `ext4_file` of its own open
  remembers, so two processes that append to one file overwrite each other,
  although the comments (ext4_vfs.cc:129, ext4_file_svr.cc:151) say they never do.
  lwext4 is not in the repository; that it keeps the size per open is upstream's
  behaviour.
* `vserial_late`: the single transmit buffer is overwritten when a poll runs
  out before the device has read it.

## 5. Fairness

* `Spawnd!FairSpec`: weak fairness of the dispatch thread inside a handler and
  of the reaper: both are ordinary threads that nothing in the code stops, and
  `_mtx` is held only for short, bounded sections. Strong fairness of each
  queued exec: the server may serve other requests, but senders queue at its
  gate in order. No fairness of requests or programs: nobody has to call.
* `EndingSpec` adds that every program that is not blocked in a call ends. It is
  used only for the violation, where it makes the counterexample mean something.
* `ShellJobs!FairSpec`: spawnd passes over no queued caller for ever (the same
  queue), and a shell that has its reply goes on. Nothing is assumed of programs:
  one that is waited for and never ends (or hangs in an exec that spawnd cannot
  serve, as in `spawnd_exec_wait`) holds up every shell, and `CommandReturns`
  says that this is the only way not to return.
* `VirtioSerial!SerialFairness`: the server thread runs. Nothing is assumed of
  the device, so `WriteReturns` holds with a device that is stalled.
* `NetQueue!NetQueueFairness`: the receive thread and a thread inside
  `net_output` run, and the device sends what it is given. The last is needed:
  `net_output` waits without a bound. The number of frames is bounded, so that
  weak fairness of the lock suffices.
* `Console!ConsoleFairness`: the main loop runs. Nobody has to type, no read of
  `cat`'s input has to return, and the input need not end, so that `cat` ends
  only by its test of the flag. Commands that do not look at the flag are not
  claimed to end.
* `Klog`, `Syslogd`, the file systems, `Login` and `NetSockets` need none.

## 6. What is proved

Every invariant, action property and refinement that a passing run checks is a
theorem, for every value of the constants that the named assumptions allow. The
bounds on counters (`MaxSeq`, `MaxTyped`, ...) are constants like the others:
the theorems hold however large they are.

| Module | Theorem | Statement |
|---|---|---|
| `SpawndProofs` | `TypeCorrect`, `UniqueHandles`, `StableWait`, `NoTaskLost`, `NoSlotLeak`, `NoExitLost` | `Spec => []P` for `TypeOK`, `HandlesUnique`, `WaitedSlotStable`, `NoOrphan`, `LoadingInFlight`, `ExitRecorded` |
| | `ImplementsLifecycle` | `Spec => LifecycleSpec` |
| | `ExitOfCurrentProgram` | `Spec => []ExitIsOfCurrentProgram`, if programs have one thread |
| `LogProofs` | `RingIsConsistent`, `FlushedIsInFile`, `WarningsOnDisk`, `SyslogIsKept`, `ThreadsInOrder` | `LogSpec => []P` for `RingConsistent`, `FlushedInFile`, `WarnOnDisk`, `SyslogKept`, `ThreadOrder` |
| `ShellJobsProofs` | `TablesInOrder` | `Spec => []JobInv`, the invariant of the tables |
| | `NoChildIsLost` | `Spec => []NoLostChild` |
| | `NoGhostJobs` | `Spec => []NoGhostJob`, if no program exits with -2 |
| `DriverProofs` | `ConsoleBuffers`, `ConsoleBytes` | `Spec => []P` for `BufferOwnership`, `BytesAccounted` |
| | `NetBuffers`, `NetFrames` | `NetQueueSpec => []P` for `RxBufferOwnership`, `FramesIntact` |
| `NetSocketsProofs` | `AllSocketsAccounted`, `EchoServerOnce` | `NetSocketsSpec => []P` for `SocketsAccounted`, `EchoOnce` |
| `FileProofs` | `AppendersSafe`, `SizesRemembered`, `ServerObjects` | `Ext4Spec => []P` for `SeenAppendsKept`, `CachedSize`, `ObjectsAccounted` |
| | `ReadsAreSound` | `Ext4Spec => ReadsSound`, an action property |
| | `InodesLive`, `TmpfsIsPosix` | `TmpfsFileSpec => []InodeLifetime`, `TmpfsFileSpec => IsPosixFile` |
| | `DirectoriesKept` | `TmpfsDirSpec => []DirectoriesSound` |
| | `ListsSnapshot` | `DevSpec => []SnapshotListed` |
| `ConsoleProofs` | `ConsoleTypeCorrect`, `InterruptsExact`, `RedirectionsUndone` | `ConsoleSpec => []P` for `ConsoleTypeOK`, `InterruptExact`, `RedirectionUndone` |
| | `KeysStayInOrder` | `ConsoleSpec => KeysInOrder`, the refinement of `KeyQueue` |
| | `LoginIsExact` | `LoginSpec => LoginExact`, an action property |

### Assumptions

Each module that declares constants names what is assumed of them, and TLC
evaluates it on every run. Sizes are naturals, not zero where the code divides
by them or would not work with none (slots, ring sizes, buffers, `MaxRw`);
`Threads` is not empty; `Clients`, `Handles` (of tmpfs) and `NetFds` are finite,
as references and descriptors are counted; `IDX`, the number of ring indices, is
a multiple of the ring size and larger (2^16 and a power of two in the code).

Two theorems have a hypothesis, and in each case a run or a line of code shows
that it is needed. `ExitOfCurrentProgram` is false for programs with several
threads (run `spawnd_stale_exit`). `NoGhostJobs` excludes the exit code -2, which `wait` cannot tell from an unknown handle.

### Arguments

No property below is inductive by itself.

**Spawnd.** `IInv` adds to the properties `SlotInv` (a FREE slot is empty and a
RUNNING one owns a task), `ImageInv` (images carry handles that were given out,
and a slot owns only images with its own label: this connects an exit IPC to a
slot), `ServerInv` (what a handler may rely on when it takes the lock again:
while `do_spawn` loads, its slot is its own, LOADING or EXITED) and `ReaperInv`
(between marking and answering the exit is recorded unless the child is gone).
There is one lemma per action, with shared ones for freeing a slot, launching an
image, replies and exits. For the refinement, `LifeByTable` replaces the choice
of a slot in the mapping by the table; then each step either changes nothing of
any handle, or is one step of one of them. `CurrentInv` is for exec: the image in
flight is the newest, the slot of the handle owns the caller, and a program that
is in exec has sent no exit; so an exit that can still mark a slot is not from
the program that was replaced.

**Klog, Syslogd.** A thread inside `klog_flush` has a copy that is stale. `SnapInv`
says what it may still rely on: its copy is a run of consecutive numbers that
begins no later than the ring, `g_file_seq` has not fallen below what the copy
says, and while it writes, all of the copy that was new is in the file, raced, or
still to be written. `WriterInv` is about open files: behind the position of a
thread that is about to write, the file has only raced entries, so that what it
destroys was raced. `WarnInv` says that a warning not on disk is on its way in
some thread's flush.
`DurableInv` and `OrderInv` do the same for the line in work of `op_log`, and
`SendInv` for the entries that threads have numbered and not sent.

**ShellJobs.** `JobInv` says that handles grow along a table, which bounds its
length, and that a handle being loaded or on its way to a table is in no table and
in no other call. `KeptInv` (every taken slot is being started, or listed, or was
turned away by a table full of smaller handles, which stays full) and
`GhostInv` (a listed handle that is over was ended elsewhere, or by a call that
has not come back to the table) rest on it.

**VirtioSerial, NetQueue.** Indices run modulo `IDX` and places modulo the ring
size. `Dist` is the distance of two indices and `Off` the number of a place
counted from an index. The argument is that place p of the receive rings holds
buffer p from the set-up on, so that who owns a buffer is a matter of distances
only. `DataInv` orders the bytes: returned or cut, in the buffer being read, in
the buffers that wait, in the order of `Off`. `TxInv` says how far the device can
be behind. In `NetQueue` the re-arming has the two unordered stores; since the
entry that may be stale was p as well, either order is harmless, for every ring
size.

**NetSockets.** `OwnerInv` gives every open descriptor one owner in the middle of
an RPC too: a client, the RPC in service, or an echo thread. `EchoInv` ties the
flag to a thread or to a start in progress.

**Ext4Files.** The invariant has a part for each piece of stale knowledge: the
sizes a handle and its server object remember (`HandleOK`: beyond the end that the
object remembers there is only what others wrote since, and holes, so an append
there hits nothing else: `AppendSpares`, and `OthersSee` for the other handles),
and what a read in several RPCs has so far (`ReadOK`: its bytes are those of the
file as long as the file has only grown).
The proofs are mostly about pieces of sequences under append, overwrite and cut.

**TmpfsFile.** `TmpInv`: the counter of an inode is the number of handles on it
plus one for the name, its size is within its buffer, and a freed one is blank.
For the refinement each step is described by its effect on one inode (`Effect`),
and `EffectIsPosix` shows that effect to be a step of `PosixFiles`: whatever the
buffer holds between size and capacity, the hole is filled before the size grows.

**TmpfsDir.** `TreeOK` states the tree by positions in the lists and adds that a
directory is entered under an older one, which is what excludes cycles.
`ReaderOK` is about what is still ahead of the listing position: while entries
are only added, what was there at first was returned or is ahead; while they are
only removed, what is ahead was not returned.

**Devfs.** A reader that is alone has got the first part of the listing that its
snapshot gives, up to the index; the names of a set in ascending order are one
sequence (`AscendsExists`, by induction).

**Console.** `FlagInv` and `DescriptorInv` tie the flags and the descriptors to
the place of the main loop. That the ring implements `KeyQueue` follows from
`RingAppend` and `RingTake`: moving one index changes one end of the queue, and
the ring refuses a key exactly when the queue has KbdSize - 1 of them.

**Login.** The table that authd loaded consists of the usable lines in their
order (`KeptPicks`), so its first entry of a name is from the first usable line
of that name.

`DataLemmas` holds what several of these use. The library's induction theorems
take an operator and cannot be instantiated; `Induction` is stated for a set of
numbers instead, is proved from `LeastNumber`, and gives what the recursive
functions of `Loops` compute (`KeptPicks`, `TotalAppend`) and the laws of
remainders (`StepsOn`, `RoundsOn`) that the ring arguments need.

### What is only model-checked

The liveness properties: `ExitNoticed`, `CrashNoticed`, `WaitReturns`,
`CommandReturns`, `WriteReturns`, `FramesTaken` and `InterruptEnds`. They rest on
fairness and so on ENABLED, which the prover does not handle. The five
violations are shown by TLC's counterexamples.

## 7. What is not modelled

`components` in `PROJECT.json` gives every part and the reason. In short:
loaders, display, sensors, benchmarks and generated text have no state whose
interleavings matter, or are correct only against hardware; virtio-block is a
front end over upstream libraries. Of the modelled servers: ext4's directories
and names (lwext4, which keeps them, is not in the repository), netd's set-up,
DHCP and name resolution, the shell's parsing of lines, its scripts and its
many single-step commands. Names, texts and formats are left out everywhere; so
are failures of `fprintf` and `fclose`, the wrap-around of the 32-bit handle
counter, and weak memory apart from the re-arming in `NetQueue`.

The repository is 1.26 million lines, nearly all of them vendored packages
(`wamr`, `ada`, `zlib`, `lwip`, `mbedtls`, the L4Re drivers) that are not
TuringOS's own logic and are not modelled. The system's own servers and
libraries are some tens of thousands of lines, most of them drivers for single
devices, command text and demos.

Met while modelling, without a property of its own:

* a Ctrl-C typed after the line has been read and before the main loop clears
  `g_shell_interrupt` (main.cc:403) is lost; `InterruptExact` starts at that line;
* a redirection whose `open` fails leaves the saved descriptor open; the
  descriptors are counted with that leak in `RedirectionUndone`;
* a line of only `&` or `> file` faults on a null `argv[0]`;
* `handle_sigint` is never reached: the vendored readline raises no signal for
  Ctrl-C, contrary to the comment at main.cc:86;
* DEL is stored as a character when the login buffer is empty;
* a lookup in ext4 never answers ENOENT, and the first RPC on a missing file
  creates it;
* `op_recv` of netd answers a timeout as `net_ipc.h` says it answers a closed
  peer, and `resolve` returns -L4_ENOENT where `net_ipc.h` says
  -L4_EHOSTUNREACH;
* two flushes of libklog that have both sought to the end of the file overwrite
  each other's lines, which `g_file_seq` then counts as written for good: this is
  what `raced` excepts in `FlushedInFile` and `WarnOnDisk`. The `fseek` that
  klog.cc:195 puts in place of O_APPEND does not help, and nor would the append
  mode the ext4 client has since got, as `ext4_append` shows;
* entries of `g_tasks` are never reused (commands.cc:774): after 16 background
  jobs in its life a shell lists no new ones, and their slots in spawnd can be
  freed only by someone who remembers the handle. This is what `NoLostChild`
  excepts;
* spawnd's exit codes and error codes share the reply, so that a crash (-1) or
  an exit code of -2 reads as an error; the handle counter is 32 bits wide; and
  children that exit more often than every 500 ms keep the reaper from its scan
  for crashes;
* messages below WARN that the ring of libklog overwrites before the next flush
  never reach the file, by design; on a full disk `g_file_seq` is raised all the
  same;
* `net_output` and `vcon_write` read `used.idx` through a pointer that is not
  volatile, and virtio-serial has no read barrier before the used element; a
  device with fewer queue entries than VQ_SIZE is not provided for;
* `op_send` of netd may block its one server thread, and a ping takes a late
  reply to an earlier request;
* in tmpfs a reader that stops early leaves the position in the middle for the
  next one, and the doubling of a buffer does not end for sizes above half of
  the address space;
* the ext4 server formats a disk whose superblock it could not read;
* `parse_line` of the shell copies into 4096 bytes without a check.
