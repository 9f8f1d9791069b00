-------------------------------- MODULE Devfs --------------------------------
(***************************************************************************)
(* devfs (pkg/devfs/lib/devfs.cc): the registry of devices, changed under  *)
(* its lock by any thread, and the one directory object, whose listing     *)
(* works on a copy of the names taken when the position is 0.  Devices are *)
(* numbered in the order of their names (std::map).                        *)
(***************************************************************************)
EXTENDS Integers, Sequences, FiniteSets

CONSTANTS
  MaxDev,         \* bound: names a device can have are 1 .. MaxDev
  DevReaders      \* opendir streams on /dev

ASSUME DevfsAssumption == MaxDev \in Nat

DevNames == 1 .. MaxDev
Dot      == 0                          \* stands for "." and ".."

VARIABLES
  devices,        \* g_reg.devices: the names that are registered
  dent_idx,       \* _dent_idx
  dent_snap,      \* _dent_snap: the names, in order
  dev_stream,     \* per reader: "idle", "open" or "end"
  dev_seen        \* history: what a reader that is alone has got, and expects

devVars == <<devices, dent_idx, dent_snap, dev_stream, dev_seen>>

Alone    == [who |-> "alone", expect |-> {}, got |-> <<>>]
NotAlone == [who |-> "shared", expect |-> {}, got |-> <<>>]

(* the names in order *)
InOrder(S) == CHOOSE s \in [1 .. Cardinality(S) -> S] :
                \A i, j \in DOMAIN s : i < j => s[i] < s[j]

-----------------------------------------------------------------------------
register_device(n) ==
  /\ devices' = devices \cup {n}      \* an older device of that name is replaced
  /\ UNCHANGED <<dent_idx, dent_snap, dev_stream, dev_seen>>

unregister_device(n) ==
  /\ n \in devices
  /\ devices' = devices \ {n}
  /\ UNCHANGED <<dent_idx, dent_snap, dev_stream, dev_seen>>

(* get_entry with an empty path: the directory object itself *)
open_dev(r) ==
  /\ dev_stream[r] = "idle"
  /\ dev_stream' = [dev_stream EXCEPT ![r] = "open"]
  /\ dev_seen' = [dev_seen EXCEPT ![r] = IF dent_idx = 0 THEN Alone ELSE NotAlone]
  /\ UNCHANGED <<devices, dent_idx, dent_snap>>

(* Mutant: the names are copied anew by every call *)
CopyAlways(idx) == InOrder(devices)

(* the copy that a call with position idx works on *)
Snapshot(idx) == IF idx = 0 THEN InOrder(devices) ELSE dent_snap

(* _dent_idx after got entries *)
DevOn(got, room) == dent_idx + got

(* getdents with room for some entries *)
getdents_dev(r, room) ==
  LET snap == Snapshot(dent_idx)
      all  == <<Dot, Dot>> \o snap
      left == Len(all) - dent_idx
      got  == IF left <= 0 THEN 0 ELSE IF left < room THEN left ELSE room
  IN  /\ dev_stream[r] = "open"
      /\ dent_snap' = snap
      /\ dent_idx' = IF got = 0 THEN 0 ELSE DevOn(got, room)
      /\ dev_stream' = [dev_stream EXCEPT ![r] = IF got = 0 THEN "end" ELSE "open"]
      /\ dev_seen' = [q \in DevReaders |->
           IF q # r \/ dev_seen[r].who = "shared" THEN NotAlone
           ELSE [who    |-> "alone",
                 expect |-> IF dent_idx = 0 THEN devices ELSE dev_seen[r].expect,
                 got    |-> dev_seen[r].got \o SubSeq(all, dent_idx + 1, dent_idx + got)]]
      /\ UNCHANGED devices

close_dev(r) ==
  /\ dev_stream[r] # "idle"
  /\ dev_stream' = [dev_stream EXCEPT ![r] = "idle"]
  /\ dev_seen' = [dev_seen EXCEPT ![r] = NotAlone]
  /\ UNCHANGED <<devices, dent_idx, dent_snap>>

(* Devfs::init registers null and zero; which names they have is left open *)
DevInit ==
  /\ devices = 1 .. (IF MaxDev < 2 THEN MaxDev ELSE 2)
  /\ dent_idx = 0 /\ dent_snap = <<>>
  /\ dev_stream = [r \in DevReaders |-> "idle"]
  /\ dev_seen = [r \in DevReaders |-> NotAlone]

DevNext ==
  \/ \E n \in DevNames : register_device(n) \/ unregister_device(n)
  \/ \E r \in DevReaders :
       open_dev(r) \/ close_dev(r) \/ \E room \in 1 .. 3 : getdents_dev(r, room)

DevSpec == DevInit /\ [][DevNext]_devVars

-----------------------------------------------------------------------------
(* Properties *)

DevTypeOK ==
  /\ devices \subseteq DevNames
  /\ dent_idx \in 0 .. MaxDev + 2 /\ dent_snap \in Seq(DevNames)
  /\ dev_stream \in [DevReaders -> {"idle", "open", "end"}]

(* A reader that has /dev to itself from the start on gets ".", ".." and   *)
(* the devices that were registered when it began, each once and in order, *)
(* whatever is registered or unregistered between its calls.               *)
SnapshotListed ==
  \A r \in DevReaders :
    dev_stream[r] = "end" /\ dev_seen[r].who = "alone" =>
      dev_seen[r].got = <<Dot, Dot>> \o InOrder(dev_seen[r].expect)

=============================================================================
