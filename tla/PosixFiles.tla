----------------------------- MODULE PosixFiles -----------------------------
(***************************************************************************)
(* What a program may expect of regular files: a file is a sequence of     *)
(* bytes, a write replaces or extends it, and what lies between its old    *)
(* end and a later write or a longer size reads as zero.                   *)
(***************************************************************************)
EXTENDS Integers, Sequences

CONSTANTS
  Files,          \* identities a file can have in its life, never reused
  Data,           \* sequences of bytes a write may carry
  MaxSize         \* bound: sizes and offsets

VARIABLES
  live,           \* the files that exist
  content         \* per file, its bytes; none if it does not exist

posixVars == <<live, content>>

Padded(f, n) == [i \in 1 .. n |-> IF i <= Len(f) THEN f[i] ELSE 0]

Replaced(f, off, s) ==
  LET long == IF off + Len(s) > Len(f) THEN Padded(f, off + Len(s)) ELSE f
  IN  [i \in DOMAIN long |-> IF i > off /\ i <= off + Len(s) THEN s[i - off] ELSE long[i]]

Create(i) == i \notin live /\ live' = live \cup {i} /\ UNCHANGED content

Write(i, off, s) ==
  i \in live /\ content' = [content EXCEPT ![i] = Replaced(@, off, s)] /\ UNCHANGED live

Truncate(i, n) ==
  i \in live /\ content' = [content EXCEPT ![i] = Padded(@, n)] /\ UNCHANGED live

Forget(i) == i \in live /\ live' = live \ {i} /\ content' = [content EXCEPT ![i] = <<>>]

PosixInit == live = {} /\ content = [i \in Files |-> <<>>]

PosixNext ==
  \E i \in Files :
    \/ Create(i) \/ Forget(i)
    \/ \E n \in 0 .. MaxSize : Truncate(i, n) \/ \E s \in Data : Write(i, n, s)

PosixSpec == PosixInit /\ [][PosixNext]_posixVars

=============================================================================
