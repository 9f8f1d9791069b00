------------------------------- MODULE Loops -------------------------------
(***************************************************************************)
(* What the loops over a sequence that several components have compute:    *)
(* one that takes some of the entries, one that adds the entries up.       *)
(***************************************************************************)
EXTENDS Integers, Sequences

(* The entries of sq whose index is in keep, in the order of sq. *)
Kept(sq, keep) ==
  LET out[i \in 0 .. Len(sq)] ==
        IF i = 0 THEN <<>>
        ELSE IF i \in keep THEN Append(out[i - 1], sq[i]) ELSE out[i - 1]
  IN  out[Len(sq)]

(* The sum of a sequence of numbers. *)
Total(sq) ==
  LET sum[i \in 0 .. Len(sq)] == IF i = 0 THEN 0 ELSE sum[i - 1] + sq[i]
  IN  sum[Len(sq)]

=============================================================================
