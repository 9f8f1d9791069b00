----------------------------- MODULE DataLemmas -----------------------------
(***************************************************************************)
(* Facts about the data of the models, for every size: the indices into a  *)
(* ring, sequences entry by entry, induction over the natural numbers, and *)
(* what the loops of Loops.tla compute.                                    *)
(***************************************************************************)
EXTENDS Integers, Sequences, Loops, SequenceTheorems, NaturalsInduction,
        WellFoundedInduction, TLAPS

-----------------------------------------------------------------------------
(* Rings of N places, from the oldest entry at t to the next free place at h *)

(* How many entries there are, and where the i-th one is. *)
RingLen(h, t, N)   == (h - t) % N
RingPlace(t, i, N) == (t + i - 1) % N

(* The length of the part of the ring that is in use. *)
LEMMA RingLength ==
  ASSUME NEW N \in Nat \ {0}, NEW h \in 0 .. N - 1, NEW t \in 0 .. N - 1
  PROVE  /\ RingLen(h, t, N) = IF h >= t THEN h - t ELSE h - t + N
         /\ RingLen(h, t, N) \in 0 .. N - 1
BY DEF RingLen

(* The place of an entry, without a division. *)
LEMMA RingPlaces ==
  ASSUME NEW N \in Nat \ {0}, NEW t \in 0 .. N - 1, NEW i \in 1 .. N
  PROVE  /\ RingPlace(t, i, N) = IF t + i - 1 < N THEN t + i - 1 ELSE t + i - 1 - N
         /\ RingPlace(t, i, N) \in 0 .. N - 1
BY DEF RingPlace

(* The next index. *)
LEMMA RingNext ==
  ASSUME NEW N \in Nat \ {0}, NEW t \in 0 .. N - 1
  PROVE  (t + 1) % N = IF t + 1 = N THEN 0 ELSE t + 1
OBVIOUS

(* A new entry at the head: the length grows by one, unless the ring is full, *)
(* and the places of the entries before it are other ones.                   *)
LEMMA RingAppend ==
  ASSUME NEW N \in Nat \ {0}, NEW h \in 0 .. N - 1, NEW t \in 0 .. N - 1,
         (h + 1) % N # t
  PROVE  /\ RingLen(h, t, N) < N - 1
         /\ RingLen((h + 1) % N, t, N) = RingLen(h, t, N) + 1
         /\ RingPlace(t, RingLen(h, t, N) + 1, N) = h
         /\ \A i \in 1 .. RingLen(h, t, N) : RingPlace(t, i, N) # h
<1>1. (h + 1) % N = IF h + 1 = N THEN 0 ELSE h + 1
  BY RingNext
<1>2. RingLen(h, t, N) = IF h >= t THEN h - t ELSE h - t + N
  BY RingLength
<1>3. (h + 1) % N \in 0 .. N - 1
  BY <1>1
<1>4. RingLen((h + 1) % N, t, N) =
        IF (h + 1) % N >= t THEN ((h + 1) % N) - t ELSE ((h + 1) % N) - t + N
  BY <1>3, RingLength
<1>5. RingLen(h, t, N) < N - 1 /\ RingLen((h + 1) % N, t, N) = RingLen(h, t, N) + 1
  BY <1>1, <1>2, <1>4
<1>6. RingPlace(t, RingLen(h, t, N) + 1, N) = h
  <2>1. RingLen(h, t, N) + 1 \in 1 .. N
    BY <1>2
  <2> QED
    BY <1>2, <2>1, RingPlaces
<1>7. ASSUME NEW i \in 1 .. RingLen(h, t, N)
      PROVE  RingPlace(t, i, N) # h
  <2>1. i \in 1 .. N /\ i <= RingLen(h, t, N) /\ RingLen(h, t, N) \in Nat
    BY <1>2
  <2>2. RingPlace(t, i, N) = IF t + i - 1 < N THEN t + i - 1 ELSE t + i - 1 - N
    BY <2>1, RingPlaces
  <2> QED
    BY <1>2, <2>1, <2>2
<1> QED
  BY <1>5, <1>6, <1>7

(* The oldest entry is taken: the others move up by one. *)
LEMMA RingTake ==
  ASSUME NEW N \in Nat \ {0}, NEW h \in 0 .. N - 1, NEW t \in 0 .. N - 1, h # t
  PROVE  /\ RingLen(h, t, N) > 0
         /\ RingLen(h, (t + 1) % N, N) = RingLen(h, t, N) - 1
         /\ \A i \in 1 .. N - 1 : RingPlace((t + 1) % N, i, N) = RingPlace(t, i + 1, N)
<1> DEFINE u == (t + 1) % N
<1>1. u = IF t + 1 = N THEN 0 ELSE t + 1
  BY RingNext
<1>2. RingLen(h, t, N) = IF h >= t THEN h - t ELSE h - t + N
  BY RingLength
<1>3. u \in 0 .. N - 1
  BY <1>1
<1> HIDE DEF u
<1>4. RingLen(h, u, N) =
        IF h >= u THEN h - u ELSE h - u + N
  BY <1>3, RingLength
<1>5. RingLen(h, t, N) > 0 /\ RingLen(h, u, N) = RingLen(h, t, N) - 1
  BY <1>1, <1>2, <1>4
<1>6. ASSUME NEW i \in 1 .. N - 1
      PROVE  RingPlace(u, i, N) = RingPlace(t, i + 1, N)
  <2>1. i \in 1 .. N /\ i + 1 \in 1 .. N
    OBVIOUS
  <2>2. RingPlace(t, i + 1, N) = IF t + i < N THEN t + i ELSE t + i - N
    BY <2>1, RingPlaces
  <2>3. RingPlace(u, i, N) =
          IF u + i - 1 < N THEN u + i - 1 ELSE u + i - 1 - N
    BY <1>3, <2>1, RingPlaces
  <2> QED
    BY <1>1, <2>2, <2>3
<1> QED
  BY <1>5, <1>6 DEF u

(* Division with remainder... *)
LEMMA Remainder ==
  ASSUME NEW V \in Nat \ {0}, NEW x \in Int
  PROVE  \E q, a \in Int, r \in 0 .. V - 1 : a = V * q /\ x = a + r /\ r = x % V
<1>1. x = V * (x \div V) + (x % V) /\ x % V \in 0 .. V - 1 /\ x \div V \in Int
  OBVIOUS
<1>2. PICK q \in Int, r \in 0 .. V - 1 : q = x \div V /\ r = x % V
  BY <1>1
<1>3. PICK a \in Int : a = V * q
  OBVIOUS
<1>4. x = a + r
  BY <1>1, <1>2, <1>3
<1> QED
  BY <1>2, <1>3, <1>4

(* ... in which the remainder is the one number that fits. *)
LEMMA RemainderIs ==
  ASSUME NEW V \in Nat \ {0}, NEW q \in Int, NEW a, a = V * q, NEW r \in 0 .. V - 1, NEW x, x = a + r
  PROVE  x % V = r
OBVIOUS

(* Some steps on in a ring. *)
LEMMA StepsOn ==
  ASSUME NEW V \in Nat \ {0}, NEW x \in Int, NEW k \in 0 .. V
  PROVE  (x + k) % V = IF (x % V) + k < V THEN (x % V) + k ELSE (x % V) + k - V
<1>1. PICK q, a \in Int, r \in 0 .. V - 1 : a = V * q /\ x = a + r /\ r = x % V
  BY Remainder
<1>2. PICK y : y = x + k
  OBVIOUS
<1>3. SUFFICES y % V = IF r + k < V THEN r + k ELSE r + k - V
  BY <1>1, <1>2
<1>4. a = V * q
  BY <1>1
<1>5. x = a + r
  BY <1>1
<1>6. CASE r + k < V
  <2>1. PICK s \in 0 .. V - 1 : s = r + k
    BY <1>6
  <2>2. y = a + s
    BY <1>2, <1>5, <2>1
  <2>3. y % V = s
    BY <1>4, <2>2, RemainderIs
  <2> QED
    BY <1>6, <2>1, <2>3
<1>7. CASE ~(r + k < V)
  <2>1. PICK s \in 0 .. V - 1 : s = r + k - V
    BY <1>7
  <2>2. PICK p \in Int : p = q + 1
    OBVIOUS
  <2>3. V * p = a + V
    BY <1>4, <2>2
  <2>4. PICK b \in Int : b = a + V
    OBVIOUS
  <2>5. y = b + s
    BY <1>2, <1>5, <2>1, <2>4
  <2>6. b = V * p
    BY <2>3, <2>4
  <2>7. y % V = s
    BY <2>5, <2>6, RemainderIs
  <2> QED
    BY <1>7, <2>1, <2>7
<1> QED
  BY <1>6, <1>7

(* A whole number of rounds changes nothing. *)
LEMMA RoundsOn ==
  ASSUME NEW V \in Nat \ {0}, NEW x \in Int, NEW I \in Nat, I % V = 0
  PROVE  (x + I) % V = x % V /\ (x - I) % V = x % V
<1>1. PICK q, a \in Int, r \in 0 .. V - 1 : a = V * q /\ x = a + r /\ r = x % V
  BY Remainder
<1>2. PICK p, b \in Int, z \in 0 .. V - 1 : b = V * p /\ I = b + z /\ z = I % V
  BY Remainder
<1>3. I = b
  BY <1>2
<1>4. a = V * q /\ b = V * p /\ x = a + r
  BY <1>1, <1>2
<1>5. PICK m \in Int, n \in Int : m = q + p /\ n = q - p
  OBVIOUS
<1>6. V * m = a + b /\ V * n = a - b
  BY <1>4, <1>5
<1>7. PICK y, w : y = x + I /\ w = x - I
  OBVIOUS
<1>8. PICK c, d \in Int : c = a + b /\ d = a - b
  OBVIOUS
<1>9. y = c + r /\ w = d + r
  BY <1>3, <1>4, <1>7, <1>8
<1>10. c = V * m /\ d = V * n
  BY <1>6, <1>8
<1>11. y % V = r
  BY <1>9, <1>10, RemainderIs
<1>12. w % V = r
  BY <1>9, <1>10, RemainderIs
<1> QED
  BY <1>1, <1>7, <1>11, <1>12

-----------------------------------------------------------------------------
(* Sequences *)

(* Append entry by entry. *)
LEMMA AppendEntries ==
  ASSUME NEW S, NEW s \in Seq(S), NEW e \in S
  PROVE  Append(s, e) = [i \in 1 .. Len(s) + 1 |-> IF i = Len(s) + 1 THEN e ELSE s[i]]
<1> DEFINE f == [i \in 1 .. Len(s) + 1 |-> IF i = Len(s) + 1 THEN e ELSE s[i]]
<1>1. f \in Seq(S) /\ Len(f) = Len(s) + 1
  OBVIOUS
<1>2. /\ Append(s, e) \in Seq(S) /\ Len(Append(s, e)) = Len(s) + 1
      /\ \A i \in 1 .. Len(s) + 1 : Append(s, e)[i] = f[i]
  BY AppendProperties
<1> HIDE DEF f
<1>3. Append(s, e) = f
  BY <1>1, <1>2, SeqEqual
<1> QED
  BY <1>3 DEF f

(* Tail entry by entry. *)
LEMMA TailEntries ==
  ASSUME NEW S, NEW s \in Seq(S), s # <<>>
  PROVE  Tail(s) = [i \in 1 .. Len(s) - 1 |-> s[i + 1]]
<1> DEFINE f == [i \in 1 .. Len(s) - 1 |-> s[i + 1]]
<1>0. Len(s) - 1 \in Nat
  OBVIOUS
<1>1. f \in Seq(S) /\ Len(f) = Len(s) - 1
  BY <1>0
<1>2. /\ Tail(s) \in Seq(S) /\ Len(Tail(s)) = Len(s) - 1
      /\ \A i \in 1 .. Len(s) - 1 : Tail(s)[i] = f[i]
  BY HeadTailProperties
<1> HIDE DEF f
<1>3. Tail(s) = f
  BY <1>1, <1>2, SeqEqual
<1> QED
  BY <1>3 DEF f

(* Two sequences, one behind the other. *)
LEMMA Joined ==
  ASSUME NEW S, NEW a \in Seq(S), NEW b \in Seq(S)
  PROVE  /\ a \o b \in Seq(S) /\ Len(a \o b) = Len(a) + Len(b)
         /\ \A k \in 1 .. Len(a) : (a \o b)[k] = a[k]
         /\ \A k \in 1 .. Len(b) : (a \o b)[Len(a) + k] = b[k]
BY ConcatProperties

(* The elements m to n of a sequence. *)
LEMMA Cut ==
  ASSUME NEW S, NEW s \in Seq(S), NEW m \in Nat, NEW n \in Nat, 1 <= m, m <= n + 1, n <= Len(s)
  PROVE  /\ SubSeq(s, m, n) \in Seq(S) /\ Len(SubSeq(s, m, n)) = n + 1 - m
         /\ \A k \in 1 .. n + 1 - m : SubSeq(s, m, n)[k] = s[m + k - 1]
<1>1. \A i \in m .. n : s[i] \in S
  <2>1. \A i \in m .. n : i \in 1 .. Len(s)
    BY LenProperties
  <2> QED
    BY <2>1, ElementOfSeq
<1>2. /\ SubSeq(s, m, n) \in Seq(S)
      /\ Len(SubSeq(s, m, n)) = IF m <= n THEN n - m + 1 ELSE 0
      /\ \A i \in 1 .. n - m + 1 : SubSeq(s, m, n)[i] = s[m + i - 1]
  BY <1>1, SubSeqProperties
<1>3. n - m + 1 = n + 1 - m /\ (~(m <= n) => n + 1 - m = 0)
  OBVIOUS
<1> QED
  BY <1>2, <1>3

(* Three sequences, one behind the other. *)
LEMMA Pieces ==
  ASSUME NEW S, NEW a \in Seq(S), NEW b \in Seq(S), NEW c \in Seq(S)
  PROVE  /\ a \o b \o c \in Seq(S) /\ Len(a \o b \o c) = Len(a) + Len(b) + Len(c)
         /\ \A k \in 1 .. Len(a) : (a \o b \o c)[k] = a[k]
         /\ \A k \in 1 .. Len(b) : (a \o b \o c)[Len(a) + k] = b[k]
         /\ \A k \in 1 .. Len(c) : (a \o b \o c)[Len(a) + Len(b) + k] = c[k]
<1>1. PICK d : d = a \o b
  OBVIOUS
<1>2. /\ d \in Seq(S) /\ Len(d) = Len(a) + Len(b)
      /\ \A k \in 1 .. Len(a) : d[k] = a[k]
      /\ \A k \in 1 .. Len(b) : d[Len(a) + k] = b[k]
  BY <1>1, Joined
<1>4. /\ d \o c \in Seq(S) /\ Len(d \o c) = Len(d) + Len(c)
      /\ \A k \in 1 .. Len(d) : (d \o c)[k] = d[k]
      /\ \A k \in 1 .. Len(c) : (d \o c)[Len(d) + k] = c[k]
  <2>1. d \in Seq(S)
    BY <1>2
  <2> QED
    BY <2>1, Joined
<1>5. /\ \A k \in 1 .. Len(a) : k \in 1 .. Len(d)
      /\ \A k \in 1 .. Len(b) : Len(a) + k \in 1 .. Len(d)
  BY <1>2, LenProperties
<1> QED
  BY <1>1, <1>2, <1>4, <1>5

(* g is sequence f with the first n elements of x behind its first p elements: *)
(* what is before the block stays, and what is behind it was there.           *)
Rewritten(S, f, x, p, n, g) ==
  /\ g \in Seq(S) /\ Len(g) >= p + n
  /\ \A k \in 1 .. p : g[k] = f[k]
  /\ \A k \in 1 .. n : g[p + k] = x[k]
  /\ \A k \in 1 .. Len(g) : k > p + n => \E j \in 1 .. Len(f) : j > p /\ g[k] = f[j]

(* A block written over the elements up to `over'. *)
LEMMA Overwritten ==
  ASSUME NEW S, NEW f \in Seq(S), NEW x \in Seq(S), NEW p \in Nat, NEW n \in Nat, NEW over \in Nat,
         n <= Len(x), p <= over, over <= Len(f)
  PROVE  Rewritten(S, f, x, p, n,
                   SubSeq(f, 1, p) \o SubSeq(x, 1, n) \o SubSeq(f, over + 1, Len(f)))
<1>1. PICK a : a = SubSeq(f, 1, p)
  OBVIOUS
<1>2. PICK b : b = SubSeq(x, 1, n)
  OBVIOUS
<1>3. PICK c : c = SubSeq(f, over + 1, Len(f))
  OBVIOUS
<1>4. Len(f) \in Nat /\ p <= Len(f)
  BY LenProperties
<1>5. a \in Seq(S) /\ Len(a) = p /\ \A k \in 1 .. p : a[k] = f[k]
  <2>1. /\ a \in Seq(S) /\ Len(a) = p + 1 - 1
        /\ \A k \in 1 .. p + 1 - 1 : a[k] = f[1 + k - 1]
    BY <1>1, <1>4, Cut
  <2>2. p + 1 - 1 = p /\ \A k \in 1 .. p : 1 + k - 1 = k
    OBVIOUS
  <2> QED
    BY <2>1, <2>2
<1>6. b \in Seq(S) /\ Len(b) = n /\ \A k \in 1 .. n : b[k] = x[k]
  <2>1. /\ b \in Seq(S) /\ Len(b) = n + 1 - 1
        /\ \A k \in 1 .. n + 1 - 1 : b[k] = x[1 + k - 1]
    BY <1>2, Cut
  <2>2. n + 1 - 1 = n /\ \A k \in 1 .. n : 1 + k - 1 = k
    OBVIOUS
  <2> QED
    BY <2>1, <2>2
<1>7. c \in Seq(S) /\ Len(c) = Len(f) - over /\ \A k \in 1 .. Len(f) - over : c[k] = f[over + k]
  <2>0. over + 1 \in Nat /\ 1 <= over + 1 /\ over + 1 <= Len(f) + 1
    BY <1>4
  <2>1. /\ c \in Seq(S) /\ Len(c) = Len(f) + 1 - (over + 1)
        /\ \A k \in 1 .. Len(f) + 1 - (over + 1) : c[k] = f[over + 1 + k - 1]
    BY <1>3, <1>4, <2>0, Cut
  <2>2. /\ Len(f) + 1 - (over + 1) = Len(f) - over
        /\ \A k \in 1 .. Len(f) - over : over + 1 + k - 1 = over + k
    BY <1>4
  <2> QED
    BY <2>1, <2>2
<1>8. PICK g : g = a \o b \o c
  OBVIOUS
<1>9. /\ g \in Seq(S) /\ Len(g) = Len(a) + Len(b) + Len(c)
      /\ \A k \in 1 .. Len(a) : g[k] = a[k]
      /\ \A k \in 1 .. Len(b) : g[Len(a) + k] = b[k]
      /\ \A k \in 1 .. Len(c) : g[Len(a) + Len(b) + k] = c[k]
  <2>1. a \in Seq(S) /\ b \in Seq(S) /\ c \in Seq(S)
    BY <1>5, <1>6, <1>7
  <2>2. /\ a \o b \o c \in Seq(S) /\ Len(a \o b \o c) = Len(a) + Len(b) + Len(c)
        /\ \A k \in 1 .. Len(a) : (a \o b \o c)[k] = a[k]
        /\ \A k \in 1 .. Len(b) : (a \o b \o c)[Len(a) + k] = b[k]
        /\ \A k \in 1 .. Len(c) : (a \o b \o c)[Len(a) + Len(b) + k] = c[k]
    BY <2>1, Pieces, SMTT(30)
  <2> QED
    BY <1>8, <2>2, Zenon
<1>10. /\ g \in Seq(S) /\ Len(g) = p + n + (Len(f) - over)
       /\ \A k \in 1 .. p : g[k] = f[k]
       /\ \A k \in 1 .. n : g[p + k] = x[k]
       /\ \A k \in 1 .. Len(f) - over : g[p + n + k] = f[over + k]
  BY <1>5, <1>6, <1>7, <1>9, Zenon
<1>11. Len(g) = p + n + (Len(f) - over) /\ Len(g) >= p + n
  BY <1>4, <1>10
<1>12. ASSUME NEW k \in 1 .. Len(g), k > p + n PROVE \E j \in 1 .. Len(f) : j > p /\ g[k] = f[j]
  <2>1. k \in Nat /\ k <= p + n + (Len(f) - over)
    BY <1>4, <1>11
  <2>2. /\ k - (p + n) \in 1 .. Len(f) - over /\ p + n + (k - (p + n)) = k
        /\ over + (k - (p + n)) \in 1 .. Len(f) /\ over + (k - (p + n)) > p
    BY <1>4, <1>12, <2>1
  <2>3. g[p + n + (k - (p + n))] = f[over + (k - (p + n))]
    BY <1>10, <2>2, Zenon
  <2> QED
    BY <2>2, <2>3, Zenon
<1>13. Rewritten(S, f, x, p, n, g)
  BY <1>10, <1>11, <1>12, Zenon DEF Rewritten
<1> QED
  BY <1>1, <1>2, <1>3, <1>8, <1>13, Zenon

-----------------------------------------------------------------------------
(* Induction, in a form without a predicate as parameter *)

(* A set of natural numbers has a least one. *)
LEMMA LeastNumber ==
  ASSUME NEW T \in SUBSET Nat, T # {}
  PROVE  \E n \in T : \A m \in T : n <= m
<1>1. IsWellFoundedOn(OpToRel(<, Nat), Nat)
  BY NatLessThanWellFounded
<1>2. PICK n \in T : \A m \in T : <<m, n>> \notin OpToRel(<, Nat)
  BY <1>1, WFMin
<1>3. ASSUME NEW m \in T
      PROVE  n <= m
  <2>1. ~(m < n)
    BY <1>2 DEF OpToRel
  <2> QED
    BY <2>1
<1> QED
  BY <1>3

(* A set with 0 and the successor of each of its members holds them all. *)
LEMMA Induction ==
  ASSUME NEW T \in SUBSET Nat, 0 \in T, \A n \in T : n + 1 \in T
  PROVE  T = Nat
<1> SUFFICES ASSUME T # Nat PROVE FALSE
  OBVIOUS
<1>1. PICK n \in Nat \ T : \A m \in Nat \ T : n <= m
  BY LeastNumber
<1>2. n # 0 /\ n - 1 \in Nat
  BY <1>1
<1>3. n - 1 \in T
  BY <1>1, <1>2
<1> QED
  BY <1>1, <1>3

-----------------------------------------------------------------------------
(* Kept *)

(* f is the loop of Kept after each of its first n rounds. *)
KeptBy(sq, keep, f, n) ==
  f = [i \in 0 .. n |-> IF i = 0 THEN <<>>
                       ELSE IF i \in keep THEN Append(f[i - 1], sq[i]) ELSE f[i - 1]]

(* There is such a function, for every number of rounds. *)
LEMMA KeptRuns ==
  ASSUME NEW sq, NEW keep, NEW n \in Nat
  PROVE  \E f : KeptBy(sq, keep, f, n)
<1> DEFINE T == {k \in Nat : \E f : KeptBy(sq, keep, f, k)}
<1>1. 0 \in T
  <2>1. KeptBy(sq, keep, [i \in 0 .. 0 |-> <<>>], 0)
    BY DEF KeptBy
  <2> QED
    BY <2>1
<1>2. ASSUME NEW k \in T
      PROVE  k + 1 \in T
  <2>1. PICK f : KeptBy(sq, keep, f, k)
    BY <1>2
  <2> DEFINE v == IF k + 1 \in keep THEN Append(f[k], sq[k + 1]) ELSE f[k]
             g == [i \in 0 .. k + 1 |-> IF i = k + 1 THEN v ELSE f[i]]
             R(i) == IF i = 0 THEN <<>>
                     ELSE IF i \in keep THEN Append(g[i - 1], sq[i]) ELSE g[i - 1]
  <2>2. \A i \in 0 .. k : f[i] = IF i = 0 THEN <<>>
                                ELSE IF i \in keep THEN Append(f[i - 1], sq[i]) ELSE f[i - 1]
    BY <2>1 DEF KeptBy
  <2>3. (\A i \in 0 .. k : g[i] = f[i]) /\ g[k + 1] = v /\ g = [i \in 0 .. k + 1 |-> g[i]]
    <3> HIDE DEF v
    <3> QED
      OBVIOUS
  <2>4. g[k + 1] = R(k + 1)
    <3>1. g[k] = f[k]
      BY <2>3
    <3> HIDE DEF g
    <3> QED
      BY <2>3, <3>1
  <2>5. ASSUME NEW i \in 0 .. k
        PROVE  g[i] = R(i)
    <3> HIDE DEF g
    <3>1. CASE i = 0
      BY <2>2, <2>3, <3>1
    <3>2. CASE i # 0
      <4>1. i - 1 \in 0 .. k
        BY <3>2
      <4> QED
        BY <2>2, <2>3, <3>2, <4>1
    <3> QED
      BY <3>1, <3>2
  <2>6. KeptBy(sq, keep, g, k + 1)
    <3> HIDE DEF g
    <3>1. \A i \in 0 .. k + 1 : g[i] = R(i)
      <4>1. \A i \in 0 .. k + 1 : i = k + 1 \/ i \in 0 .. k
        OBVIOUS
      <4> HIDE DEF R
      <4> QED
        BY <2>4, <2>5, <4>1
    <3> QED
      BY <2>3, <3>1 DEF KeptBy
  <2> QED
    BY <2>6
<1>3. T \in SUBSET Nat
  OBVIOUS
<1> HIDE DEF T
<1>4. T = Nat
  BY <1>1, <1>2, <1>3, Induction
<1> QED
  BY <1>4 DEF T

(* Kept is what the loop has after the last round. *)
LEMMA KeptLast ==
  ASSUME NEW S, NEW sq \in Seq(S), NEW keep
  PROVE  \E f : KeptBy(sq, keep, f, Len(sq)) /\ Kept(sq, keep) = f[Len(sq)]
<1> DEFINE out[i \in 0 .. Len(sq)] ==
             IF i = 0 THEN <<>>
             ELSE IF i \in keep THEN Append(out[i - 1], sq[i]) ELSE out[i - 1]
<1>1. out = [i \in 0 .. Len(sq) |->
               IF i = 0 THEN <<>>
               ELSE IF i \in keep THEN Append(out[i - 1], sq[i]) ELSE out[i - 1]]
  <2>0. Len(sq) \in Nat
    BY LenProperties
  <2>1. PICK f : KeptBy(sq, keep, f, Len(sq))
    BY <2>0, KeptRuns
  <2>2. \E g : g = [i \in 0 .. Len(sq) |->
                    IF i = 0 THEN <<>>
                    ELSE IF i \in keep THEN Append(g[i - 1], sq[i]) ELSE g[i - 1]]
    BY <2>1, Zenon DEF KeptBy
  <2> QED
    BY <2>2, Zenon
<1>2. Kept(sq, keep) = out[Len(sq)]
  BY DEF Kept
<1> HIDE DEF out
<1> QED
  BY <1>1, <1>2 DEF KeptBy

(* out is made of the entries of the first n places of sq that keep names, in *)
(* their order: at[k] is where its k-th entry comes from.                    *)
Picks(sq, keep, n, out, at) ==
  /\ DOMAIN at = 1 .. Len(out)
  /\ \A k \in 1 .. Len(out) : at[k] \in 1 .. n /\ at[k] \in keep /\ out[k] = sq[at[k]]
  /\ \A j, k \in 1 .. Len(out) : j < k => at[j] < at[k]
  /\ \A i \in 1 .. n : i \in keep => \E k \in 1 .. Len(out) : at[k] = i

(* One round of the loop. *)
LEMMA PicksNext ==
  ASSUME NEW S, NEW sq \in Seq(S), NEW keep, NEW n \in Nat, n + 1 <= Len(sq),
         NEW out \in Seq(S), NEW at, Picks(sq, keep, n, out, at),
         NEW to, to = IF n + 1 \in keep THEN Append(out, sq[n + 1]) ELSE out
  PROVE  to \in Seq(S) /\ \E ta : Picks(sq, keep, n + 1, to, ta)
<1>1. CASE n + 1 \notin keep
  <2>1. Picks(sq, keep, n + 1, out, at)
    BY <1>1 DEF Picks
  <2> QED
    BY <1>1, <2>1
<1>2. CASE n + 1 \in keep
  <2> DEFINE m  == Len(out) + 1
             ta == [k \in 1 .. m |-> IF k = m THEN n + 1 ELSE at[k]]
  <2>1. sq[n + 1] \in S
    OBVIOUS
  <2>2. /\ to \in Seq(S) /\ Len(to) = m /\ to[m] = sq[n + 1] /\ m \in Nat
        /\ \A k \in 1 .. Len(out) : to[k] = out[k]
    BY <1>2, <2>1, AppendProperties
  <2>3. /\ DOMAIN ta = 1 .. m /\ ta[m] = n + 1
        /\ \A k \in 1 .. Len(out) : ta[k] = at[k]
    OBVIOUS
  <2>4. \A k \in 1 .. m : k = m \/ k \in 1 .. Len(out)
    OBVIOUS
  <2>5. Len(out) \in Nat /\ m = Len(out) + 1
    OBVIOUS
  <2> HIDE DEF ta, m
  <2>6. \A k \in 1 .. m : ta[k] \in 1 .. n + 1 /\ ta[k] \in keep /\ to[k] = sq[ta[k]]
    <3>1. ASSUME NEW k \in 1 .. Len(out)
          PROVE  ta[k] \in 1 .. n + 1 /\ ta[k] \in keep /\ to[k] = sq[ta[k]]
      BY <2>2, <2>3 DEF Picks
    <3>2. ta[m] \in 1 .. n + 1 /\ ta[m] \in keep /\ to[m] = sq[ta[m]]
      BY <1>2, <2>2, <2>3
    <3> QED
      BY <2>4, <3>1, <3>2
  <2>7. ASSUME NEW j \in 1 .. m, NEW k \in 1 .. m, j < k
        PROVE  ta[j] < ta[k]
    <3>1. j \in 1 .. Len(out) /\ at[j] \in 1 .. n
      BY <2>5, <2>7 DEF Picks
    <3>2. CASE k = m
      BY <2>3, <3>1, <3>2
    <3>3. CASE k \in 1 .. Len(out)
      BY <2>3, <2>7, <3>1, <3>3 DEF Picks
    <3> QED
      BY <2>4, <3>2, <3>3
  <2>8. ASSUME NEW i \in 1 .. n + 1, i \in keep
        PROVE  \E k \in 1 .. m : ta[k] = i
    <3>1. CASE i = n + 1
      <4>1. m \in 1 .. m
        BY <2>5
      <4> QED
        BY <2>3, <3>1, <4>1
    <3>2. CASE i # n + 1
      <4>1. PICK k \in 1 .. Len(out) : at[k] = i
        BY <2>8, <3>2 DEF Picks
      <4>2. k \in 1 .. m
        BY <2>5
      <4> QED
        BY <2>3, <4>1, <4>2
    <3> QED
      BY <3>1, <3>2
  <2>9. Picks(sq, keep, n + 1, to, ta)
    BY <2>2, <2>3, <2>6, <2>7, <2>8 DEF Picks
  <2> QED
    BY <2>2, <2>9, Zenon
<1> QED
  BY <1>1, <1>2

(* Kept takes the entries that it is told to, in their order. *)
LEMMA KeptPicks ==
  ASSUME NEW S, NEW sq \in Seq(S), NEW keep
  PROVE  /\ Kept(sq, keep) \in Seq(S)
         /\ \E at : Picks(sq, keep, Len(sq), Kept(sq, keep), at)
<1>1. PICK f : KeptBy(sq, keep, f, Len(sq)) /\ Kept(sq, keep) = f[Len(sq)]
  BY KeptLast
<1>0. Len(sq) \in Nat
  BY LenProperties
<1> DEFINE T == {n \in Nat : n <= Len(sq) =>
                    f[n] \in Seq(S) /\ \E at : Picks(sq, keep, n, f[n], at)}
<1>2. \A i \in 0 .. Len(sq) : f[i] = IF i = 0 THEN <<>>
                                    ELSE IF i \in keep THEN Append(f[i - 1], sq[i]) ELSE f[i - 1]
  BY <1>1 DEF KeptBy
<1>3. 0 \in T
  <2>1. f[0] = <<>>
    BY <1>0, <1>2
  <2>2. Picks(sq, keep, 0, <<>>, <<>>)
    BY DEF Picks
  <2>3. f[0] \in Seq(S)
    BY <2>1
  <2>4. \E at : Picks(sq, keep, 0, f[0], at)
    BY <2>1, <2>2, Zenon
  <2> QED
    BY <2>3, <2>4
<1>4. ASSUME NEW n \in T
      PROVE  n + 1 \in T
  <2>1. SUFFICES ASSUME n + 1 <= Len(sq)
                 PROVE  f[n + 1] \in Seq(S) /\ \E at : Picks(sq, keep, n + 1, f[n + 1], at)
    OBVIOUS
  <2>2. f[n + 1] = IF n + 1 \in keep THEN Append(f[n], sq[n + 1]) ELSE f[n]
    BY <1>0, <1>2, <2>1
  <2>3. f[n] \in Seq(S) /\ \E at : Picks(sq, keep, n, f[n], at)
    BY <1>4, <2>1
  <2>4. PICK at : Picks(sq, keep, n, f[n], at)
    BY <2>3
  <2>5. n \in Nat /\ f[n] \in Seq(S)
    BY <2>3
  <2> QED
    BY <2>1, <2>2, <2>4, <2>5, PicksNext
<1>5. T \in SUBSET Nat
  OBVIOUS
<1> HIDE DEF T
<1>6. Len(sq) \in T
  BY <1>0, <1>3, <1>4, <1>5, Induction
<1> QED
  BY <1>0, <1>1, <1>6 DEF T

(* Which entries there are. *)
LEMMA KeptEntries ==
  ASSUME NEW S, NEW sq \in Seq(S), NEW keep
  PROVE  /\ Kept(sq, keep) \in Seq(S)
         /\ \A k \in DOMAIN Kept(sq, keep) : \E i \in DOMAIN sq : i \in keep /\ Kept(sq, keep)[k] = sq[i]
         /\ \A i \in DOMAIN sq : i \in keep => \E k \in DOMAIN Kept(sq, keep) : Kept(sq, keep)[k] = sq[i]
<1>1. Kept(sq, keep) \in Seq(S)
  BY KeptPicks
<1>2. PICK at : Picks(sq, keep, Len(sq), Kept(sq, keep), at)
  BY KeptPicks
<1>3. PICK out \in Seq(S) : out = Kept(sq, keep)
  BY <1>1
<1>4. DOMAIN out = 1 .. Len(out) /\ DOMAIN sq = 1 .. Len(sq)
  BY LenProperties
<1>5. Picks(sq, keep, Len(sq), out, at)
  BY <1>2, <1>3
<1>6. ASSUME NEW k \in DOMAIN out PROVE \E i \in DOMAIN sq : i \in keep /\ out[k] = sq[i]
  <2>1. at[k] \in DOMAIN sq /\ at[k] \in keep /\ out[k] = sq[at[k]]
    BY <1>4, <1>5 DEF Picks
  <2> QED
    BY <2>1
<1>7. ASSUME NEW i \in DOMAIN sq, i \in keep PROVE \E k \in DOMAIN out : out[k] = sq[i]
  <2>1. PICK k \in 1 .. Len(out) : at[k] = i
    BY <1>4, <1>5, <1>7 DEF Picks
  <2>2. out[k] = sq[at[k]]
    BY <1>5 DEF Picks
  <2> QED
    BY <1>4, <2>1, <2>2
<1> QED
  BY <1>1, <1>3, <1>6, <1>7

-----------------------------------------------------------------------------
(* Total *)

(* f is the loop of Total after each of its first n rounds. *)
TotalBy(sq, f, n) ==
  f = [i \in 0 .. n |-> IF i = 0 THEN 0 ELSE f[i - 1] + sq[i]]

(* A sum over one more place. *)
LEMMA TotalExtend ==
  ASSUME NEW k \in Nat, NEW sq, NEW f, TotalBy(sq, f, k), NEW to,
         \A i \in 1 .. k : to[i] = sq[i],
         NEW g, g = [i \in 0 .. k + 1 |-> IF i = k + 1 THEN f[k] + to[k + 1] ELSE f[i]]
  PROVE  TotalBy(to, g, k + 1)
<1>1. \A i \in 0 .. k : f[i] = IF i = 0 THEN 0 ELSE f[i - 1] + sq[i]
  BY DEF TotalBy
<1> DEFINE w == f[k] + to[k + 1]
<1>2. \A i \in 0 .. k + 1 : g[i] = IF i = k + 1 THEN w ELSE f[i]
  OBVIOUS
<1>3. g = [i \in 0 .. k + 1 |-> g[i]]
  OBVIOUS
<1>4. (\A i \in 0 .. k : g[i] = f[i]) /\ g[k + 1] = g[k] + to[k + 1]
  BY <1>2
<1>5. ASSUME NEW i \in 0 .. k + 1
      PROVE  g[i] = IF i = 0 THEN 0 ELSE g[i - 1] + to[i]
  <2>1. CASE i = k + 1
    BY <1>4, <2>1
  <2>2. CASE i # k + 1 /\ i # 0
    <3>1. i \in 0 .. k /\ i - 1 \in 0 .. k /\ i \in 1 .. k
      BY <2>2
    <3>2. g[i] = f[i] /\ g[i - 1] = f[i - 1] /\ to[i] = sq[i]
      BY <1>4, <3>1
    <3>3. f[i] = f[i - 1] + sq[i]
      BY <1>1, <2>2, <3>1
    <3> QED
      BY <2>2, <3>2, <3>3
  <2>3. CASE i = 0
    BY <1>1, <1>4, <2>3
  <2> QED
    BY <2>1, <2>2, <2>3
<1> QED
  BY <1>3, <1>5 DEF TotalBy

(* There is such a function, and its values are natural numbers. *)
LEMMA TotalRuns ==
  ASSUME NEW sq \in Seq(Nat), NEW n \in 0 .. Len(sq)
  PROVE  \E f : TotalBy(sq, f, n) /\ f[n] \in Nat
<1> DEFINE T == {k \in Nat : k <= Len(sq) => \E f : TotalBy(sq, f, k) /\ f[k] \in Nat}
<1>0. Len(sq) \in Nat
  BY LenProperties
<1>1. 0 \in T
  <2>1. TotalBy(sq, [i \in 0 .. 0 |-> 0], 0) /\ [i \in 0 .. 0 |-> 0][0] \in Nat
    BY DEF TotalBy
  <2> QED
    BY <2>1, Zenon
<1>2. ASSUME NEW k \in T
      PROVE  k + 1 \in T
  <2>1. SUFFICES ASSUME k + 1 <= Len(sq)
                 PROVE  \E f : TotalBy(sq, f, k + 1) /\ f[k + 1] \in Nat
    OBVIOUS
  <2>2. PICK f : TotalBy(sq, f, k) /\ f[k] \in Nat
    BY <1>0, <1>2, <2>1
  <2> DEFINE g == [i \in 0 .. k + 1 |-> IF i = k + 1 THEN f[k] + sq[k + 1] ELSE f[i]]
  <2>3. TotalBy(sq, g, k + 1)
    BY <2>2, TotalExtend
  <2>4. sq[k + 1] \in Nat
    BY <1>0, <2>1
  <2>5. g[k + 1] \in Nat
    BY <2>2, <2>4
  <2> HIDE DEF g
  <2> QED
    BY <2>3, <2>5
<1>3. T \in SUBSET Nat
  OBVIOUS
<1> HIDE DEF T
<1>4. T = Nat
  BY <1>1, <1>2, <1>3, Induction
<1>5. n \in Nat /\ n <= Len(sq)
  BY <1>0
<1> QED
  BY <1>4, <1>5 DEF T

(* The loop determines the sum. *)
LEMMA TotalUnique ==
  ASSUME NEW n \in Nat, NEW sq, NEW f, NEW g, TotalBy(sq, f, n), TotalBy(sq, g, n)
  PROVE  f = g
<1> DEFINE T == {k \in Nat : k <= n => f[k] = g[k]}
<1>1. \A i \in 0 .. n : /\ f[i] = IF i = 0 THEN 0 ELSE f[i - 1] + sq[i]
                       /\ g[i] = IF i = 0 THEN 0 ELSE g[i - 1] + sq[i]
  BY DEF TotalBy
<1>2. 0 \in T
  BY <1>1
<1>3. ASSUME NEW k \in T
      PROVE  k + 1 \in T
  <2>1. SUFFICES ASSUME k + 1 <= n PROVE f[k + 1] = g[k + 1]
    OBVIOUS
  <2>2. f[k] = g[k]
    BY <2>1
  <2>3. f[k + 1] = f[k] + sq[k + 1] /\ g[k + 1] = g[k] + sq[k + 1]
    BY <1>1, <2>1
  <2> QED
    BY <2>2, <2>3
<1>4. T \in SUBSET Nat
  OBVIOUS
<1> HIDE DEF T
<1>5. T = Nat
  BY <1>2, <1>3, <1>4, Induction
<1>6. \A i \in 0 .. n : f[i] = g[i]
  BY <1>5 DEF T
<1> QED
  BY <1>6 DEF TotalBy

(* Total is what the loop has after the last round. *)
LEMMA TotalLast ==
  ASSUME NEW sq \in Seq(Nat)
  PROVE  /\ Total(sq) \in Nat
         /\ \E f : TotalBy(sq, f, Len(sq)) /\ Total(sq) = f[Len(sq)]
<1> DEFINE sum[i \in 0 .. Len(sq)] == IF i = 0 THEN 0 ELSE sum[i - 1] + sq[i]
<1>0. Len(sq) \in Nat /\ Len(sq) \in 0 .. Len(sq)
  BY LenProperties
<1>1. PICK f : TotalBy(sq, f, Len(sq)) /\ f[Len(sq)] \in Nat
  BY <1>0, TotalRuns
<1>2. sum = [i \in 0 .. Len(sq) |-> IF i = 0 THEN 0 ELSE sum[i - 1] + sq[i]]
  <2>1. \E g : g = [i \in 0 .. Len(sq) |-> IF i = 0 THEN 0 ELSE g[i - 1] + sq[i]]
    BY <1>1, Zenon DEF TotalBy
  <2> QED
    BY <2>1, Zenon
<1>3. Total(sq) = sum[Len(sq)]
  BY DEF Total
<1> HIDE DEF sum
<1>4. TotalBy(sq, sum, Len(sq))
  BY <1>2 DEF TotalBy
<1>5. sum = f
  BY <1>0, <1>1, <1>4, TotalUnique
<1> QED
  BY <1>1, <1>3, <1>5

(* The sum of no entries, and of one more entry. *)
LEMMA TotalAppend ==
  /\ Total(<<>>) = 0
  /\ \A sq \in Seq(Nat), e \in Nat :
       Total(sq) \in Nat /\ Total(Append(sq, e)) = Total(sq) + e
<1>1. Total(<<>>) = 0
  <2>1. <<>> \in Seq(Nat) /\ Len(<<>>) = 0
    OBVIOUS
  <2>2. PICK f : TotalBy(<<>>, f, 0) /\ Total(<<>>) = f[0]
    BY <2>1, TotalLast
  <2> QED
    BY <2>2 DEF TotalBy
<1>2. ASSUME NEW sq \in Seq(Nat), NEW e \in Nat
      PROVE  Total(sq) \in Nat /\ Total(Append(sq, e)) = Total(sq) + e
  <2> DEFINE n == Len(sq)
             to == Append(sq, e)
  <2>1. /\ to \in Seq(Nat) /\ Len(to) = n + 1 /\ n \in Nat
        /\ to[n + 1] = e /\ \A i \in 1 .. n : to[i] = sq[i]
    BY AppendProperties, LenProperties
  <2>2. PICK f : TotalBy(sq, f, n) /\ Total(sq) = f[n]
    BY TotalLast
  <2>3. PICK ff : TotalBy(to, ff, n + 1) /\ Total(to) = ff[n + 1]
    <3> HIDE DEF to, n
    <3> QED
      BY <2>1, TotalLast
  <2> HIDE DEF to, n
  <2> DEFINE g == [i \in 0 .. n + 1 |-> IF i = n + 1 THEN f[n] + to[n + 1] ELSE f[i]]
  <2>4. TotalBy(to, g, n + 1)
    BY <2>1, <2>2, TotalExtend
  <2>5. g[n + 1] = f[n] + to[n + 1]
    BY <2>1
  <2> HIDE DEF g
  <2>6. g = ff
    BY <2>1, <2>3, <2>4, TotalUnique
  <2>7. Total(to) = Total(sq) + e
    BY <2>1, <2>2, <2>3, <2>5, <2>6
  <2>8. Total(sq) \in Nat
    BY TotalLast
  <2> QED
    BY <2>7, <2>8 DEF to
<1> QED
  BY <1>1, <1>2

=============================================================================
