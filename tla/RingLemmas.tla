----------------------------- MODULE RingLemmas -----------------------------
(***************************************************************************)
(* Facts about the arithmetic of ring buffers, which the programs of this  *)
(* repository use for the TLB, the frames, the chairs of the hallway and   *)
(* the history of the shell, of the kernel's clock, which wraps, and about *)
(* the first match of a linear search and the queues read off a ring.      *)
(***************************************************************************)
EXTENDS Integers, FiniteSetsExt, TLAPS, FiniteSetTheorems, SequenceTheorems

(* The remainder of a number below twice the divisor takes the divisor off *)
(* at most once.                                                           *)
LEMMA RemainderOnce ==
  ASSUME NEW n \in Nat \ {0}, NEW x \in 0 .. 2 * n - 1
  PROVE  x % n = IF x < n THEN x ELSE x - n
  BY Z3

(* An index advanced by one stays in the ring, and wraps to 0 at its end.  *)
LEMMA NextIndex ==
  ASSUME NEW n \in Nat \ {0}, NEW x \in 0 .. n - 1
  PROVE  (x + 1) % n = IF x + 1 = n THEN 0 ELSE x + 1
  BY RemainderOnce

(* An index taken back by k.                                               *)
LEMMA BackInRing ==
  ASSUME NEW n \in Nat \ {0}, NEW x \in 0 .. n - 1, NEW k \in 0 .. n
  PROVE  (x - k + n) % n = IF x < k THEN x - k + n ELSE x - k
<1>1. PICK y \in 0 .. 2 * n - 1 : y = x - k + n
  OBVIOUS
<1>2. y % n = IF y < n THEN y ELSE y - n
  BY RemainderOnce
<1> QED
  BY <1>1, <1>2

(* The element k places after the one with index h, once round included.   *)
LEMMA OffsetInRing ==
  ASSUME NEW n \in Nat \ {0}, NEW h \in 0 .. n - 1, NEW k \in 0 .. n
  PROVE  (h + k) % n = IF h + k < n THEN h + k ELSE h + k - n
  BY Z3

(* What division by n gives.                                               *)
LEMMA Division ==
  ASSUME NEW n \in Nat \ {0}, NEW x \in Int
  PROVE  /\ x \div n \in Int /\ x % n \in 0 .. n - 1
         /\ x = n * (x \div n) + (x % n)
  BY Z3

(* There is only one quotient with a remainder below the divisor.          *)
LEMMA DivisionIsUnique ==
  ASSUME NEW n \in Nat \ {0}, NEW q \in Int, NEW p \in Int,
         NEW s \in 0 .. n - 1, NEW t \in 0 .. n - 1,
         n * q + s = n * p + t
  PROVE  s = t
<1>1. \A e \in Int : e >= 1 => n * e >= n
  BY Z3
<1>2. n * (q - p) = t - s /\ n * (p - q) = s - t
  BY Z3
<1>3. ~ (q - p >= 1) /\ ~ (p - q >= 1)
  BY <1>1, <1>2
<1> QED
  BY <1>3

(* The remainder of a number moved on by less than the divisor, wherever   *)
(* the number is.                                                          *)
LEMMA RemainderOfSum ==
  ASSUME NEW n \in Nat \ {0}, NEW x \in Int, NEW d \in 0 .. n - 1
  PROVE  (x + d) % n = IF (x % n) + d < n THEN (x % n) + d ELSE (x % n) + d - n
<1>1. PICK q \in Int, s \in 0 .. n - 1 : s = x % n /\ x = n * q + s
  BY Division
<1>2. x + d \in Int
  OBVIOUS
<1>3. PICK p \in Int, t \in 0 .. n - 1 : t = (x + d) % n /\ x + d = n * p + t
  BY <1>2, Division
<1>4. CASE s + d < n
  <2>1. PICK u \in 0 .. n - 1 : u = s + d
    BY <1>4
  <2>2. n * q + u = n * p + t
    BY <1>1, <1>3, <2>1
  <2> QED
    BY <1>1, <1>3, <1>4, <2>1, <2>2, DivisionIsUnique
<1>5. CASE s + d >= n
  <2>1. PICK u \in 0 .. n - 1 : u = s + d - n
    BY <1>5
  <2>2. PICK r \in Int : r = q + 1
    OBVIOUS
  <2>3. n * r = n * q + n
    BY <2>2, Z3
  <2>4. n * r + u = n * p + t
    <3>1. n * r + u = (n * q + s) + d
      BY <2>1, <2>3
    <3> QED
      BY <1>1, <1>3, <3>1
  <2>5. u = t
    BY <2>4, DivisionIsUnique
  <2> QED
    BY <1>1, <1>3, <1>5, <2>1, <2>5
<1> QED
  BY <1>4, <1>5

(* The difference of two readings of a counter that wraps at n is the      *)
(* distance between them, if that is less than n.                          *)
LEMMA DifferenceOfReadings ==
  ASSUME NEW n \in Nat \ {0}, NEW x \in Int, NEW d \in 0 .. n - 1
  PROVE  (((x + d) % n) - (x % n)) % n = d
<1>1. PICK s \in 0 .. n - 1 : s = x % n
  BY Division
<1>2. (x + d) % n = IF s + d < n THEN s + d ELSE s + d - n
  BY <1>1, RemainderOfSum
<1>3. d % n = d /\ (d - n) % n = d
  BY Z3
<1>4. ((x + d) % n) - s = d \/ ((x + d) % n) - s = d - n
  BY <1>2
<1> QED
  BY <1>1, <1>3, <1>4

(* A linear search from 0 ends at the first match, if there is one.  (The  *)
(* matches up to x, for x a match, are finite sets; a smallest one of them *)
(* is that of the first match.)                                            *)
LEMMA MinIsFirst ==
  ASSUME NEW S \in SUBSET Nat, S # {}
  PROVE  Min(S) \in S /\ \A y \in S : Min(S) <= y
<1> DEFINE UpTo(x) == {y \in S : y <= x}
           Cuts    == {UpTo(x) : x \in S}
<1>0. \A x \in S : x \in Nat
  OBVIOUS
<1>1. Cuts # {} /\ Cuts \subseteq FiniteSubsetsOf(S)
  <2> SUFFICES ASSUME NEW x \in S
               PROVE  UpTo(x) \in FiniteSubsetsOf(S)
    OBVIOUS
  <2>1. IsFiniteSet(0 .. x)
    BY FS_Interval
  <2>2. UpTo(x) \in SUBSET (0 .. x)
    <3> SUFFICES ASSUME NEW y \in UpTo(x)
                 PROVE  y \in 0 .. x
      OBVIOUS
    <3>1. y \in Nat /\ x \in Nat /\ y <= x
      BY <1>0
    <3> QED
      BY <3>1
  <2> QED
    BY <2>1, <2>2, FS_Subset DEF FiniteSubsetsOf
<1>2. PICK C \in Cuts : \A D \in Cuts : ~ (<<D, C>> \in StrictSubsetOrdering(S))
  <2> HIDE DEF Cuts
  <2> QED BY <1>1, FS_StrictSubsetOrderingWellFounded, WFMin
<1>3. PICK x \in S : C = UpTo(x)
  OBVIOUS
<1>4. \A y \in S : x <= y
  <2> SUFFICES ASSUME NEW y \in S, y < x
               PROVE  FALSE
    BY <1>0
  <2>0. x \in Nat /\ y \in Nat
    BY <1>0
  <2>1. UpTo(y) \subseteq UpTo(x)
    <3> SUFFICES ASSUME NEW z \in UpTo(y)
                 PROVE  z \in UpTo(x)
      OBVIOUS
    <3>1. z \in Nat /\ z \in S /\ z <= y
      BY <1>0
    <3> QED
      BY <2>0, <3>1
  <2>2. x \in UpTo(x) /\ x \notin UpTo(y)
    BY <2>0
  <2>3. UpTo(y) \in Cuts /\ UpTo(y) \in SUBSET S /\ UpTo(x) \in SUBSET S
    OBVIOUS
  <2> HIDE DEF UpTo, Cuts
  <2>4. <<UpTo(y), UpTo(x)>> \in StrictSubsetOrdering(S)
    BY <2>1, <2>2, <2>3 DEF StrictSubsetOrdering
  <2> QED
    BY <2>3, <2>4, <1>2, <1>3
<1> QED
  BY <1>4 DEF Min

(* A queue with x added at its end: the elements stay and x comes after.   *)
LEMMA AppendIs ==
  ASSUME NEW S, NEW s \in Seq(S), NEW t \in Seq(S), NEW x \in S,
         Len(t) = Len(s) + 1, t[Len(s) + 1] = x, \A k \in 1 .. Len(s) : t[k] = s[k]
  PROVE  t = Append(s, x)
<1>1. /\ Append(s, x) \in Seq(S) /\ Len(Append(s, x)) = Len(s) + 1
      /\ \A k \in 1 .. Len(s) : Append(s, x)[k] = s[k]
      /\ Append(s, x)[Len(s) + 1] = x
  BY AppendProperties
<1>2. Len(s) \in Nat
  BY LenProperties
<1>3. \A k \in 1 .. Len(t) : t[k] = Append(s, x)[k]
  <2> SUFFICES ASSUME NEW k \in 1 .. Len(s) + 1 PROVE t[k] = Append(s, x)[k]
    OBVIOUS
  <2>1. k \in 1 .. Len(s) \/ k = Len(s) + 1
    BY <1>2
  <2> QED
    BY <1>1, <2>1
<1> QED
  BY <1>1, <1>3, SeqEqual

(* A full queue with x added: its first element goes, the others move up.  *)
LEMMA AppendToTailIs ==
  ASSUME NEW S, NEW s \in Seq(S), NEW t \in Seq(S), NEW x \in S,
         Len(s) # 0, Len(t) = Len(s), t[Len(s)] = x,
         \A k \in 1 .. Len(s) - 1 : t[k] = s[k + 1]
  PROVE  t = Append(Tail(s), x)
<1>1. Len(s) \in Nat
  BY LenProperties
<1>2. s # <<>>
  BY EmptySeq
<1>3. /\ Tail(s) \in Seq(S) /\ Len(Tail(s)) = Len(s) - 1
      /\ \A k \in 1 .. Len(s) - 1 : Tail(s)[k] = s[k + 1]
  BY <1>2, HeadTailProperties
<1>4. (Len(s) - 1) + 1 = Len(s)
  BY <1>1
<1>5. /\ Len(t) = Len(Tail(s)) + 1 /\ t[Len(Tail(s)) + 1] = x
      /\ \A k \in 1 .. Len(Tail(s)) : t[k] = Tail(s)[k]
  BY <1>3, <1>4
<1> QED
  BY <1>3, <1>5, AppendIs
=============================================================================
